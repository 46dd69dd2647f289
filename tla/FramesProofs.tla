---------------------------- MODULE FramesProofs -----------------------------
(***************************************************************************)
(* Proofs about paging, for every number of processes, pages, frames and   *)
(* slots: frames and swap slots have one owner each, the page a system     *)
(* call works on stays where it is, and no process is ended for a fault    *)
(* that raced with an eviction.                                            *)
(*                                                                         *)
(* The argument follows the lock of a page.  A thread that loads, evicts   *)
(* or destroys a page holds its lock (Works); so the thread with a frame   *)
(* in its hands is the only one to change the frame, its page and the slot *)
(* of the page, and FramesAccounted and SlotsAccounted are kept.           *)
(***************************************************************************)
EXTENDS Frames, WellFoundedInduction, SequenceTheorems, TLAPS

\* Where a thread is at work on the page th[t].page, which is its own.
IdlePCs == {"user", "exit", "dead"}
\* Where it loads that page: it holds the lock, and the page has no frame yet.
LoadPCs == {"alloc", "search", "scan", "evict", "save", "clear", "unlist", "init", "map"}
\* Where it evicts the page of the frame in its hands.
EvictPCs == {"evict", "save", "clear", "unlist"}
\* Where it has a frame in its hands.
HandPCs == EvictPCs \cup {"init", "map", "fill", "done"}
\* Where a thread waits for its page or loads it, and goes on at "then".
WaitPCs == {"lock"} \cup LoadPCs \cup {"fill", "done"}

Victim(t) == fr[th[t].frame].user

\* What a thread holds: the lock of its page, and that of its victim.
Works(t) ==
  /\ th[t].pc \notin IdlePCs =>
       th[t].page \in entries /\ OwnerOf[th[t].page] = t
  /\ th[t].pc \in LoadPCs \cup {"fill", "done", "free"} => pg[th[t].page].lock = t
  /\ th[t].pc \in HandPCs <=> th[t].frame # NoFrame
  /\ th[t].pc \in EvictPCs =>
       Victim(t) \in Pages \ {th[t].page} /\ pg[Victim(t)].lock = t

\* How far a thread has come with its frame (frame_get_page, paging_activate).
Holds(t) ==
  /\ th[t].pc \in {"evict", "save", "clear"} => pg[Victim(t)].kpage = th[t].frame
  /\ th[t].pc = "unlist" => pg[Victim(t)].kpage = NoFrame
  /\ th[t].pc \in LoadPCs => pg[th[t].page].kpage = NoFrame
  /\ th[t].pc \in {"fill", "done"} => pg[th[t].page].kpage = th[t].frame
  /\ th[t].pc = "init" => th[t].frame \notin pool /\ fr[th[t].frame].user = NoPage
  /\ th[t].pc = "map" => fr[th[t].frame].user = th[t].page
  /\ th[t].pc = "free" => pg[th[t].page].sector_t = NoSlot

\* Where a thread goes on.
GoesOn(t) ==
  /\ th[t].pc \in WaitPCs =>
       th[t].then \in {"user", "prohibit", "transfer", "argument", "writeback"}
  /\ th[t].pc = "plock" => th[t].then \in {"argument", "writeback"}
  /\ th[t].pc = "permit" => th[t].then \in {"transfer", "user", "destroy"}

\* The buffer of a system call is pinned from the first look at it on: by the
\* flag of the page until it has a frame, and by that of the frame then
\* (supp_pagedir_set_prohibit, frame_init_single).
Pins(t) ==
  LET p == th[t].page IN
  p \notin ArgPages =>
    /\ th[t].pc \in {"argument", "transfer", "writeback"} =>
         /\ pg[p].kpage # NoFrame /\ pg[p].lock = Nobody
         /\ fr[pg[p].kpage].prohibit_cache
    /\ th[t].pc = "plock" => pg[p].prohibit
    /\ th[t].pc \in WaitPCs /\ th[t].then \in {"argument", "writeback"} => pg[p].prohibit
    /\ th[t].pc \in {"map", "fill", "done"} /\ th[t].then \in {"argument", "writeback"} =>
         fr[th[t].frame].prohibit_cache
    /\ th[t].pc \in WaitPCs \cup {"permit"} => th[t].then # "transfer"

\* Somebody is evicting page p, and its program cannot reach it any more.
Leaving(p) == \E u \in Procs : th[u].pc \in {"save", "clear"} /\ Victim(u) = p

\* A thread that faulted finds its page without a frame once it has the lock.
Faults(t) == th[t].pc = "lock" /\ Mapped(th[t].page) => Leaving(th[t].page)

Threads == \A t \in Procs : Works(t) /\ Holds(t) /\ GoesOn(t) /\ Pins(t) /\ Faults(t)

\* Two threads never have the same frame in their hands.
HandsApart == \A t, u \in Procs : th[t].frame = th[u].frame /\ th[t].frame # NoFrame => t = u

\* Page p is being filled from its slot, or has just been written to it.
Moving(p) == \E t \in Procs : \/ th[t].pc \in {"fill", "done"} /\ th[t].page = p
                              \/ th[t].pc = "clear" /\ Victim(t) = p

\* A page has a frame and a slot only while it is moved from the one to the
\* other; one that does not exist has neither.
PagesOK ==
  \A p \in Pages :
    /\ Mapped(p) /\ pg[p].sector_t # NoSlot => Moving(p)
    /\ p \notin entries => ~ Mapped(p) /\ pg[p].sector_t = NoSlot
    /\ Mapped(p) /\ ~ pg[p].user_ok => Leaving(p)

\* FramesAccounted, frame by frame.
Owned(f) ==
  /\ f \in pool => fr[f].user = NoPage /\ \A u \in Procs : th[u].frame # f
  /\ f \in Range(ordered_list) <=> fr[f].user # NoPage
  /\ fr[f].user = NoPage =>
       f \in pool \/ \E u \in Procs : th[u].frame = f /\ th[u].pc = "init"
  /\ fr[f].user # NoPage =>
       \/ pg[fr[f].user].kpage = f
       \/ \E u \in Procs : th[u].frame = f /\ th[u].pc \in {"map", "unlist"}

FrameInv ==
  /\ \A f \in Frames : Owned(f)
  /\ IsInjective(ordered_list)
  /\ \A p \in Pages : Mapped(p) => fr[pg[p].kpage].user = p

IInv ==
  /\ TypeOK /\ FrameInv /\ SlotsAccounted
  /\ Threads /\ HandsApart /\ PagesOK /\ FaultsAreLegitimate

-----------------------------------------------------------------------------
\* Lemmas on the operators of the model.

\* Every set of natural numbers that is not empty has a least element.
LEMMA LeastElement ==
  ASSUME NEW S \in SUBSET Nat, S # {}
  PROVE  Min(S) \in S
<1>1. PICK x \in S : \A y \in S : ~ (<<y, x>> \in OpToRel(<, Nat))
  BY NatLessThanWellFounded, WFMin
<1>2. ASSUME NEW y \in S, y < x PROVE FALSE
  <2>1. <<y, x>> \in {ss \in Nat \X Nat : ss[1] < ss[2]}
    BY <1>2
  <2>. QED BY <1>1, <2>1 DEF OpToRel
<1>3. \A y \in S : x =< y
  BY <1>2
<1>. QED BY <1>3 DEF Min

\* Inclusion of ranges, element by element.
LEMMA RangeIncluded ==
  ASSUME NEW g, NEW h, \A i \in DOMAIN g : \E j \in DOMAIN h : h[j] = g[i]
  PROVE  Range(g) \subseteq Range(h)
BY DEF Range

\* What stays in the list when its head goes to the end
\* (get_next_frame_to_test), ...
LEMMA RotatedList ==
  ASSUME NEW S, NEW q \in Seq(S), q # << >>
  PROVE  /\ Head(q) \in Range(q) /\ Rotate(q) \in Seq(S) /\ Range(Rotate(q)) = Range(q)
         /\ IsInjective(q) => IsInjective(Rotate(q))
<1>. DEFINE n == Len(q)
            r == Rotate(q)
<1>1. /\ n \in Nat \ {0} /\ r \in Seq(S) /\ Len(r) = n /\ r[n] = q[1]
      /\ \A i \in 1 .. n - 1 : r[i] = q[i + 1]
  BY DEF Rotate
<1>2. DOMAIN q = 1 .. n /\ DOMAIN r = 1 .. n /\ Head(q) = q[1] /\ 1 \in 1 .. n /\ n \in 1 .. n
  BY <1>1
<1>. HIDE DEF n, r
<1>3. \A i \in 1 .. n : \E j \in 1 .. n : q[j] = r[i]
  BY <1>1, <1>2
<1>4. \A i \in 1 .. n : \E j \in 1 .. n : r[j] = q[i]
  <2>. SUFFICES ASSUME NEW i \in 1 .. n PROVE \E j \in 1 .. n : r[j] = q[i]
    OBVIOUS
  <2>1. CASE i = 1 BY <1>1, <1>2, <2>1
  <2>2. CASE i # 1
    <3>1. i - 1 \in 1 .. n - 1 /\ i - 1 \in 1 .. n /\ r[i - 1] = q[(i - 1) + 1]
      BY <1>1, <2>2
    <3>2. (i - 1) + 1 = i OBVIOUS
    <3>. QED BY <3>1, <3>2
  <2>. QED BY <2>1, <2>2
<1>5. Range(r) = Range(q)
  <2>1. Range(r) \subseteq Range(q) BY <1>2, <1>3, RangeIncluded
  <2>2. Range(q) \subseteq Range(r) BY <1>2, <1>4, RangeIncluded
  <2>. QED BY <2>1, <2>2
<1>6. ASSUME IsInjective(q), NEW i \in 1 .. n, NEW j \in 1 .. n, r[i] = r[j] PROVE i = j
  <2>1. \A k, l \in 1 .. n : q[k] = q[l] => k = l
    BY <1>2, <1>6 DEF IsInjective
  <2>2. ASSUME NEW k \in 1 .. n - 1 PROVE k + 1 \in 1 .. n /\ k + 1 # 1 /\ r[k] = q[k + 1]
    BY <1>1, <2>2
  <2>3. CASE i = n /\ j = n BY <2>3
  <2>4. CASE i = n /\ j # n
    BY <1>1, <1>2, <1>6, <2>1, <2>2, <2>4
  <2>5. CASE i # n /\ j = n
    BY <1>1, <1>2, <1>6, <2>1, <2>2, <2>5
  <2>6. CASE i # n /\ j # n
    <3>1. i \in 1 .. n - 1 /\ j \in 1 .. n - 1 BY <1>1, <2>6
    <3>2. i + 1 = j + 1 BY <1>6, <2>1, <2>2, <3>1
    <3>. QED BY <3>1, <3>2
  <2>. QED BY <2>3, <2>4, <2>5, <2>6
<1>7. IsInjective(q) => IsInjective(r)
  BY <1>2, <1>6 DEF IsInjective
<1>8. Head(q) \in Range(q)
  BY <1>2 DEF Range
<1>. QED BY <1>1, <1>5, <1>7, <1>8 DEF r

\* ... when an element is added (frame_init_single), ...
LEMMA AppendedList ==
  ASSUME ordered_list \in Seq(Frames), IsInjective(ordered_list), NEW e \in Frames,
         e \notin Range(ordered_list), ordered_list' = Append(ordered_list, e)
  PROVE  /\ ordered_list' \in Seq(Frames) /\ Range(ordered_list') = Range(ordered_list) \cup {e}
         /\ IsInjective(ordered_list')
<1>. DEFINE q == ordered_list
            r == ordered_list'
            n == Len(q)
<1>1. /\ n \in Nat /\ r \in Seq(Frames) /\ Len(r) = n + 1 /\ r[n + 1] = e
      /\ \A i \in 1 .. n : r[i] = q[i]
  OBVIOUS
<1>2. DOMAIN q = 1 .. n /\ DOMAIN r = 1 .. n + 1
  BY <1>1
<1>. HIDE DEF n
<1>3. Range(r) = Range(q) \cup {e}
  BY <1>1, <1>2 DEF Range
<1>4. ASSUME NEW i \in 1 .. n + 1, NEW j \in 1 .. n + 1, r[i] = r[j] PROVE i = j
  <2>1. \A k, l \in 1 .. n : q[k] = q[l] => k = l
    BY <1>2 DEF IsInjective
  <2>2. \A k \in 1 .. n : q[k] # e
    BY <1>2 DEF Range
  <2>. QED BY <1>1, <1>4, <2>1, <2>2
<1>5. IsInjective(r)
  BY <1>2, <1>4 DEF IsInjective
<1>. QED BY <1>1, <1>3, <1>5

\* ... and when one is removed (list_remove in frame_free_page_no_lock).
LEMMA RemovedList ==
  ASSUME NEW S, NEW q \in Seq(S), NEW e \in Range(q), IsInjective(q)
  PROVE  /\ RemoveFirst(q, e) \in Seq(S) /\ Range(RemoveFirst(q, e)) = Range(q) \ {e}
         /\ IsInjective(RemoveFirst(q, e))
<1>. DEFINE n == Len(q)
            I == {i \in 1 .. n : q[i] = e}
            r == RemoveFirst(q, e)
<1>1. n \in Nat \ {0} /\ DOMAIN q = 1 .. n /\ I \in SUBSET Nat /\ I # {}
  BY DEF Range
<1>2. PICK k \in 1 .. n : q[k] = e /\ k = Min(I)
  BY <1>1, LeastElement
<1>3. SelectInSeq(q, LAMBDA v : v = e) = k
  BY <1>1, <1>2 DEF SelectInSeq
<1>4. r = SubSeq(q, 1, k - 1) \o SubSeq(q, k + 1, n)
  BY <1>2, <1>3 DEF RemoveFirst, RemoveAt
<1>. DEFINE x == SubSeq(q, 1, k - 1)
            y == SubSeq(q, k + 1, n)
<1>k. n \in Nat /\ k \in 1 .. n /\ k \in Int /\ q[k] = e
  BY <1>1, <1>2
<1>q. \A i \in 1 .. n : q[i] \in S
  BY <1>1
<1>. HIDE DEF n, I
<1>5. x \in Seq(S) /\ Len(x) = k - 1 /\ \A i \in 1 .. k - 1 : x[i] = q[i]
  <2>1. 1 \in Int /\ k - 1 \in Int /\ \A i \in 1 .. k - 1 : q[i] \in S
    BY <1>k, <1>q
  <2>2. /\ x \in Seq(S) /\ Len(x) = IF 1 <= k - 1 THEN (k - 1) - 1 + 1 ELSE 0
        /\ \A i \in 1 .. (k - 1) - 1 + 1 : x[i] = q[1 + i - 1]
    BY <2>1, SubSeqProperties
  <2>. HIDE DEF x
  <2>3. (k - 1) - 1 + 1 = k - 1 /\ \A i \in 1 .. k - 1 : 1 + i - 1 = i
    BY <1>k
  <2>4. Len(x) = k - 1
    BY <1>k, <2>2
  <2>. QED BY <2>2, <2>3, <2>4
<1>6. y \in Seq(S) /\ Len(y) = n - k /\ \A i \in 1 .. n - k : y[i] = q[k + i]
  <2>1. k + 1 \in Int /\ n \in Int /\ \A i \in k + 1 .. n : q[i] \in S
    BY <1>k, <1>q
  <2>2. /\ y \in Seq(S) /\ Len(y) = IF k + 1 <= n THEN n - (k + 1) + 1 ELSE 0
        /\ \A i \in 1 .. n - (k + 1) + 1 : y[i] = q[(k + 1) + i - 1]
    BY <2>1, SubSeqProperties
  <2>. HIDE DEF y
  <2>3. n - (k + 1) + 1 = n - k /\ \A i \in 1 .. n - k : (k + 1) + i - 1 = k + i
    BY <1>k
  <2>4. Len(y) = n - k
    BY <1>k, <2>2
  <2>. QED BY <2>2, <2>3, <2>4
<1>. HIDE DEF n, r, x, y
<1>7. r \in Seq(S) /\ Len(r) = n - 1 /\ DOMAIN r = 1 .. n - 1
  <2>1. r \in Seq(S) /\ Len(r) = Len(x) + Len(y)
    BY <1>4, <1>5, <1>6, ConcatProperties DEF x, y
  <2>. QED BY <1>1, <1>k, <1>5, <1>6, <2>1
<1>8. ASSUME NEW i \in 1 .. n - 1 PROVE r[i] = q[IF i < k THEN i ELSE i + 1]
  <2>1. r = x \o y /\ i \in 1 .. Len(x) + Len(y)
    BY <1>1, <1>k, <1>4, <1>5, <1>6 DEF x, y
  <2>2. r[i] = IF i <= Len(x) THEN x[i] ELSE y[i - Len(x)]
    BY <1>5, <1>6, <2>1, ConcatProperties
  <2>3. CASE i < k
    BY <1>1, <1>k, <1>5, <2>2, <2>3
  <2>4. CASE ~ (i < k)
    <3>1. i - (k - 1) \in 1 .. n - k /\ k + (i - (k - 1)) = i + 1
      BY <1>1, <1>k, <2>4
    <3>2. r[i] = y[i - (k - 1)]
      BY <1>1, <1>k, <1>5, <2>2, <2>4
    <3>3. y[i - (k - 1)] = q[k + (i - (k - 1))]
      BY <1>6, <3>1
    <3>. QED BY <2>4, <3>1, <3>2, <3>3
  <2>. QED BY <2>3, <2>4
<1>9. \A i \in 1 .. n, j \in 1 .. n : q[i] = q[j] => i = j
  BY <1>1 DEF IsInjective
<1>10. ASSUME NEW i \in 1 .. n, i # k PROVE \E j \in 1 .. n - 1 : r[j] = q[i]
  <2>1. CASE i < k
    BY <1>1, <1>k, <1>8, <2>1
  <2>2. CASE i > k
    <3>1. i - 1 \in 1 .. n - 1 /\ ~ (i - 1 < k) /\ (i - 1) + 1 = i
      BY <1>1, <1>k, <2>2
    <3>2. r[i - 1] = q[i]
      BY <1>8, <3>1
    <3>. QED BY <3>1, <3>2
  <2>. QED BY <1>k, <1>10, <2>1, <2>2
<1>11. ASSUME NEW j \in 1 .. n - 1 PROVE \E i \in 1 .. n : i # k /\ r[j] = q[i]
  <2>1. CASE j < k
    <3>1. j \in 1 .. n /\ j # k /\ r[j] = q[j]
      BY <1>k, <1>8, <2>1
    <3>. QED BY <3>1
  <2>2. CASE ~ (j < k)
    <3>1. j + 1 \in 1 .. n /\ j + 1 # k /\ r[j] = q[j + 1]
      BY <1>1, <1>k, <1>8, <2>2
    <3>. QED BY <3>1
  <2>. QED BY <2>1, <2>2
<1>12. Range(r) = Range(q) \ {e}
  <2>1. Range(r) \subseteq Range(q)
    BY <1>1, <1>7, <1>11, RangeIncluded
  <2>2. ASSUME NEW v \in Range(q), v # e PROVE v \in Range(r)
    <3>1. PICK i \in 1 .. n : v = q[i] BY <1>1 DEF Range
    <3>2. PICK j \in 1 .. n - 1 : r[j] = q[i] BY <1>k, <1>10, <2>2, <3>1
    <3>. QED BY <1>7, <3>1, <3>2 DEF Range
  <2>3. e \notin Range(r)
    BY <1>k, <1>7, <1>9, <1>11 DEF Range
  <2>. QED BY <2>1, <2>2, <2>3
<1>13. ASSUME NEW i \in 1 .. n - 1, NEW j \in 1 .. n - 1, r[i] = r[j] PROVE i = j
  <2>. DEFINE P(m) == IF m < k THEN m ELSE m + 1
  <2>1. P(i) \in 1 .. n /\ P(j) \in 1 .. n BY <1>1, <1>k
  <2>2. q[P(i)] = q[P(j)] BY <1>8, <1>13
  <2>3. P(i) = P(j) BY <1>9, <2>1, <2>2
  <2>. QED BY <1>k, <2>3
<1>14. IsInjective(r)
  BY <1>7, <1>13 DEF IsInjective
<1>. QED BY <1>7, <1>12, <1>14 DEF r

\* The two forms of the invariant of the frames say the same.
LEMMA FrameInvSuffices == FrameInv => FramesAccounted
BY DEF FrameInv, FramesAccounted, Owned

-----------------------------------------------------------------------------
\* What a step can leave alone of the pages and frames.
SamePages ==
  \A p \in Pages : /\ pg'[p].lock = pg[p].lock /\ pg'[p].prohibit = pg[p].prohibit
                   /\ pg'[p].sector_t = pg[p].sector_t /\ pg'[p].kpage = pg[p].kpage
                   /\ pg'[p].user_ok = pg[p].user_ok
SameFrames ==
  \A f \in Frames : /\ fr'[f].user = fr[f].user
                    /\ fr'[f].prohibit_cache = fr[f].prohibit_cache

\* Where a thread may go without a change to who has which frame.
SameRole(t) ==
  /\ th'[t].frame = th[t].frame
  /\ th[t].pc \in {"init", "map", "unlist", "clear"} => th'[t].pc = th[t].pc
  /\ th[t].pc \in {"fill", "done"} =>
       th'[t].pc \in {"fill", "done"} /\ th'[t].page = th[t].page
  /\ th[t].pc = "save" => th'[t].pc \in {"save", "clear"}

\* The types of what the invariant reads.
LEMMA Types ==
  ASSUME TypeOK
  PROVE  /\ \A u \in Procs : /\ th[u].frame \in Frames \cup {NoFrame}
                             /\ th[u].page \in Pages \cup {NoPage} /\ th[u].pc \in Where
         /\ \A p \in Pages : /\ pg[p].lock \in Procs \cup {Nobody}
                             /\ pg[p].kpage \in Frames \cup {NoFrame}
                             /\ pg[p].sector_t \in Slots \cup {NoSlot}
         /\ \A f \in Frames : fr[f].user \in Pages \cup {NoPage}
         /\ NoFrame \notin Frames /\ NoSlot \notin Slots
         /\ Frames \subseteq Nat /\ Slots \subseteq Nat
BY FramesAssumption DEF TypeOK, ThreadRec, PageRec, FrameRec, Frames, NoFrame, Slots, NoSlot

\* What the other threads rely on: nobody else changes a page they have locked,
\* takes a pinned page of theirs away, or changes a frame in their hands.
LockKept(u) ==
  \A q \in Pages : pg[q].lock = u =>
    /\ pg'[q].lock = u /\ pg'[q].kpage = pg[q].kpage /\ pg'[q].sector_t = pg[q].sector_t
PagesKept(u) ==
  \A q \in Pages : OwnerOf[q] = u =>
    /\ q \in entries => q \in entries'
    /\ pg'[q].prohibit = pg[q].prohibit
    /\ pg[q].kpage \in Frames /\ pg[q].lock = Nobody /\ fr[pg[q].kpage].prohibit_cache =>
         /\ pg'[q].kpage = pg[q].kpage /\ pg'[q].lock = Nobody
         /\ fr'[pg[q].kpage].prohibit_cache
    /\ (pg[q].kpage # NoFrame => Leaving(q)) => (pg'[q].kpage # NoFrame => Leaving(q)')
HandKept(u) ==
  th[u].frame \in Frames =>
    /\ fr'[th[u].frame].user = fr[th[u].frame].user
    /\ fr'[th[u].frame].prohibit_cache = fr[th[u].frame].prohibit_cache
    /\ th[u].pc = "init" /\ th[u].frame \notin pool => th[u].frame \notin pool'

LEMMA OthersKeep ==
  ASSUME IInv, NEW u \in Procs, th'[u] = th[u],
         LockKept(u), PagesKept(u), HandKept(u)
  PROVE  (Works(u) /\ Holds(u) /\ GoesOn(u) /\ Pins(u) /\ Faults(u))'
<1>. USE FramesAssumption, Types DEF IInv
<1>. DEFINE p == th[u].page
<1>0. th'[u] = th[u] /\ Works(u) /\ Holds(u) /\ GoesOn(u) /\ Pins(u) /\ Faults(u)
  BY DEF Threads
<1>1. /\ th[u].pc \in HandPCs => th[u].frame \in Frames /\ Victim(u)' = Victim(u)
      /\ th[u].pc \notin IdlePCs => p \in Pages /\ OwnerOf[p] = u /\ p \in entries'
  BY <1>0 DEF Works, Victim, TypeOK, HandKept, PagesKept
<1>2. /\ EvictPCs \subseteq HandPCs /\ {"map", "fill", "done", "init"} \subseteq HandPCs
      /\ {"evict", "save", "clear", "unlist"} \subseteq EvictPCs
  BY DEF HandPCs, EvictPCs
<1>3. /\ LoadPCs \cap IdlePCs = {} /\ WaitPCs \cap IdlePCs = {}
      /\ "lock" \notin IdlePCs /\ "plock" \notin IdlePCs
      /\ {"fill", "done", "free", "argument", "transfer", "writeback"} \cap IdlePCs = {}
  BY DEF LoadPCs, WaitPCs, IdlePCs
<1>4. Works(u)'
  BY <1>0, <1>1, <1>2, <1>3 DEF Works, LockKept
<1>5. Holds(u)'
  BY <1>0, <1>1, <1>2, <1>3 DEF Holds, Works, LockKept, HandKept
<1>6. GoesOn(u)'
  BY <1>0 DEF GoesOn
<1>7. Pins(u)'
  BY <1>0, <1>1, <1>2, <1>3 DEF Pins, PagesKept, HandKept
<1>8. Faults(u)'
  BY <1>0, <1>1, <1>3 DEF Faults, Mapped, PagesKept
<1>. QED BY <1>4, <1>5, <1>6, <1>7, <1>8

\* The steps of a thread from place to place.
LEMMA GotoStep ==
  ASSUME th \in [Procs -> ThreadRec], NEW t \in Procs, NEW l \in Where, Goto(t, l)
  PROVE  /\ th' \in [Procs -> ThreadRec] /\ \A u \in Procs \ {t} : th'[u] = th[u]
         /\ th'[t].pc = l /\ th'[t].page = th[t].page /\ th'[t].frame = th[t].frame
         /\ th'[t].then = th[t].then
BY DEF Goto, ThreadRec

LEMMA GotoWithStep ==
  ASSUME th \in [Procs -> ThreadRec], NEW t \in Procs, NEW l \in Where,
         NEW p \in Pages \cup {NoPage}, NEW n \in Where, GotoWith(t, l, p, n)
  PROVE  /\ th' \in [Procs -> ThreadRec] /\ \A u \in Procs \ {t} : th'[u] = th[u]
         /\ th'[t].pc = l /\ th'[t].page = p /\ th'[t].frame = th[t].frame /\ th'[t].then = n
BY DEF GotoWith, ThreadRec

LEMMA GotoFrameStep ==
  ASSUME th \in [Procs -> ThreadRec], NEW t \in Procs, NEW l \in Where,
         NEW f \in Frames \cup {NoFrame}, GotoFrame(t, l, f)
  PROVE  /\ th' \in [Procs -> ThreadRec] /\ \A u \in Procs \ {t} : th'[u] = th[u]
         /\ th'[t].pc = l /\ th'[t].page = th[t].page /\ th'[t].frame = f
         /\ th'[t].then = th[t].then
BY DEF GotoFrame, ThreadRec

\* A step of thread t that the others do not notice, and that keeps what t holds.
LEMMA StepKeeps ==
  ASSUME IInv, NEW t \in Procs, TypeOK', \A u \in Procs \ {t} : th'[u] = th[u],
         (Works(t) /\ Holds(t) /\ GoesOn(t) /\ Pins(t) /\ Faults(t))',
         \A u \in Procs \ {t} : LockKept(u) /\ PagesKept(u) /\ HandKept(u),
         th'[t].frame \in {th[t].frame, NoFrame} \/ \A u \in Procs : th[u].frame # th'[t].frame,
         FrameInv', SlotsAccounted', PagesOK', accused' = accused
  PROVE  IInv'
<1>. USE DEF IInv
<1>1. ASSUME NEW u \in Procs \ {t}
      PROVE  (Works(u) /\ Holds(u) /\ GoesOn(u) /\ Pins(u) /\ Faults(u))'
  BY OthersKeep
<1>2. Threads'
  BY <1>1 DEF Threads
<1>3. HandsApart'
  BY DEF HandsApart
<1>. QED BY <1>2, <1>3 DEF FaultsAreLegitimate

\* A step that moves only its own thread, and keeps what this thread holds.
LEMMA MoveKeeps ==
  ASSUME IInv, TypeOK', NEW t \in Procs,
         \A u \in Procs \ {t} : th'[u] = th[u],
         SameRole(t), SamePages, SameFrames,
         Range(ordered_list') = Range(ordered_list), IsInjective(ordered_list'),
         UNCHANGED <<pool, entries, used>>, accused' = accused,
         (Works(t) /\ Holds(t) /\ GoesOn(t) /\ Pins(t) /\ Faults(t))'
  PROVE  IInv'
<1>. USE FramesAssumption, Types DEF IInv, SameRole, SamePages, SameFrames
<1>1. ASSUME NEW g \in Frames PROVE Owned(g)'
  BY DEF FrameInv, Owned
<1>2. ASSUME NEW q \in Pages, Mapped(q)' PROVE fr'[pg'[q].kpage].user = q
  BY <1>2 DEF FrameInv, Mapped
<1>3. FrameInv'
  BY <1>1, <1>2 DEF FrameInv
<1>4. SlotsAccounted'
  BY DEF SlotsAccounted
<1>5. ASSUME NEW p \in Pages PROVE Leaving(p) => Leaving(p)'
  BY DEF Leaving, Victim, Threads, Works, HandPCs, EvictPCs
<1>6. ASSUME NEW p \in Pages PROVE Moving(p) => Moving(p)'
  BY DEF Moving, Victim, Threads, Works, HandPCs, EvictPCs
<1>7. ASSUME NEW u \in Procs PROVE LockKept(u) /\ PagesKept(u) /\ HandKept(u)
  <2>1. LockKept(u) BY DEF LockKept
  <2>2. PagesKept(u) BY <1>5 DEF PagesKept
  <2>3. HandKept(u) BY DEF HandKept
  <2>. QED BY <2>1, <2>2, <2>3
<1>8. PagesOK'
  BY <1>5, <1>6 DEF PagesOK, Mapped
<1>. QED BY <1>3, <1>4, <1>7, <1>8, StepKeeps

\* page_fault, for a page that has an entry.
LEMMA FaultKeeps ==
  ASSUME IInv, NEW t \in Procs,
         NEW p \in Pages, Fault(t, p)
  PROVE  IInv'
<1>. USE FramesAssumption, Types DEF IInv, vars, frame_vars, disk_vars, end_vars, At, Fault, Owns
<1>1. /\ th \in [Procs -> ThreadRec] /\ pg \in [Pages -> PageRec] /\ fr \in [Frames -> FrameRec]
      /\ ordered_list \in Seq(Frames)
      /\ Works(t) /\ Holds(t) /\ GoesOn(t) /\ Pins(t) /\ Faults(t)
  BY DEF TypeOK, Threads
<1>2. /\ th' \in [Procs -> ThreadRec]
      /\ \A u \in Procs \ {t} : th'[u] = th[u]
      /\ th'[t].pc = "lock" /\ th'[t].page = p /\ th'[t].frame = th[t].frame
      /\ th'[t].then = "user"
  <2>1. "lock" \in Where /\ "user" \in Where
    BY DEF Where
  <2>. QED BY <1>1, <2>1, GotoWithStep
<1>3. SameRole(t)
  BY <1>2 DEF SameRole
<1>4. SamePages /\ SameFrames
  BY DEF SamePages, SameFrames
<1>5. \A q \in Pages : Leaving(q) => Leaving(q)'
  BY <1>1, <1>2, <1>4, <1>3 DEF Leaving, Victim, Threads, Works, HandPCs, EvictPCs, SameRole, SamePages, SameFrames
<1>6. TypeOK'
  BY <1>1, <1>2, <1>4, <1>5 DEF TypeOK
<1>7. (Works(t) /\ Holds(t) /\ GoesOn(t) /\ Pins(t) /\ Faults(t))'
  <2>. USE DEF SamePages, SameFrames
  <2>1. Works(t)'
    BY <1>1, <1>2, <1>4, <1>5 DEF Works, Holds, Victim, IdlePCs, LoadPCs, EvictPCs, HandPCs, Mapped
  <2>2. Holds(t)'
    BY <1>1, <1>2, <1>4, <1>5 DEF Works, Holds, Victim, LoadPCs, EvictPCs, HandPCs, Mapped
  <2>3. GoesOn(t)'
    BY <1>1, <1>2, <1>4, <1>5 DEF GoesOn, WaitPCs, LoadPCs
  <2>4. Pins(t)'
    BY <1>1, <1>2, <1>4, <1>5 DEF Works, Holds, GoesOn, Pins, Victim, WaitPCs, LoadPCs, IdlePCs, HandPCs, EvictPCs, Mapped
  <2>5. Faults(t)'
    BY <1>1, <1>2, <1>4, <1>5 DEF Works, Faults, PagesOK, Mapped
  <2>. QED BY <2>1, <2>2, <2>3, <2>4, <2>5
<1>8. Range(ordered_list') = Range(ordered_list) /\ IsInjective(ordered_list')
  BY DEF FrameInv
<1>. QED BY <1>2, <1>3, <1>4, <1>5, <1>6, <1>7, <1>8, MoveKeeps

\* exit(-1), and the calls that end in it.
LEMMA KillKeeps ==
  ASSUME IInv, NEW t \in Procs,
         th[t].pc \in {"user", "lock", "argument", "release"},
         Kill(t),
         UNCHANGED <<frame_vars, entries, pg, disk_vars, mmap_lock, accused, panic>>,
         ops' \in 0 .. MaxOps
  PROVE  IInv'
<1>. USE FramesAssumption, Types DEF IInv, vars, frame_vars, disk_vars, end_vars, At, Kill
<1>1. /\ th \in [Procs -> ThreadRec] /\ pg \in [Pages -> PageRec] /\ fr \in [Frames -> FrameRec]
      /\ ordered_list \in Seq(Frames)
      /\ Works(t) /\ Holds(t) /\ GoesOn(t) /\ Pins(t) /\ Faults(t)
  BY DEF TypeOK, Threads
<1>2. /\ th' \in [Procs -> ThreadRec]
      /\ \A u \in Procs \ {t} : th'[u] = th[u]
      /\ th'[t].pc = "exit" /\ th'[t].page = th[t].page /\ th'[t].frame = th[t].frame
      /\ th'[t].then = th[t].then
  <2>1. "exit" \in Where
    BY DEF Where
  <2>. QED BY <1>1, <2>1, GotoStep
<1>3. SameRole(t)
  BY <1>2 DEF SameRole
<1>4. SamePages /\ SameFrames
  BY DEF SamePages, SameFrames
<1>5. TypeOK'
  BY <1>1, <1>2, <1>4 DEF TypeOK
<1>6. (Works(t) /\ Holds(t) /\ GoesOn(t) /\ Pins(t) /\ Faults(t))'
  BY <1>1, <1>2, <1>4 DEF Works, Holds, GoesOn, Pins, Faults, Victim, Mapped, IdlePCs, LoadPCs, EvictPCs, HandPCs, WaitPCs, SamePages, SameFrames
<1>7. Range(ordered_list') = Range(ordered_list) /\ IsInjective(ordered_list')
  BY DEF FrameInv
<1>. QED BY <1>2, <1>3, <1>4, <1>5, <1>6, <1>7, MoveKeeps

\* A system call with a pointer into a page that has a frame.
LEMMA CheckMappedKeeps ==
  ASSUME IInv, NEW t \in Procs,
         NEW p \in Pages, At(t, "user"), Owns(t, p),
         GotoWith(t, "prohibit", p, "argument"),
         UNCHANGED <<frame_vars, entries, pg, disk_vars, mmap_lock, end_vars>>,
         ops' \in 0 .. MaxOps
  PROVE  IInv'
<1>. USE FramesAssumption, Types DEF IInv, vars, frame_vars, disk_vars, end_vars, At, Owns
<1>1. /\ th \in [Procs -> ThreadRec] /\ pg \in [Pages -> PageRec] /\ fr \in [Frames -> FrameRec]
      /\ ordered_list \in Seq(Frames)
      /\ Works(t) /\ Holds(t) /\ GoesOn(t) /\ Pins(t) /\ Faults(t)
  BY DEF TypeOK, Threads
<1>2. /\ th' \in [Procs -> ThreadRec]
      /\ \A u \in Procs \ {t} : th'[u] = th[u]
      /\ th'[t].pc = "prohibit" /\ th'[t].page = p /\ th'[t].frame = th[t].frame
      /\ th'[t].then = "argument"
  <2>1. "prohibit" \in Where /\ "argument" \in Where
    BY DEF Where
  <2>. QED BY <1>1, <2>1, GotoWithStep
<1>3. SameRole(t)
  BY <1>2 DEF SameRole
<1>4. SamePages /\ SameFrames
  BY DEF SamePages, SameFrames
<1>5. TypeOK'
  BY <1>1, <1>2, <1>4 DEF TypeOK
<1>6. (Works(t) /\ Holds(t) /\ GoesOn(t) /\ Pins(t) /\ Faults(t))'
  BY <1>1, <1>2, <1>4 DEF Works, Holds, GoesOn, Pins, Faults, Victim, Mapped, IdlePCs, LoadPCs, EvictPCs, HandPCs, WaitPCs, SamePages, SameFrames
<1>7. Range(ordered_list') = Range(ordered_list) /\ IsInjective(ordered_list')
  BY DEF FrameInv
<1>. QED BY <1>2, <1>3, <1>4, <1>5, <1>6, <1>7, MoveKeeps

\* A system call with a pointer into a page that has none.
LEMMA CheckAbsentKeeps ==
  ASSUME IInv, NEW t \in Procs,
         NEW p \in Pages, At(t, "user"), Owns(t, p), ~ Mapped(p),
         GotoWith(t, "lock", p, "prohibit"),
         UNCHANGED <<frame_vars, entries, pg, disk_vars, mmap_lock, end_vars>>,
         ops' \in 0 .. MaxOps
  PROVE  IInv'
<1>. USE FramesAssumption, Types DEF IInv, vars, frame_vars, disk_vars, end_vars, At, Owns
<1>1. /\ th \in [Procs -> ThreadRec] /\ pg \in [Pages -> PageRec] /\ fr \in [Frames -> FrameRec]
      /\ ordered_list \in Seq(Frames)
      /\ Works(t) /\ Holds(t) /\ GoesOn(t) /\ Pins(t) /\ Faults(t)
  BY DEF TypeOK, Threads
<1>2. /\ th' \in [Procs -> ThreadRec]
      /\ \A u \in Procs \ {t} : th'[u] = th[u]
      /\ th'[t].pc = "lock" /\ th'[t].page = p /\ th'[t].frame = th[t].frame
      /\ th'[t].then = "prohibit"
  <2>1. "lock" \in Where /\ "prohibit" \in Where
    BY DEF Where
  <2>. QED BY <1>1, <2>1, GotoWithStep
<1>3. SameRole(t)
  BY <1>2 DEF SameRole
<1>4. SamePages /\ SameFrames
  BY DEF SamePages, SameFrames
<1>5. TypeOK'
  BY <1>1, <1>2, <1>4 DEF TypeOK
<1>6. (Works(t) /\ Holds(t) /\ GoesOn(t) /\ Pins(t) /\ Faults(t))'
  BY <1>1, <1>2, <1>4 DEF Works, Holds, GoesOn, Pins, Faults, Victim, Mapped, IdlePCs, LoadPCs, EvictPCs, HandPCs, WaitPCs, SamePages, SameFrames
<1>7. Range(ordered_list') = Range(ordered_list) /\ IsInjective(ordered_list')
  BY DEF FrameInv
<1>. QED BY <1>2, <1>3, <1>4, <1>5, <1>6, <1>7, MoveKeeps

\* munmap_sys.
LEMMA MUnmapKeeps ==
  ASSUME IInv, NEW t \in Procs,
         NEW p \in Pages, th[t].pc \in {"user", "exit"}, Owns(t, p),
         MUnmap(t, p),
         ops' \in 0 .. MaxOps
  PROVE  IInv'
<1>. USE FramesAssumption, Types DEF IInv, vars, frame_vars, disk_vars, end_vars, At, MUnmap, Owns
<1>1. /\ th \in [Procs -> ThreadRec] /\ pg \in [Pages -> PageRec] /\ fr \in [Frames -> FrameRec]
      /\ ordered_list \in Seq(Frames)
      /\ Works(t) /\ Holds(t) /\ GoesOn(t) /\ Pins(t) /\ Faults(t)
  BY DEF TypeOK, Threads
<1>2. /\ th' \in [Procs -> ThreadRec]
      /\ \A u \in Procs \ {t} : th'[u] = th[u]
      /\ th'[t].pc = "discard" /\ th'[t].page = p /\ th'[t].frame = th[t].frame
      /\ th'[t].then = "user"
  <2>1. "discard" \in Where /\ "user" \in Where
    BY DEF Where
  <2>. QED BY <1>1, <2>1, GotoWithStep
<1>3. SameRole(t)
  BY <1>2 DEF SameRole
<1>4. SamePages /\ SameFrames
  BY DEF SamePages, SameFrames
<1>5. TypeOK'
  BY <1>1, <1>2, <1>4 DEF TypeOK
<1>6. (Works(t) /\ Holds(t) /\ GoesOn(t) /\ Pins(t) /\ Faults(t))'
  BY <1>1, <1>2, <1>4 DEF Works, Holds, GoesOn, Pins, Faults, Victim, Mapped, IdlePCs, LoadPCs, EvictPCs, HandPCs, WaitPCs, SamePages, SameFrames
<1>7. Range(ordered_list') = Range(ordered_list) /\ IsInjective(ordered_list')
  BY DEF FrameInv
<1>. QED BY <1>2, <1>3, <1>4, <1>5, <1>6, <1>7, MoveKeeps

\* frame_get_page finds no free frame, or its search begins.
LEMMA SearchKeeps ==
  ASSUME IInv, NEW t \in Procs,
         NEW l \in {"search", "scan"},
         \/ th[t].pc = "alloc" /\ l = "search"
         \/ th[t].pc = "search" /\ l = "scan",
         Goto(t, l),
         list_lock' \in Procs \cup {Nobody},
         UNCHANGED <<fr, ordered_list, pool, entries, pg, disk_vars, mmap_lock, end_vars, ops>>
  PROVE  IInv'
<1>. USE FramesAssumption, Types DEF IInv, vars, frame_vars, disk_vars, end_vars, At
<1>1. /\ th \in [Procs -> ThreadRec] /\ pg \in [Pages -> PageRec] /\ fr \in [Frames -> FrameRec]
      /\ ordered_list \in Seq(Frames)
      /\ Works(t) /\ Holds(t) /\ GoesOn(t) /\ Pins(t) /\ Faults(t)
  BY DEF TypeOK, Threads
<1>2. /\ th' \in [Procs -> ThreadRec]
      /\ \A u \in Procs \ {t} : th'[u] = th[u]
      /\ th'[t].pc = l /\ th'[t].page = th[t].page /\ th'[t].frame = th[t].frame
      /\ th'[t].then = th[t].then
  <2>1. l \in Where
    BY DEF Where
  <2>. QED BY <1>1, <2>1, GotoStep
<1>3. SameRole(t)
  BY <1>2 DEF SameRole
<1>4. SamePages /\ SameFrames
  BY DEF SamePages, SameFrames
<1>5. TypeOK'
  BY <1>1, <1>2, <1>4 DEF TypeOK
<1>6. (Works(t) /\ Holds(t) /\ GoesOn(t) /\ Pins(t) /\ Faults(t))'
  BY <1>1, <1>2, <1>4 DEF Works, Holds, GoesOn, Pins, Faults, Victim, Mapped, IdlePCs, LoadPCs, EvictPCs, HandPCs, WaitPCs, SamePages, SameFrames
<1>7. Range(ordered_list') = Range(ordered_list) /\ IsInjective(ordered_list')
  BY DEF FrameInv
<1>. QED BY <1>2, <1>3, <1>4, <1>5, <1>6, <1>7, MoveKeeps

\* A step that moves no thread.
LEMMA StillKeeps ==
  ASSUME IInv, TypeOK', SamePages, SameFrames, UNCHANGED <<th, pool, entries, used, accused>>,
         Range(ordered_list') = Range(ordered_list), IsInjective(ordered_list')
  PROVE  IInv'
<1>. USE DEF IInv
<1>1. ASSUME NEW p \in Pages PROVE Leaving(p) => Leaving(p)'
  BY Types DEF Leaving, Victim, Threads, Works, HandPCs, EvictPCs, SameFrames
<1>2. ASSUME NEW u \in Procs
      PROVE  (Works(u) /\ Holds(u) /\ GoesOn(u) /\ Pins(u) /\ Faults(u))'
  <2>1. LockKept(u) BY DEF LockKept, SamePages
  <2>2. PagesKept(u) BY <1>1 DEF PagesKept, SamePages, SameFrames
  <2>3. HandKept(u) BY DEF HandKept, SameFrames
  <2>. QED BY <2>1, <2>2, <2>3, OthersKeep
<1>3. CASE Procs # {}
  <2>1. PICK t \in Procs : TRUE BY <1>3
  <2>2. SameRole(t) BY DEF SameRole
  <2>. QED BY <1>2, <2>1, <2>2, MoveKeeps
<1>4. CASE Procs = {}
  <2>1. \A p \in Pages : FALSE BY <1>4, FramesAssumption
  <2>2. Threads' BY <1>4 DEF Threads
  <2>3. HandsApart' BY <1>4 DEF HandsApart
  <2>4. PagesOK' BY <2>1 DEF PagesOK
  <2>5. SlotsAccounted' BY <2>1 DEF SlotsAccounted
  <2>6. FrameInv' BY <1>4, <2>1, Types DEF FrameInv, Owned, SameFrames
  <2>. QED BY <2>2, <2>3, <2>4, <2>5, <2>6 DEF FaultsAreLegitimate
<1>. QED BY <1>3, <1>4

\* The search passes a frame by, or gives it a second chance.
LEMMA RotateKeeps ==
  ASSUME IInv, ordered_list # << >>, ordered_list' = Rotate(ordered_list), NEW p \in Pages,
         pg' = pg \/ pg' = [pg EXCEPT ![p].accessed = FALSE],
         UNCHANGED <<fr, list_lock, pool, entries, disk_vars, th, mmap_lock, end_vars, ops>>
  PROVE  IInv'
<1>. USE DEF IInv, disk_vars, end_vars
<1>1. /\ ordered_list' \in Seq(Frames) /\ Range(ordered_list') = Range(ordered_list)
      /\ IsInjective(ordered_list')
  BY RotatedList DEF TypeOK, FrameInv
<1>2. pg' \in [Pages -> PageRec] /\ SamePages
  <2>0. pg \in [Pages -> PageRec] BY DEF TypeOK
  <2>1. CASE pg' = pg BY <2>0, <2>1 DEF SamePages
  <2>2. CASE pg' = [pg EXCEPT ![p].accessed = FALSE]
    BY <2>0, <2>2 DEF PageRec, SamePages
  <2>. QED BY <2>1, <2>2
<1>3. SameFrames
  BY DEF SameFrames
<1>4. TypeOK'
  BY <1>1, <1>2 DEF TypeOK
<1>. QED BY <1>1, <1>2, <1>3, <1>4, StillKeeps

LEMMA TouchedTyped ==
  ASSUME pg \in [Pages -> PageRec], NEW p \in Pages, NEW d \in BOOLEAN,
         pg' = [pg EXCEPT ![p].accessed = TRUE, ![p].dirty = d]
  PROVE  pg' \in [Pages -> PageRec] /\ SamePages
BY ZenonT(60) DEF PageRec, SamePages

\* The program, or the kernel for it, reads or writes a page.
LEMMA TouchTyped ==
  ASSUME TypeOK, NEW p \in Pages, NEW v \in Values \cup {Read}, Touch(p, v), Mapped(p)
  PROVE  /\ fr' \in [Frames -> FrameRec] /\ pg' \in [Pages -> PageRec]
         /\ last' \in [Pages -> Values] /\ SamePages /\ SameFrames
<1>1. pg' \in [Pages -> PageRec] /\ SamePages
  <2>1. PICK d \in BOOLEAN : pg' = [pg EXCEPT ![p].accessed = TRUE, ![p].dirty = d]
    BY DEF Touch, TypeOK, PageRec
  <2>2. pg \in [Pages -> PageRec]
    BY DEF TypeOK
  <2>. QED BY <2>1, <2>2, TouchedTyped
<1>2. fr' \in [Frames -> FrameRec] /\ SameFrames
  BY DEF Touch, TypeOK, FrameRec, SameFrames
<1>3. last' \in [Pages -> Values]
  BY DEF Touch, TypeOK
<1>. QED BY <1>1, <1>2, <1>3

LEMMA AccessKeeps ==
  ASSUME IInv, NEW t \in Procs, NEW p \in Pages, NEW v \in Values \cup {Read}, Access(t, p, v)
  PROVE  IInv'
<1>. USE FramesAssumption DEF IInv, Access, Runs, end_vars
<1>1. /\ fr' \in [Frames -> FrameRec] /\ pg' \in [Pages -> PageRec]
      /\ last' \in [Pages -> Values] /\ SamePages /\ SameFrames
  BY TouchTyped
<1>2. UNCHANGED <<ordered_list, list_lock, pool, used, swap, file>>
  BY DEF Touch
<1>3. TypeOK'
  BY <1>1, <1>2 DEF TypeOK
<1>4. Range(ordered_list') = Range(ordered_list) /\ IsInjective(ordered_list')
  BY <1>2 DEF FrameInv
<1>. QED BY <1>1, <1>2, <1>3, <1>4, StillKeeps

\* Updates of what the invariant does not read.
LEMMA AccessedTyped ==
  ASSUME TypeOK, NEW p \in Pages, NEW b \in BOOLEAN, pg' = [pg EXCEPT ![p].accessed = b]
  PROVE  pg' \in [Pages -> PageRec] /\ SamePages
<1>1. pg \in [Pages -> PageRec] BY DEF TypeOK
<1>. QED BY <1>1 DEF PageRec, SamePages

LEMMA DirtyTyped ==
  ASSUME TypeOK, NEW p \in Pages, pg' = [pg EXCEPT ![p].dirty = FALSE]
  PROVE  pg' \in [Pages -> PageRec] /\ SamePages
<1>1. pg \in [Pages -> PageRec] BY DEF TypeOK
<1>. QED BY <1>1 DEF PageRec, SamePages

LEMMA KDirtyTyped ==
  ASSUME TypeOK, NEW f \in Frames, fr' = [fr EXCEPT ![f].kdirty = FALSE]
  PROVE  fr' \in [Frames -> FrameRec] /\ SameFrames
<1>1. fr \in [Frames -> FrameRec] BY DEF TypeOK
<1>. QED BY <1>1 DEF FrameRec, SameFrames

LEMMA DataTyped ==
  ASSUME TypeOK, NEW f \in Frames, NEW v \in Values,
         \/ fr' = [fr EXCEPT ![f].data = v]
         \/ fr' = [fr EXCEPT ![f].data = v, ![f].kdirty = TRUE]
  PROVE  fr' \in [Frames -> FrameRec] /\ SameFrames
<1>1. fr \in [Frames -> FrameRec] BY DEF TypeOK
<1>2. CASE fr' = [fr EXCEPT ![f].data = v] BY <1>1, <1>2 DEF FrameRec, SameFrames
<1>3. CASE fr' = [fr EXCEPT ![f].data = v, ![f].kdirty = TRUE]
  BY <1>1, <1>3 DEF FrameRec, SameFrames
<1>. QED BY <1>2, <1>3

\* The victim is clean, or the swap is full: no slot is taken.
LEMMA SaveKeepKeeps ==
  ASSUME IInv, NEW t \in Procs,
         At(t, "save"),
         Goto(t, "clear"),
         \/ pg' = pg
         \/ pg' = [pg EXCEPT ![Victim(t)].sector_t = NoSlot],
         UNCHANGED <<frame_vars, entries, disk_vars, mmap_lock, end_vars, ops>>
  PROVE  IInv'
<1>. USE FramesAssumption, Types DEF IInv, vars, frame_vars, disk_vars, end_vars, At
<1>1. /\ th \in [Procs -> ThreadRec] /\ pg \in [Pages -> PageRec] /\ fr \in [Frames -> FrameRec]
      /\ ordered_list \in Seq(Frames)
      /\ Works(t) /\ Holds(t) /\ GoesOn(t) /\ Pins(t) /\ Faults(t)
  BY DEF TypeOK, Threads
<1>2. /\ Victim(t) \in Pages /\ pg[Victim(t)].lock = t /\ Mapped(Victim(t))
      /\ th[t].frame \in Frames /\ fr[th[t].frame].user = Victim(t) /\ th[t].page \in Pages
  BY <1>1 DEF TypeOK, IdlePCs, Works, Holds, EvictPCs, HandPCs, Victim, Mapped
<1>3. pg[Victim(t)].sector_t = NoSlot
  BY <1>1, <1>2 DEF PagesOK, Moving, Threads, Works, LoadPCs, EvictPCs
<1>4. pg' \in [Pages -> PageRec] /\ SamePages
  <2>1. CASE pg' = pg BY <1>1, <2>1 DEF SamePages
  <2>2. CASE pg' = [pg EXCEPT ![Victim(t)].sector_t = NoSlot] BY <1>1, <1>2, <1>3, <2>2 DEF SamePages, PageRec
  <2>. QED BY <2>1, <2>2
<1>5. /\ th' \in [Procs -> ThreadRec]
      /\ \A u \in Procs \ {t} : th'[u] = th[u]
      /\ th'[t].pc = "clear" /\ th'[t].page = th[t].page /\ th'[t].frame = th[t].frame
      /\ th'[t].then = th[t].then
  <2>1. "clear" \in Where
    BY DEF Where
  <2>. QED BY <1>1, <1>2, <1>3, <1>4, <2>1, GotoStep
<1>6. SameRole(t)
  BY <1>5 DEF SameRole
<1>7. SamePages /\ SameFrames
  BY <1>4 DEF SameFrames
<1>8. Victim(t)' = Victim(t)
  BY <1>1, <1>2, <1>3, <1>4, <1>5, <1>7 DEF Victim, SameFrames
<1>9. TypeOK'
  BY <1>1, <1>2, <1>3, <1>4, <1>5, <1>7, <1>8 DEF TypeOK
<1>10. (Works(t) /\ Holds(t) /\ GoesOn(t) /\ Pins(t) /\ Faults(t))'
  BY <1>1, <1>2, <1>3, <1>4, <1>5, <1>7, <1>8 DEF Works, Holds, GoesOn, Pins, Faults, Victim, Mapped, IdlePCs, LoadPCs, EvictPCs, HandPCs, WaitPCs, SamePages, SameFrames
<1>11. Range(ordered_list') = Range(ordered_list) /\ IsInjective(ordered_list')
  BY DEF FrameInv
<1>. QED BY <1>5, <1>6, <1>7, <1>8, <1>9, <1>10, <1>11, MoveKeeps

\* The end of paging_activate_no_lock.
LEMMA FillKeeps ==
  ASSUME IInv, NEW t \in Procs,
         Fill(t)
  PROVE  IInv'
<1>. USE FramesAssumption, Types DEF IInv, vars, frame_vars, disk_vars, end_vars, At, Fill
<1>1. /\ th \in [Procs -> ThreadRec] /\ pg \in [Pages -> PageRec] /\ fr \in [Frames -> FrameRec]
      /\ ordered_list \in Seq(Frames)
      /\ Works(t) /\ Holds(t) /\ GoesOn(t) /\ Pins(t) /\ Faults(t)
  BY DEF TypeOK, Threads
<1>2. th[t].page \in Pages /\ th[t].frame \in Frames
  BY <1>1 DEF Works, IdlePCs, HandPCs, TypeOK
<1>3. fr' \in [Frames -> FrameRec] /\ pg' \in [Pages -> PageRec] /\ SamePages /\ SameFrames
  <2>. DEFINE p == th[t].page
              f == th[t].frame
  <2>0. file[p] \in Values \/ p \notin FilePages
    BY <1>2 DEF TypeOK
  <2>1. ASSUME pg[p].sector_t # NoSlot
        PROVE  /\ fr' = [fr EXCEPT ![f].data = swap[pg[p].sector_t], ![f].kdirty = TRUE]
               /\ pg' = [pg EXCEPT ![p].accessed = TRUE] /\ swap[pg[p].sector_t] \in Values
    BY <1>2, <2>1 DEF TypeOK
  <2>2. CASE pg[p].sector_t # NoSlot
    BY <1>2, <2>1, <2>2, AccessedTyped, DataTyped
  <2>3. CASE pg[p].sector_t = NoSlot /\ p \in FilePages
    BY <1>1, <1>2, <2>0, <2>3, DataTyped DEF SamePages
  <2>4. CASE pg[p].sector_t = NoSlot /\ p \notin FilePages
    BY <1>1, <2>4 DEF SamePages, SameFrames
  <2>. QED BY <2>2, <2>3, <2>4
<1>4. /\ th' \in [Procs -> ThreadRec]
      /\ \A u \in Procs \ {t} : th'[u] = th[u]
      /\ th'[t].pc = "done" /\ th'[t].page = th[t].page /\ th'[t].frame = th[t].frame
      /\ th'[t].then = th[t].then
  <2>1. "done" \in Where
    BY DEF Where
  <2>. QED BY <1>1, <1>2, <1>3, <2>1, GotoStep
<1>5. SameRole(t)
  BY <1>4 DEF SameRole
<1>6. SamePages /\ SameFrames
  BY <1>3
<1>7. TypeOK'
  BY <1>1, <1>2, <1>3, <1>4, <1>6 DEF TypeOK
<1>8. (Works(t) /\ Holds(t) /\ GoesOn(t) /\ Pins(t) /\ Faults(t))'
  BY <1>1, <1>2, <1>3, <1>4, <1>6 DEF Works, Holds, GoesOn, Pins, Faults, Victim, Mapped, IdlePCs, LoadPCs, EvictPCs, HandPCs, WaitPCs, SamePages, SameFrames
<1>9. Range(ordered_list') = Range(ordered_list) /\ IsInjective(ordered_list')
  BY DEF FrameInv
<1>. QED BY <1>4, <1>5, <1>6, <1>7, <1>8, <1>9, MoveKeeps

\* The call reads or writes its buffer.
LEMMA TransferKeeps ==
  ASSUME IInv, NEW t \in Procs,
         NEW v \in Values \cup {Read},
         At(t, "transfer"),
         Mapped(th[t].page),
         Touch(th[t].page, v),
         Goto(t, "release"),
         UNCHANGED <<entries, mmap_lock, end_vars, ops>>
  PROVE  IInv'
<1>. USE FramesAssumption, Types DEF IInv, vars, frame_vars, disk_vars, end_vars, At
<1>1. /\ th \in [Procs -> ThreadRec] /\ pg \in [Pages -> PageRec] /\ fr \in [Frames -> FrameRec]
      /\ ordered_list \in Seq(Frames)
      /\ Works(t) /\ Holds(t) /\ GoesOn(t) /\ Pins(t) /\ Faults(t)
  BY DEF TypeOK, Threads
<1>2. th[t].page \in Pages /\ th[t].page \in entries /\ OwnerOf[th[t].page] = t
  BY <1>1 DEF Works, IdlePCs, TypeOK
<1>3. /\ fr' \in [Frames -> FrameRec] /\ pg' \in [Pages -> PageRec]
      /\ last' \in [Pages -> Values] /\ SamePages /\ SameFrames
  BY <1>2, TouchTyped
<1>4. UNCHANGED <<ordered_list, list_lock, pool, used, swap, file>>
  BY DEF Touch
<1>5. /\ th' \in [Procs -> ThreadRec]
      /\ \A u \in Procs \ {t} : th'[u] = th[u]
      /\ th'[t].pc = "release" /\ th'[t].page = th[t].page /\ th'[t].frame = th[t].frame
      /\ th'[t].then = th[t].then
  <2>1. "release" \in Where
    BY DEF Where
  <2>. QED BY <1>1, <1>2, <1>3, <1>4, <2>1, GotoStep
<1>6. SameRole(t)
  BY <1>5 DEF SameRole
<1>7. SamePages /\ SameFrames
  BY <1>3
<1>8. TypeOK'
  BY <1>1, <1>2, <1>3, <1>4, <1>5, <1>7 DEF TypeOK
<1>9. (Works(t) /\ Holds(t) /\ GoesOn(t) /\ Pins(t) /\ Faults(t))'
  BY <1>1, <1>2, <1>3, <1>4, <1>5, <1>7 DEF Works, Holds, GoesOn, Pins, Faults, Victim, Mapped, IdlePCs, LoadPCs, EvictPCs, HandPCs, WaitPCs, SamePages, SameFrames
<1>10. Range(ordered_list') = Range(ordered_list) /\ IsInjective(ordered_list')
  BY <1>4 DEF FrameInv
<1>. QED BY <1>5, <1>6, <1>7, <1>8, <1>9, <1>10, <1>4, MoveKeeps

\* The call faults on its buffer.
LEMMA TransferFaultKeeps ==
  ASSUME IInv, NEW t \in Procs,
         At(t, "transfer"),
         ~ Mapped(th[t].page),
         GotoWith(t, "lock", th[t].page, "transfer"),
         UNCHANGED <<frame_vars, entries, pg, disk_vars, mmap_lock, end_vars, ops>>
  PROVE  IInv'
<1>. USE FramesAssumption, Types DEF IInv, vars, frame_vars, disk_vars, end_vars, At
<1>1. /\ th \in [Procs -> ThreadRec] /\ pg \in [Pages -> PageRec] /\ fr \in [Frames -> FrameRec]
      /\ ordered_list \in Seq(Frames)
      /\ Works(t) /\ Holds(t) /\ GoesOn(t) /\ Pins(t) /\ Faults(t)
  BY DEF TypeOK, Threads
<1>2. th[t].page \in Pages /\ th[t].page \in entries /\ OwnerOf[th[t].page] = t
  BY <1>1 DEF Works, IdlePCs, TypeOK
<1>3. /\ th' \in [Procs -> ThreadRec]
      /\ \A u \in Procs \ {t} : th'[u] = th[u]
      /\ th'[t].pc = "lock" /\ th'[t].page = th[t].page /\ th'[t].frame = th[t].frame
      /\ th'[t].then = "transfer"
  <2>1. "lock" \in Where /\ "transfer" \in Where
    BY DEF Where
  <2>. QED BY <1>1, <1>2, <2>1, GotoWithStep
<1>4. SameRole(t)
  BY <1>3 DEF SameRole
<1>5. SamePages /\ SameFrames
  BY DEF SamePages, SameFrames
<1>6. TypeOK'
  BY <1>1, <1>2, <1>3, <1>5 DEF TypeOK
<1>7. (Works(t) /\ Holds(t) /\ GoesOn(t) /\ Pins(t) /\ Faults(t))'
  BY <1>1, <1>2, <1>3, <1>5 DEF Works, Holds, GoesOn, Pins, Faults, Victim, Mapped, IdlePCs, LoadPCs, EvictPCs, HandPCs, WaitPCs, SamePages, SameFrames
<1>8. Range(ordered_list') = Range(ordered_list) /\ IsInjective(ordered_list')
  BY DEF FrameInv
<1>. QED BY <1>3, <1>4, <1>5, <1>6, <1>7, <1>8, MoveKeeps

\* check_pointer with prohibit = false.
LEMMA ToPermitKeeps ==
  ASSUME IInv, NEW t \in Procs,
         NEW n \in {"transfer", "user", "destroy"},
         th[t].pc \in {"argument", "release", "writeback"},
         n = "transfer" => th[t].page \in ArgPages,
         GotoWith(t, "permit", th[t].page, n),
         UNCHANGED <<frame_vars, entries, pg, disk_vars, mmap_lock, end_vars, ops>>
  PROVE  IInv'
<1>. USE FramesAssumption, Types DEF IInv, vars, frame_vars, disk_vars, end_vars, At
<1>1. /\ th \in [Procs -> ThreadRec] /\ pg \in [Pages -> PageRec] /\ fr \in [Frames -> FrameRec]
      /\ ordered_list \in Seq(Frames)
      /\ Works(t) /\ Holds(t) /\ GoesOn(t) /\ Pins(t) /\ Faults(t)
  BY DEF TypeOK, Threads
<1>2. th[t].page \in Pages /\ th[t].page \in entries /\ OwnerOf[th[t].page] = t
  BY <1>1 DEF Works, IdlePCs, TypeOK
<1>3. /\ th' \in [Procs -> ThreadRec]
      /\ \A u \in Procs \ {t} : th'[u] = th[u]
      /\ th'[t].pc = "permit" /\ th'[t].page = th[t].page /\ th'[t].frame = th[t].frame
      /\ th'[t].then = n
  <2>1. "permit" \in Where /\ n \in Where
    BY DEF Where
  <2>. QED BY <1>1, <1>2, <2>1, GotoWithStep
<1>4. SameRole(t)
  BY <1>3 DEF SameRole
<1>5. SamePages /\ SameFrames
  BY DEF SamePages, SameFrames
<1>6. TypeOK'
  BY <1>1, <1>2, <1>3, <1>5 DEF TypeOK
<1>7. (Works(t) /\ Holds(t) /\ GoesOn(t) /\ Pins(t) /\ Faults(t))'
  BY <1>1, <1>2, <1>3, <1>5 DEF Works, Holds, GoesOn, Pins, Faults, Victim, Mapped, IdlePCs, LoadPCs, EvictPCs, HandPCs, WaitPCs, SamePages, SameFrames
<1>8. Range(ordered_list') = Range(ordered_list) /\ IsInjective(ordered_list')
  BY DEF FrameInv
<1>. QED BY <1>3, <1>4, <1>5, <1>6, <1>7, <1>8, MoveKeeps

\* The arguments of the call are not in the page of its buffer.
LEMMA ArgumentKeeps ==
  ASSUME IInv, NEW t \in Procs,
         At(t, "argument"),
         Goto(t, "transfer"),
         UNCHANGED <<frame_vars, entries, pg, disk_vars, mmap_lock, end_vars, ops>>
  PROVE  IInv'
<1>. USE FramesAssumption, Types DEF IInv, vars, frame_vars, disk_vars, end_vars, At
<1>1. /\ th \in [Procs -> ThreadRec] /\ pg \in [Pages -> PageRec] /\ fr \in [Frames -> FrameRec]
      /\ ordered_list \in Seq(Frames)
      /\ Works(t) /\ Holds(t) /\ GoesOn(t) /\ Pins(t) /\ Faults(t)
  BY DEF TypeOK, Threads
<1>2. th[t].page \in Pages /\ th[t].page \in entries /\ OwnerOf[th[t].page] = t
  BY <1>1 DEF Works, IdlePCs, TypeOK
<1>3. /\ th' \in [Procs -> ThreadRec]
      /\ \A u \in Procs \ {t} : th'[u] = th[u]
      /\ th'[t].pc = "transfer" /\ th'[t].page = th[t].page
      /\ th'[t].frame = th[t].frame /\ th'[t].then = th[t].then
  <2>1. "transfer" \in Where
    BY DEF Where
  <2>. QED BY <1>1, <1>2, <2>1, GotoStep
<1>4. SameRole(t)
  BY <1>3 DEF SameRole
<1>5. SamePages /\ SameFrames
  BY DEF SamePages, SameFrames
<1>6. TypeOK'
  BY <1>1, <1>2, <1>3, <1>5 DEF TypeOK
<1>7. (Works(t) /\ Holds(t) /\ GoesOn(t) /\ Pins(t) /\ Faults(t))'
  BY <1>1, <1>2, <1>3, <1>5 DEF Works, Holds, GoesOn, Pins, Faults, Victim, Mapped, IdlePCs, LoadPCs, EvictPCs, HandPCs, WaitPCs, SamePages, SameFrames
<1>8. Range(ordered_list') = Range(ordered_list) /\ IsInjective(ordered_list')
  BY DEF FrameInv
<1>. QED BY <1>3, <1>4, <1>5, <1>6, <1>7, <1>8, MoveKeeps

\* mmap_discard takes the dirty bits of a page and its frame back.
ResetDirty(p) ==
  /\ pg' = [pg EXCEPT ![p].dirty = FALSE]
  /\ fr' = IF Mapped(p) THEN [fr EXCEPT ![pg[p].kpage].kdirty = FALSE] ELSE fr

LEMMA ResetTyped ==
  ASSUME TypeOK, NEW p \in Pages, ResetDirty(p)
  PROVE  /\ pg' \in [Pages -> PageRec] /\ SamePages
         /\ fr' \in [Frames -> FrameRec] /\ SameFrames
<1>1. pg' \in [Pages -> PageRec] /\ SamePages
  BY DirtyTyped DEF ResetDirty
<1>2. fr' \in [Frames -> FrameRec] /\ SameFrames
  <2>1. CASE Mapped(p)
    <3>1. pg[p].kpage \in Frames BY <2>1, Types DEF Mapped
    <3>. QED BY <2>1, <3>1, KDirtyTyped DEF ResetDirty
  <2>2. CASE ~ Mapped(p)
    BY <2>2 DEF ResetDirty, TypeOK, SameFrames
  <2>. QED BY <2>1, <2>2
<1>. QED BY <1>1, <1>2

\* mmap_discard resets the dirty bits.
LEMMA DiscardDirtyKeeps ==
  ASSUME IInv, NEW t \in Procs,
         At(t, "discard"),
         th[t].page \in Sync,
         ResetDirty(th[t].page),
         GotoWith(t, "prohibit", th[t].page, "writeback"),
         UNCHANGED <<ordered_list, list_lock, pool, entries, disk_vars, mmap_lock, end_vars, ops>>
  PROVE  IInv'
<1>. USE FramesAssumption, Types DEF IInv, vars, frame_vars, disk_vars, end_vars, At
<1>1. /\ th \in [Procs -> ThreadRec] /\ pg \in [Pages -> PageRec] /\ fr \in [Frames -> FrameRec]
      /\ ordered_list \in Seq(Frames)
      /\ Works(t) /\ Holds(t) /\ GoesOn(t) /\ Pins(t) /\ Faults(t)
  BY DEF TypeOK, Threads
<1>2. th[t].page \in Pages /\ th[t].page \in entries /\ OwnerOf[th[t].page] = t
  BY <1>1 DEF Works, IdlePCs, TypeOK
<1>3. /\ pg' \in [Pages -> PageRec] /\ SamePages
      /\ fr' \in [Frames -> FrameRec] /\ SameFrames
  BY <1>2, ResetTyped
<1>4. /\ th' \in [Procs -> ThreadRec]
      /\ \A u \in Procs \ {t} : th'[u] = th[u]
      /\ th'[t].pc = "prohibit" /\ th'[t].page = th[t].page
      /\ th'[t].frame = th[t].frame /\ th'[t].then = "writeback"
  <2>1. "prohibit" \in Where /\ "writeback" \in Where
    BY DEF Where
  <2>. QED BY <1>1, <1>2, <1>3, <2>1, GotoWithStep
<1>5. SameRole(t)
  BY <1>4 DEF SameRole
<1>6. SamePages /\ SameFrames
  BY <1>3
<1>7. TypeOK'
  BY <1>1, <1>2, <1>3, <1>4, <1>6 DEF TypeOK
<1>8. (Works(t) /\ Holds(t) /\ GoesOn(t) /\ Pins(t) /\ Faults(t))'
  BY <1>1, <1>2, <1>3, <1>4, <1>6 DEF Works, Holds, GoesOn, Pins, Faults, Victim, Mapped, IdlePCs, LoadPCs, EvictPCs, HandPCs, WaitPCs, SamePages, SameFrames
<1>9. Range(ordered_list') = Range(ordered_list) /\ IsInjective(ordered_list')
  BY DEF FrameInv
<1>. QED BY <1>4, <1>5, <1>6, <1>7, <1>8, <1>9, MoveKeeps

\* mmap_discard finds a clean page.
LEMMA DiscardCleanKeeps ==
  ASSUME IInv, NEW t \in Procs,
         At(t, "discard"),
         Goto(t, "destroy"),
         UNCHANGED <<frame_vars, entries, pg, disk_vars, mmap_lock, end_vars, ops>>
  PROVE  IInv'
<1>. USE FramesAssumption, Types DEF IInv, vars, frame_vars, disk_vars, end_vars, At
<1>1. /\ th \in [Procs -> ThreadRec] /\ pg \in [Pages -> PageRec] /\ fr \in [Frames -> FrameRec]
      /\ ordered_list \in Seq(Frames)
      /\ Works(t) /\ Holds(t) /\ GoesOn(t) /\ Pins(t) /\ Faults(t)
  BY DEF TypeOK, Threads
<1>2. th[t].page \in Pages /\ th[t].page \in entries /\ OwnerOf[th[t].page] = t
  BY <1>1 DEF Works, IdlePCs, TypeOK
<1>3. /\ th' \in [Procs -> ThreadRec]
      /\ \A u \in Procs \ {t} : th'[u] = th[u]
      /\ th'[t].pc = "destroy" /\ th'[t].page = th[t].page /\ th'[t].frame = th[t].frame
      /\ th'[t].then = th[t].then
  <2>1. "destroy" \in Where
    BY DEF Where
  <2>. QED BY <1>1, <1>2, <2>1, GotoStep
<1>4. SameRole(t)
  BY <1>3 DEF SameRole
<1>5. SamePages /\ SameFrames
  BY DEF SamePages, SameFrames
<1>6. TypeOK'
  BY <1>1, <1>2, <1>3, <1>5 DEF TypeOK
<1>7. (Works(t) /\ Holds(t) /\ GoesOn(t) /\ Pins(t) /\ Faults(t))'
  BY <1>1, <1>2, <1>3, <1>5 DEF Works, Holds, GoesOn, Pins, Faults, Victim, Mapped, IdlePCs, LoadPCs, EvictPCs, HandPCs, WaitPCs, SamePages, SameFrames
<1>8. Range(ordered_list') = Range(ordered_list) /\ IsInjective(ordered_list')
  BY DEF FrameInv
<1>. QED BY <1>3, <1>4, <1>5, <1>6, <1>7, <1>8, MoveKeeps

\* mmap_discard writes the page to its file.
LEMMA WriteBackKeeps ==
  ASSUME IInv, NEW t \in Procs,
         WriteBack(t)
  PROVE  IInv'
<1>. USE FramesAssumption, Types DEF IInv, vars, frame_vars, disk_vars, end_vars, At, WriteBack
<1>1. /\ th \in [Procs -> ThreadRec] /\ pg \in [Pages -> PageRec] /\ fr \in [Frames -> FrameRec]
      /\ ordered_list \in Seq(Frames)
      /\ Works(t) /\ Holds(t) /\ GoesOn(t) /\ Pins(t) /\ Faults(t)
  BY DEF TypeOK, Threads
<1>2. th[t].page \in Pages /\ th[t].page \in entries /\ OwnerOf[th[t].page] = t
  BY <1>1 DEF Works, IdlePCs, TypeOK
<1>3. pg' \in [Pages -> PageRec] /\ SamePages
  BY <1>2, AccessedTyped
<1>4. file' \in [Pages -> Values]
  BY <1>1, <1>2 DEF TypeOK, Mapped, FrameRec
<1>5. /\ th' \in [Procs -> ThreadRec]
      /\ \A u \in Procs \ {t} : th'[u] = th[u]
      /\ th'[t].pc = "permit" /\ th'[t].page = th[t].page /\ th'[t].frame = th[t].frame
      /\ th'[t].then = "destroy"
  <2>1. "permit" \in Where /\ "destroy" \in Where
    BY DEF Where
  <2>. QED BY <1>1, <1>2, <1>3, <1>4, <2>1, GotoWithStep
<1>6. SameRole(t)
  BY <1>5 DEF SameRole
<1>7. SamePages /\ SameFrames
  BY <1>3 DEF SameFrames
<1>8. TypeOK'
  BY <1>1, <1>2, <1>3, <1>4, <1>5, <1>7 DEF TypeOK
<1>9. (Works(t) /\ Holds(t) /\ GoesOn(t) /\ Pins(t) /\ Faults(t))'
  BY <1>1, <1>2, <1>3, <1>4, <1>5, <1>7 DEF Works, Holds, GoesOn, Pins, Faults, Victim, Mapped, IdlePCs, LoadPCs, EvictPCs, HandPCs, WaitPCs, SamePages, SameFrames
<1>10. Range(ordered_list') = Range(ordered_list) /\ IsInjective(ordered_list')
  BY DEF FrameInv
<1>. QED BY <1>5, <1>6, <1>7, <1>8, <1>9, <1>10, MoveKeeps

\* process_exit goes on to the next page.
LEMMA ExitDestroyKeeps ==
  ASSUME IInv, NEW t \in Procs,
         NEW p \in Pages,
         At(t, "exit"), Owns(t, p),
         GotoWith(t, "destroy", p, "user"),
         UNCHANGED <<frame_vars, entries, pg, disk_vars, mmap_lock, end_vars, ops>>
  PROVE  IInv'
<1>. USE FramesAssumption, Types DEF IInv, vars, frame_vars, disk_vars, end_vars, At, Owns
<1>1. /\ th \in [Procs -> ThreadRec] /\ pg \in [Pages -> PageRec] /\ fr \in [Frames -> FrameRec]
      /\ ordered_list \in Seq(Frames)
      /\ Works(t) /\ Holds(t) /\ GoesOn(t) /\ Pins(t) /\ Faults(t)
  BY DEF TypeOK, Threads
<1>2. /\ th' \in [Procs -> ThreadRec]
      /\ \A u \in Procs \ {t} : th'[u] = th[u]
      /\ th'[t].pc = "destroy" /\ th'[t].page = p /\ th'[t].frame = th[t].frame
      /\ th'[t].then = "user"
  <2>1. "destroy" \in Where /\ "user" \in Where
    BY DEF Where
  <2>. QED BY <1>1, <2>1, GotoWithStep
<1>3. SameRole(t)
  BY <1>2 DEF SameRole
<1>4. SamePages /\ SameFrames
  BY DEF SamePages, SameFrames
<1>5. TypeOK'
  BY <1>1, <1>2, <1>4 DEF TypeOK
<1>6. (Works(t) /\ Holds(t) /\ GoesOn(t) /\ Pins(t) /\ Faults(t))'
  BY <1>1, <1>2, <1>4 DEF Works, Holds, GoesOn, Pins, Faults, Victim, Mapped, IdlePCs, LoadPCs, EvictPCs, HandPCs, WaitPCs, SamePages, SameFrames
<1>7. Range(ordered_list') = Range(ordered_list) /\ IsInjective(ordered_list')
  BY DEF FrameInv
<1>. QED BY <1>2, <1>3, <1>4, <1>5, <1>6, <1>7, MoveKeeps

\* process_exit ends.
LEMMA DeadKeeps ==
  ASSUME IInv, NEW t \in Procs,
         At(t, "exit"),
         Goto(t, "dead"),
         UNCHANGED <<frame_vars, entries, pg, disk_vars, mmap_lock, end_vars, ops>>
  PROVE  IInv'
<1>. USE FramesAssumption, Types DEF IInv, vars, frame_vars, disk_vars, end_vars, At
<1>1. /\ th \in [Procs -> ThreadRec] /\ pg \in [Pages -> PageRec] /\ fr \in [Frames -> FrameRec]
      /\ ordered_list \in Seq(Frames)
      /\ Works(t) /\ Holds(t) /\ GoesOn(t) /\ Pins(t) /\ Faults(t)
  BY DEF TypeOK, Threads
<1>2. /\ th' \in [Procs -> ThreadRec]
      /\ \A u \in Procs \ {t} : th'[u] = th[u]
      /\ th'[t].pc = "dead" /\ th'[t].page = th[t].page /\ th'[t].frame = th[t].frame
      /\ th'[t].then = th[t].then
  <2>1. "dead" \in Where
    BY DEF Where
  <2>. QED BY <1>1, <2>1, GotoStep
<1>3. SameRole(t)
  BY <1>2 DEF SameRole
<1>4. SamePages /\ SameFrames
  BY DEF SamePages, SameFrames
<1>5. TypeOK'
  BY <1>1, <1>2, <1>4 DEF TypeOK
<1>6. (Works(t) /\ Holds(t) /\ GoesOn(t) /\ Pins(t) /\ Faults(t))'
  BY <1>1, <1>2, <1>4 DEF Works, Holds, GoesOn, Pins, Faults, Victim, Mapped, IdlePCs, LoadPCs, EvictPCs, HandPCs, WaitPCs, SamePages, SameFrames
<1>7. Range(ordered_list') = Range(ordered_list) /\ IsInjective(ordered_list')
  BY DEF FrameInv
<1>. QED BY <1>2, <1>3, <1>4, <1>5, <1>6, <1>7, MoveKeeps

\* The slots of the pages stay what they are.
LEMMA SlotsKept ==
  ASSUME SlotsAccounted, used' = used, \A q \in Pages : pg'[q].sector_t = pg[q].sector_t
  PROVE  SlotsAccounted'
BY DEF SlotsAccounted

\* Whoever has the frame of a page in its hands holds the lock of that page.
LEMMA HolderLocks ==
  ASSUME IInv, NEW f \in Frames, fr[f].user \in Pages, NEW u \in Procs, th[u].frame = f
  PROVE  pg[fr[f].user].lock = u
<1>. USE FramesAssumption, Types DEF IInv
<1>1. Works(u) /\ Holds(u) /\ th[u].pc \in HandPCs /\ Victim(u) = fr[f].user
  BY DEF Threads, Works, Victim
<1>2. CASE th[u].pc \in EvictPCs BY <1>1, <1>2 DEF Works
<1>3. CASE th[u].pc = "init" BY <1>1, <1>3 DEF Holds
<1>4. CASE th[u].pc = "map" BY <1>1, <1>4 DEF Holds, Works, LoadPCs
<1>5. CASE th[u].pc \in {"fill", "done"}
  <2>1. th[u].page \in Pages /\ pg[th[u].page].kpage = f /\ pg[th[u].page].lock = u
    BY <1>1, <1>5 DEF Works, Holds, IdlePCs, TypeOK
  <2>. QED BY <2>1 DEF FrameInv, Mapped
<1>. QED BY <1>1, <1>2, <1>3, <1>4, <1>5 DEF HandPCs

\* A frame whose owner a step leaves alone.
LEMMA OwnedKept ==
  ASSUME NEW g \in Frames, Owned(g), fr'[g].user = fr[g].user, g \in pool' <=> g \in pool,
         g \in Range(ordered_list') <=> g \in Range(ordered_list),
         fr[g].user # NoPage /\ pg[fr[g].user].kpage = g => pg'[fr[g].user].kpage = g,
         \A u \in Procs : /\ th'[u].frame = g => th[u].frame = g \/ g \notin pool
                          /\ th[u].frame = g /\ th[u].pc \in {"init", "map", "unlist"} =>
                               th'[u].frame = g /\ th'[u].pc = th[u].pc
  PROVE  Owned(g)'
BY DEF Owned

\* A frame that is given back to the pool.
LEMMA FreedOwned ==
  ASSUME NEW f \in Frames, f \in pool', f \notin Range(ordered_list'), fr'[f].user = NoPage,
         \A u \in Procs : th'[u].frame # f
  PROVE  Owned(f)'
BY DEF Owned

\* A step that changes neither where the pages are mapped nor whose the frames are, ...
LEMMA MapKept ==
  ASSUME TypeOK, FrameInv, \A q \in Pages : pg'[q].kpage = pg[q].kpage,
         \A g \in Frames : fr'[g].user = fr[g].user, NEW q \in Pages, Mapped(q)'
  PROVE  fr'[pg'[q].kpage].user = q
<1>1. Mapped(q) /\ pg[q].kpage \in Frames
  BY Types DEF Mapped
<1>2. fr[pg[q].kpage].user = q
  BY <1>1 DEF FrameInv
<1>. QED BY <1>1, <1>2

\* ... nor what a page needs while it is moved.
LEMMA PagesOKKept ==
  ASSUME PagesOK, entries' = entries,
         \A q \in Pages : /\ pg'[q].kpage = pg[q].kpage /\ pg'[q].user_ok = pg[q].user_ok
                          /\ pg'[q].sector_t \in {pg[q].sector_t, NoSlot},
         \A q \in Pages : Leaving(q) => Leaving(q)',
         \A q \in Pages : Moving(q) /\ pg'[q].sector_t # NoSlot => Moving(q)'
  PROVE  PagesOK'
<1>1. ASSUME NEW q \in Pages, Mapped(q)', ~ pg'[q].user_ok PROVE Leaving(q)'
  BY <1>1 DEF PagesOK, Mapped
<1>2. ASSUME NEW q \in Pages, Mapped(q)', pg'[q].sector_t # NoSlot PROVE Moving(q)'
  BY <1>2 DEF PagesOK, Mapped
<1>3. ASSUME NEW q \in Pages, q \notin entries'
      PROVE  ~ Mapped(q)' /\ pg'[q].sector_t = NoSlot
  BY <1>3 DEF PagesOK, Mapped
<1>. QED BY <1>1, <1>2, <1>3 DEF PagesOK

\* A page that has no slot gets one that is free, ...
LEMMA SlotTaken ==
  ASSUME SlotsAccounted, NEW p \in Pages, pg[p].sector_t = NoSlot,
         NEW z \in Slots \ used, NoSlot \notin Slots, used' = used \cup {z},
         \A q \in Pages \ {p} : pg'[q].sector_t = pg[q].sector_t, pg'[p].sector_t = z
  PROVE  SlotsAccounted'
BY DEF SlotsAccounted

\* ... and gives it back.
LEMMA SlotGiven ==
  ASSUME SlotsAccounted, NEW p \in Pages, used' = used \ {pg[p].sector_t},
         \A q \in Pages \ {p} : pg'[q].sector_t = pg[q].sector_t, pg'[p].sector_t = NoSlot
  PROVE  SlotsAccounted'
BY DEF SlotsAccounted

\* What the updates of a page do.
LEMMA CreatePages ==
  ASSUME TypeOK, NEW p \in Pages, pg' = [pg EXCEPT ![p].prohibit = FALSE, ![p].sector_t = NoSlot]
  PROVE  /\ pg' \in [Pages -> PageRec]
         /\ \A q \in Pages \ {p} : pg'[q] = pg[q]
         /\ pg'[p].lock = pg[p].lock /\ pg'[p].prohibit = FALSE /\ pg'[p].sector_t = NoSlot
         /\ pg'[p].kpage = pg[p].kpage /\ pg'[p].user_ok = pg[p].user_ok
<1>1. pg \in [Pages -> PageRec] BY DEF TypeOK
<1>. QED BY <1>1, ZenonT(60) DEF PageRec

LockPage(p, l) == pg' = [pg EXCEPT ![p].lock = l]
LEMMA LockPages ==
  ASSUME TypeOK, NEW p \in Pages, NEW l \in Procs \cup {Nobody}, LockPage(p, l)
  PROVE  /\ pg' \in [Pages -> PageRec]
         /\ \A q \in Pages \ {p} : pg'[q] = pg[q]
         /\ pg'[p].lock = l /\ pg'[p].prohibit = pg[p].prohibit
         /\ pg'[p].sector_t = pg[p].sector_t /\ pg'[p].kpage = pg[p].kpage
         /\ pg'[p].user_ok = pg[p].user_ok
<1>1. pg \in [Pages -> PageRec] BY DEF TypeOK
<1>. QED BY <1>1, ZenonT(60) DEF PageRec, LockPage

\* A page of the stack is created.
LEMMA GrowStackKeeps ==
  ASSUME IInv, NEW t \in Procs,
         NEW p \in Pages,
         At(t, "user"),
         Create(t, p),
         GotoWith(t, "lock", p, "user"),
         ops' \in 0 .. MaxOps
  PROVE  IInv'
<1>. USE FramesAssumption, Types DEF IInv, vars, frame_vars, disk_vars, end_vars, At, Create
<1>1. /\ th \in [Procs -> ThreadRec] /\ pg \in [Pages -> PageRec] /\ fr \in [Frames -> FrameRec]
      /\ ordered_list \in Seq(Frames)
      /\ Works(t) /\ Holds(t) /\ GoesOn(t) /\ Pins(t) /\ Faults(t)
  BY DEF TypeOK, Threads
<1>2. pg[p].sector_t = NoSlot /\ pg[p].kpage = NoFrame
  BY DEF PagesOK, Mapped
<1>3. /\ pg' \in [Pages -> PageRec]
      /\ \A q \in Pages \ {p} : pg'[q] = pg[q]
      /\ pg'[p].lock = pg[p].lock /\ pg'[p].prohibit = FALSE /\ pg'[p].sector_t = NoSlot
      /\ pg'[p].kpage = pg[p].kpage /\ pg'[p].user_ok = pg[p].user_ok
  BY <1>1, <1>2, CreatePages
<1>4. /\ th' \in [Procs -> ThreadRec]
      /\ \A u \in Procs \ {t} : th'[u] = th[u]
      /\ th'[t].pc = "lock" /\ th'[t].page = p /\ th'[t].frame = th[t].frame
      /\ th'[t].then = "user"
  <2>1. "lock" \in Where /\ "user" \in Where
    BY DEF Where
  <2>. QED BY <1>1, <1>2, <1>3, <2>1, GotoWithStep
<1>5. TypeOK'
  BY <1>1, <1>2, <1>3, <1>4 DEF TypeOK
<1>6. \A q \in Pages : Leaving(q) => Leaving(q)'
  <2>. SUFFICES ASSUME NEW q \in Pages, Leaving(q) PROVE Leaving(q)'
    OBVIOUS
  <2>1. PICK u \in Procs : th[u].pc \in {"save", "clear"} /\ Victim(u) = q
    BY DEF Leaving
  <2>2. th[u].frame \in Frames
    BY <2>1 DEF Threads, Works, HandPCs, EvictPCs
  <2>3. /\ th'[u].pc \in {"save", "clear"} /\ th'[u].frame = th[u].frame
        /\ fr'[th[u].frame].user = fr[th[u].frame].user
    BY <1>4, <2>1, <2>2
  <2>. QED BY <2>1, <2>3 DEF Leaving, Victim
<1>7. \A q \in Pages : Moving(q) => Moving(q)'
  <2>. SUFFICES ASSUME NEW q \in Pages, Moving(q) PROVE Moving(q)'
    OBVIOUS
  <2>1. PICK u \in Procs : \/ th[u].pc \in {"fill", "done"} /\ th[u].page = q
                           \/ th[u].pc = "clear" /\ Victim(u) = q
    BY DEF Moving
  <2>2. CASE th[u].pc \in {"fill", "done"} /\ th[u].page = q
    <3>1. th'[u].pc \in {"fill", "done"} /\ th'[u].page = q
      BY <1>4, <2>2
    <3>. QED BY <3>1 DEF Moving
  <2>3. CASE th[u].pc = "clear" /\ Victim(u) = q
    <3>1. th[u].frame \in Frames
      BY <2>3 DEF Threads, Works, HandPCs, EvictPCs
    <3>2. /\ th'[u].pc = "clear" /\ th'[u].frame = th[u].frame
          /\ fr'[th[u].frame].user = fr[th[u].frame].user
      BY <1>4, <2>3, <3>1
    <3>. QED BY <2>3, <3>2 DEF Moving, Victim
  <2>. QED BY <2>1, <2>2, <2>3
<1>8. FrameInv'
  <2>1. ASSUME NEW g \in Frames PROVE Owned(g)'
    <3>1. Owned(g) BY DEF FrameInv
    <3>2. \A q \in Pages : pg'[q].kpage = pg[q].kpage BY <1>3
    <3>3. \A u \in Procs :
            /\ th'[u].frame = th[u].frame
            /\ th[u].pc \in {"init", "map", "unlist"} => th'[u].pc = th[u].pc
      BY <1>1, <1>4
    <3>. QED BY <3>1, <3>2, <3>3, OwnedKept
  <2>2. IsInjective(ordered_list')
    BY DEF FrameInv
  <2>3. ASSUME NEW q \in Pages, Mapped(q)' PROVE fr'[pg'[q].kpage].user = q
    <3>1. \A r \in Pages : pg'[r].kpage = pg[r].kpage BY <1>3, <1>1, <1>2, <1>3
    <3>2. \A g \in Frames : fr'[g].user = fr[g].user OBVIOUS
    <3>. QED BY <2>3, <3>1, <3>2, MapKept
  <2>. QED BY <2>1, <2>2, <2>3 DEF FrameInv
<1>9. SlotsAccounted'
  <2>1. \A q \in Pages : pg'[q].sector_t = pg[q].sector_t BY <1>1, <1>2, <1>3, <1>3
  <2>. QED BY <2>1, SlotsKept
<1>10. (Works(t) /\ Holds(t) /\ GoesOn(t) /\ Pins(t) /\ Faults(t))'
  BY <1>1, <1>2, <1>3, <1>4, <1>6, <1>7 DEF Works, Holds, GoesOn, Pins, Faults, Victim, Mapped, IdlePCs, LoadPCs, EvictPCs, HandPCs, WaitPCs
<1>11. ASSUME NEW u \in Procs \ {t} PROVE LockKept(u) /\ PagesKept(u) /\ HandKept(u)
  <2>1. LockKept(u)
    BY <1>1, <1>2, <1>3 DEF LockKept
  <2>2. PagesKept(u)
    BY <1>1, <1>2, <1>3, <1>4, <1>6, <1>7 DEF PagesKept
  <2>3. HandKept(u)
    BY DEF HandKept
  <2>. QED BY <2>1, <2>2, <2>3
<1>12. PagesOK'
  BY <1>1, <1>2, <1>3, <1>4, <1>6, <1>7 DEF PagesOK, Mapped
<1>13. th'[t].frame \in {th[t].frame, NoFrame} \/ \A u \in Procs : th[u].frame # th'[t].frame
  BY <1>1, <1>2, <1>3, <1>4
<1>. QED BY <1>4, <1>5, <1>8, <1>9, <1>10, <1>11, <1>12, <1>13, StepKeeps

\* The lock of a page is taken.
LEMMA LockKeeps ==
  ASSUME IInv, NEW t \in Procs,
         th[t].pc \in {"lock", "plock"},
         NEW p \in Pages, p = th[t].page,
         Free(p),
         ~ Mapped(p),
         LockPage(p, t),
         Goto(t, "alloc"),
         UNCHANGED <<frame_vars, entries, disk_vars, mmap_lock, end_vars, ops>>
  PROVE  IInv'
<1>. USE FramesAssumption, Types DEF IInv, vars, frame_vars, disk_vars, end_vars, At, Free, Mapped
<1>1. /\ th \in [Procs -> ThreadRec] /\ pg \in [Pages -> PageRec] /\ fr \in [Frames -> FrameRec]
      /\ ordered_list \in Seq(Frames)
      /\ Works(t) /\ Holds(t) /\ GoesOn(t) /\ Pins(t) /\ Faults(t)
  BY DEF TypeOK, Threads
<1>2. th[t].page \in Pages /\ th[t].page \in entries /\ OwnerOf[th[t].page] = t
  BY <1>1 DEF Works, IdlePCs, TypeOK
<1>3. /\ pg' \in [Pages -> PageRec]
      /\ \A q \in Pages \ {p} : pg'[q] = pg[q]
      /\ pg'[p].lock = t /\ pg'[p].prohibit = pg[p].prohibit
      /\ pg'[p].sector_t = pg[p].sector_t /\ pg'[p].kpage = pg[p].kpage
      /\ pg'[p].user_ok = pg[p].user_ok
  BY <1>2, LockPages
<1>4. /\ th' \in [Procs -> ThreadRec]
      /\ \A u \in Procs \ {t} : th'[u] = th[u]
      /\ th'[t].pc = "alloc" /\ th'[t].page = th[t].page /\ th'[t].frame = th[t].frame
      /\ th'[t].then = th[t].then
  <2>1. "alloc" \in Where
    BY DEF Where
  <2>. QED BY <1>1, <1>2, <1>3, <2>1, GotoStep
<1>5. TypeOK'
  BY <1>1, <1>2, <1>3, <1>4 DEF TypeOK
<1>6. \A q \in Pages : Leaving(q) => Leaving(q)'
  <2>. SUFFICES ASSUME NEW q \in Pages, Leaving(q) PROVE Leaving(q)'
    OBVIOUS
  <2>1. PICK u \in Procs : th[u].pc \in {"save", "clear"} /\ Victim(u) = q
    BY DEF Leaving
  <2>2. th[u].frame \in Frames
    BY <2>1 DEF Threads, Works, HandPCs, EvictPCs
  <2>3. /\ th'[u].pc \in {"save", "clear"} /\ th'[u].frame = th[u].frame
        /\ fr'[th[u].frame].user = fr[th[u].frame].user
    BY <1>4, <2>1, <2>2
  <2>. QED BY <2>1, <2>3 DEF Leaving, Victim
<1>7. \A q \in Pages : Moving(q) => Moving(q)'
  <2>. SUFFICES ASSUME NEW q \in Pages, Moving(q) PROVE Moving(q)'
    OBVIOUS
  <2>1. PICK u \in Procs : \/ th[u].pc \in {"fill", "done"} /\ th[u].page = q
                           \/ th[u].pc = "clear" /\ Victim(u) = q
    BY DEF Moving
  <2>2. CASE th[u].pc \in {"fill", "done"} /\ th[u].page = q
    <3>1. th'[u].pc \in {"fill", "done"} /\ th'[u].page = q
      BY <1>4, <2>2
    <3>. QED BY <3>1 DEF Moving
  <2>3. CASE th[u].pc = "clear" /\ Victim(u) = q
    <3>1. th[u].frame \in Frames
      BY <2>3 DEF Threads, Works, HandPCs, EvictPCs
    <3>2. /\ th'[u].pc = "clear" /\ th'[u].frame = th[u].frame
          /\ fr'[th[u].frame].user = fr[th[u].frame].user
      BY <1>4, <2>3, <3>1
    <3>. QED BY <2>3, <3>2 DEF Moving, Victim
  <2>. QED BY <2>1, <2>2, <2>3
<1>8. FrameInv'
  <2>1. ASSUME NEW g \in Frames PROVE Owned(g)'
    <3>1. Owned(g) BY DEF FrameInv
    <3>2. \A q \in Pages : pg'[q].kpage = pg[q].kpage BY <1>3
    <3>3. \A u \in Procs :
            /\ th'[u].frame = th[u].frame
            /\ th[u].pc \in {"init", "map", "unlist"} => th'[u].pc = th[u].pc
      BY <1>1, <1>4
    <3>. QED BY <3>1, <3>2, <3>3, OwnedKept
  <2>2. IsInjective(ordered_list')
    BY DEF FrameInv
  <2>3. ASSUME NEW q \in Pages, Mapped(q)' PROVE fr'[pg'[q].kpage].user = q
    <3>1. \A r \in Pages : pg'[r].kpage = pg[r].kpage BY <1>3, <1>1, <1>2, <1>3
    <3>2. \A g \in Frames : fr'[g].user = fr[g].user OBVIOUS
    <3>. QED BY <2>3, <3>1, <3>2, MapKept
  <2>. QED BY <2>1, <2>2, <2>3 DEF FrameInv
<1>9. SlotsAccounted'
  <2>1. \A q \in Pages : pg'[q].sector_t = pg[q].sector_t BY <1>1, <1>2, <1>3, <1>3
  <2>. QED BY <2>1, SlotsKept
<1>10. (Works(t) /\ Holds(t) /\ GoesOn(t) /\ Pins(t) /\ Faults(t))'
  BY <1>1, <1>2, <1>3, <1>4, <1>6, <1>7 DEF Works, Holds, GoesOn, Pins, Faults, Victim, Mapped, IdlePCs, LoadPCs, EvictPCs, HandPCs, WaitPCs
<1>11. ASSUME NEW u \in Procs \ {t} PROVE LockKept(u) /\ PagesKept(u) /\ HandKept(u)
  <2>1. LockKept(u)
    BY <1>1, <1>2, <1>3 DEF LockKept
  <2>2. PagesKept(u)
    BY <1>1, <1>2, <1>3, <1>6 DEF PagesKept
  <2>3. HandKept(u)
    BY DEF HandKept
  <2>. QED BY <2>1, <2>2, <2>3
<1>12. PagesOK'
  BY <1>1, <1>2, <1>3, <1>4, <1>6, <1>7 DEF PagesOK, Mapped
<1>13. th'[t].frame \in {th[t].frame, NoFrame} \/ \A u \in Procs : th[u].frame # th'[t].frame
  BY <1>1, <1>2, <1>3, <1>4
<1>. QED BY <1>4, <1>5, <1>8, <1>9, <1>10, <1>11, <1>12, <1>13, StepKeeps

\* palloc gives a free frame.
LEMMA TakeKeeps ==
  ASSUME IInv, NEW t \in Procs,
         At(t, "alloc"),
         pool # {},
         pool' = pool \ {Min(pool)},
         fr' = [fr EXCEPT ![Min(pool)].data = Zero],
         GotoFrame(t, "init", Min(pool)),
         UNCHANGED <<ordered_list, list_lock, entries, pg, disk_vars, mmap_lock, end_vars, ops>>
  PROVE  IInv'
<1>. USE FramesAssumption, Types DEF IInv, vars, frame_vars, disk_vars, end_vars, At
<1>1. /\ th \in [Procs -> ThreadRec] /\ pg \in [Pages -> PageRec] /\ fr \in [Frames -> FrameRec]
      /\ ordered_list \in Seq(Frames)
      /\ Works(t) /\ Holds(t) /\ GoesOn(t) /\ Pins(t) /\ Faults(t)
  BY DEF TypeOK, Threads
<1>2. th[t].page \in Pages /\ th[t].page \in entries /\ OwnerOf[th[t].page] = t
  BY <1>1 DEF Works, IdlePCs, TypeOK
<1>3. /\ Min(pool) \in pool /\ Min(pool) \in Frames /\ fr[Min(pool)].user = NoPage
      /\ \A u \in Procs : th[u].frame # Min(pool)
  BY Types, LeastElement DEF TypeOK, FrameInv, Owned
<1>4. fr' \in [Frames -> FrameRec] /\ SameFrames
  BY <1>3, DataTyped
<1>5. \A g \in Frames : fr'[g].user = fr[g].user /\ fr'[g].prohibit_cache = fr[g].prohibit_cache
  BY <1>4 DEF SameFrames
<1>6. /\ th' \in [Procs -> ThreadRec]
      /\ \A u \in Procs \ {t} : th'[u] = th[u]
      /\ th'[t].pc = "init" /\ th'[t].page = th[t].page /\ th'[t].frame = Min(pool)
      /\ th'[t].then = th[t].then
  <2>1. "init" \in Where
    BY <1>3 DEF Where
  <2>. QED BY <1>1, <1>2, <1>3, <1>4, <1>5, <2>1, GotoFrameStep
<1>7. TypeOK'
  BY <1>1, <1>2, <1>3, <1>4, <1>5, <1>6 DEF TypeOK
<1>8. \A q \in Pages : Leaving(q) => Leaving(q)'
  <2>. SUFFICES ASSUME NEW q \in Pages, Leaving(q) PROVE Leaving(q)'
    OBVIOUS
  <2>1. PICK u \in Procs : th[u].pc \in {"save", "clear"} /\ Victim(u) = q
    BY DEF Leaving
  <2>2. th[u].frame \in Frames
    BY <2>1 DEF Threads, Works, HandPCs, EvictPCs
  <2>3. /\ th'[u].pc \in {"save", "clear"} /\ th'[u].frame = th[u].frame
        /\ fr'[th[u].frame].user = fr[th[u].frame].user
    BY <1>5, <1>6, <2>1, <2>2
  <2>. QED BY <2>1, <2>3 DEF Leaving, Victim
<1>9. \A q \in Pages : Moving(q) => Moving(q)'
  <2>. SUFFICES ASSUME NEW q \in Pages, Moving(q) PROVE Moving(q)'
    OBVIOUS
  <2>1. PICK u \in Procs : \/ th[u].pc \in {"fill", "done"} /\ th[u].page = q
                           \/ th[u].pc = "clear" /\ Victim(u) = q
    BY DEF Moving
  <2>2. CASE th[u].pc \in {"fill", "done"} /\ th[u].page = q
    <3>1. th'[u].pc \in {"fill", "done"} /\ th'[u].page = q
      BY <1>5, <1>6, <2>2
    <3>. QED BY <3>1 DEF Moving
  <2>3. CASE th[u].pc = "clear" /\ Victim(u) = q
    <3>1. th[u].frame \in Frames
      BY <2>3 DEF Threads, Works, HandPCs, EvictPCs
    <3>2. /\ th'[u].pc = "clear" /\ th'[u].frame = th[u].frame
          /\ fr'[th[u].frame].user = fr[th[u].frame].user
      BY <1>5, <1>6, <2>3, <3>1
    <3>. QED BY <2>3, <3>2 DEF Moving, Victim
  <2>. QED BY <2>1, <2>2, <2>3
<1>10. FrameInv'
  <2>1. ASSUME NEW g \in Frames PROVE Owned(g)'
    <3>1. Owned(g) BY DEF FrameInv
    <3>2. CASE g = Min(pool) BY <1>3, <1>5, <1>6, <3>1, <3>2 DEF Owned
    <3>3. CASE g # Min(pool) BY <1>3, <1>5, <1>6, <3>1, <3>3, OwnedKept
    <3>. QED BY <3>2, <3>3
  <2>2. IsInjective(ordered_list')
    BY DEF FrameInv
  <2>3. ASSUME NEW q \in Pages, Mapped(q)' PROVE fr'[pg'[q].kpage].user = q
    <3>1. \A r \in Pages : pg'[r].kpage = pg[r].kpage BY <1>1, <1>2, <1>3
    <3>2. \A g \in Frames : fr'[g].user = fr[g].user BY <1>5
    <3>. QED BY <2>3, <3>1, <3>2, MapKept
  <2>. QED BY <2>1, <2>2, <2>3 DEF FrameInv
<1>11. SlotsAccounted'
  <2>1. \A q \in Pages : pg'[q].sector_t = pg[q].sector_t BY <1>1, <1>2, <1>3
  <2>. QED BY <2>1, SlotsKept
<1>12. (Works(t) /\ Holds(t) /\ GoesOn(t) /\ Pins(t) /\ Faults(t))'
  BY <1>1, <1>2, <1>3, <1>4, <1>5, <1>6, <1>8, <1>9 DEF Works, Holds, GoesOn, Pins, Faults, Victim, Mapped, IdlePCs, LoadPCs, EvictPCs, HandPCs, WaitPCs
<1>13. ASSUME NEW u \in Procs \ {t} PROVE LockKept(u) /\ PagesKept(u) /\ HandKept(u)
  <2>1. LockKept(u)
    BY DEF LockKept
  <2>2. PagesKept(u)
    BY <1>1, <1>2, <1>3, <1>4, <1>5, <1>8 DEF PagesKept
  <2>3. HandKept(u)
    BY <1>5 DEF HandKept
  <2>. QED BY <2>1, <2>2, <2>3
<1>14. PagesOK'
  BY <1>1, <1>2, <1>3, <1>4, <1>5, <1>6, <1>8, <1>9 DEF PagesOK, Mapped
<1>15. th'[t].frame \in {th[t].frame, NoFrame} \/ \A u \in Procs : th[u].frame # th'[t].frame
  BY <1>1, <1>2, <1>3, <1>4, <1>5, <1>6
<1>. QED BY <1>6, <1>7, <1>10, <1>11, <1>12, <1>13, <1>14, <1>15, StepKeeps

ClosePage(p) == pg' = [pg EXCEPT ![p].user_ok = FALSE]
LEMMA EvictPages ==
  ASSUME TypeOK, NEW p \in Pages, ClosePage(p)
  PROVE  /\ pg' \in [Pages -> PageRec]
         /\ \A q \in Pages \ {p} : pg'[q] = pg[q]
         /\ pg'[p].lock = pg[p].lock /\ pg'[p].prohibit = pg[p].prohibit
         /\ pg'[p].sector_t = pg[p].sector_t /\ pg'[p].kpage = pg[p].kpage
         /\ pg'[p].user_ok = FALSE
<1>1. pg \in [Pages -> PageRec] BY DEF TypeOK
<1>. QED BY <1>1, ZenonT(60) DEF PageRec, ClosePage

GiveSlot(p, z) == pg' = [pg EXCEPT ![p].sector_t = z]
LEMMA SlotPages ==
  ASSUME TypeOK, NEW p \in Pages, NEW z \in Slots, GiveSlot(p, z)
  PROVE  /\ pg' \in [Pages -> PageRec]
         /\ \A q \in Pages \ {p} : pg'[q] = pg[q]
         /\ pg'[p].lock = pg[p].lock /\ pg'[p].prohibit = pg[p].prohibit
         /\ pg'[p].sector_t = z /\ pg'[p].kpage = pg[p].kpage
         /\ pg'[p].user_ok = pg[p].user_ok
<1>1. pg \in [Pages -> PageRec] BY DEF TypeOK
<1>. QED BY <1>1, ZenonT(60) DEF PageRec, GiveSlot

ClearEntry(p) == pg' = [pg EXCEPT ![p].kpage = NoFrame]
LEMMA ClearPages ==
  ASSUME TypeOK, NEW p \in Pages, ClearEntry(p)
  PROVE  /\ pg' \in [Pages -> PageRec]
         /\ \A q \in Pages \ {p} : pg'[q] = pg[q]
         /\ pg'[p].lock = pg[p].lock /\ pg'[p].prohibit = pg[p].prohibit
         /\ pg'[p].sector_t = pg[p].sector_t /\ pg'[p].kpage = NoFrame
         /\ pg'[p].user_ok = pg[p].user_ok
<1>1. pg \in [Pages -> PageRec] BY DEF TypeOK
<1>. QED BY <1>1, ZenonT(60) DEF PageRec, ClearEntry

\* The search takes a frame whose page nobody works on.
LEMMA ScanTakeKeeps ==
  ASSUME IInv, NEW t \in Procs,
         NEW f \in Range(ordered_list),
         At(t, "scan"),
         NEW p \in Pages \cup {NoPage}, p = fr[f].user,
         Free(p), ~ fr[f].prohibit_cache,
         ordered_list # << >>,
         ordered_list' = Rotate(ordered_list),
         LockPage(p, t),
         list_lock' = Nobody,
         GotoFrame(t, "evict", f),
         UNCHANGED <<fr, pool, entries, disk_vars, mmap_lock, end_vars, ops>>
  PROVE  IInv'
<1>. USE FramesAssumption, Types DEF IInv, vars, frame_vars, disk_vars, end_vars, At, Free
<1>1. /\ th \in [Procs -> ThreadRec] /\ pg \in [Pages -> PageRec] /\ fr \in [Frames -> FrameRec]
      /\ ordered_list \in Seq(Frames)
      /\ Works(t) /\ Holds(t) /\ GoesOn(t) /\ Pins(t) /\ Faults(t)
  BY DEF TypeOK, Threads
<1>2. th[t].page \in Pages /\ th[t].page \in entries /\ OwnerOf[th[t].page] = t
  BY <1>1 DEF Works, IdlePCs, TypeOK
<1>3. f \in Frames
  BY <1>1 DEF Range
<1>4. p \in Pages /\ p # NoPage /\ fr[f].user = p /\ pg[p].lock = Nobody
  BY <1>3 DEF FrameInv, Owned
<1>5. \A u \in Procs : pg[p].lock # u
  BY <1>4
<1>6. \A u \in Procs : th[u].frame # f
  BY <1>3, <1>4, <1>5, HolderLocks
<1>7. pg[p].kpage = f
  BY <1>3, <1>4, <1>6 DEF FrameInv, Owned
<1>8. p # th[t].page
  BY <1>1, <1>5 DEF Works, LoadPCs
<1>9. /\ ordered_list' \in Seq(Frames) /\ Range(ordered_list') = Range(ordered_list)
      /\ IsInjective(ordered_list')
  BY <1>1, RotatedList DEF FrameInv
<1>10. /\ pg' \in [Pages -> PageRec]
       /\ \A q \in Pages \ {p} : pg'[q] = pg[q]
       /\ pg'[p].lock = t /\ pg'[p].prohibit = pg[p].prohibit
       /\ pg'[p].sector_t = pg[p].sector_t /\ pg'[p].kpage = pg[p].kpage
       /\ pg'[p].user_ok = pg[p].user_ok
  BY <1>4, LockPages
<1>11. /\ th' \in [Procs -> ThreadRec]
       /\ \A u \in Procs \ {t} : th'[u] = th[u]
       /\ th'[t].pc = "evict" /\ th'[t].page = th[t].page /\ th'[t].frame = f
       /\ th'[t].then = th[t].then
  <2>1. "evict" \in Where
    BY <1>3 DEF Where
  <2>. QED BY <1>1, <1>2, <1>3, <1>4, <1>5, <1>6, <1>7, <1>8, <1>9, <1>10, <2>1, GotoFrameStep
<1>12. TypeOK'
  BY <1>1, <1>2, <1>3, <1>4, <1>5, <1>6, <1>7, <1>8, <1>9, <1>10, <1>11 DEF TypeOK
<1>13. \A q \in Pages : Leaving(q) => Leaving(q)'
  <2>. SUFFICES ASSUME NEW q \in Pages, Leaving(q) PROVE Leaving(q)'
    OBVIOUS
  <2>1. PICK u \in Procs : th[u].pc \in {"save", "clear"} /\ Victim(u) = q
    BY DEF Leaving
  <2>2. th[u].frame \in Frames
    BY <2>1 DEF Threads, Works, HandPCs, EvictPCs
  <2>3. /\ th'[u].pc \in {"save", "clear"} /\ th'[u].frame = th[u].frame
        /\ fr'[th[u].frame].user = fr[th[u].frame].user
    BY <1>11, <2>1, <2>2
  <2>. QED BY <2>1, <2>3 DEF Leaving, Victim
<1>14. \A q \in Pages : Moving(q) => Moving(q)'
  <2>. SUFFICES ASSUME NEW q \in Pages, Moving(q) PROVE Moving(q)'
    OBVIOUS
  <2>1. PICK u \in Procs : \/ th[u].pc \in {"fill", "done"} /\ th[u].page = q
                           \/ th[u].pc = "clear" /\ Victim(u) = q
    BY DEF Moving
  <2>2. CASE th[u].pc \in {"fill", "done"} /\ th[u].page = q
    <3>1. th'[u].pc \in {"fill", "done"} /\ th'[u].page = q
      BY <1>11, <2>2
    <3>. QED BY <3>1 DEF Moving
  <2>3. CASE th[u].pc = "clear" /\ Victim(u) = q
    <3>1. th[u].frame \in Frames
      BY <2>3 DEF Threads, Works, HandPCs, EvictPCs
    <3>2. /\ th'[u].pc = "clear" /\ th'[u].frame = th[u].frame
          /\ fr'[th[u].frame].user = fr[th[u].frame].user
      BY <1>11, <2>3, <3>1
    <3>. QED BY <2>3, <3>2 DEF Moving, Victim
  <2>. QED BY <2>1, <2>2, <2>3
<1>15. FrameInv'
  <2>1. ASSUME NEW g \in Frames PROVE Owned(g)'
    <3>1. Owned(g) BY <2>1 DEF FrameInv
    <3>2. CASE g = f BY <1>4, <1>6, <1>7, <1>9, <1>10, <3>1, <3>2 DEF Owned
    <3>3. CASE g # f
      <4>1. \A q \in Pages : pg'[q].kpage = pg[q].kpage BY <1>10
      <4>2. \A u \in Procs :
              /\ th'[u].frame = g => th[u].frame = g
              /\ th[u].frame = g /\ th[u].pc \in {"init", "map", "unlist"} => th'[u] = th[u]
        BY <1>1, <1>11, <3>3
      <4>. QED BY <1>9, <3>1, <4>1, <4>2, OwnedKept
    <3>. QED BY <3>2, <3>3
  <2>2. IsInjective(ordered_list')
    BY <1>9
  <2>3. ASSUME NEW q \in Pages, Mapped(q)' PROVE fr'[pg'[q].kpage].user = q
    <3>1. \A r \in Pages : pg'[r].kpage = pg[r].kpage BY <1>10, <1>1, <1>2, <1>3
    <3>2. \A g \in Frames : fr'[g].user = fr[g].user OBVIOUS
    <3>. QED BY <2>3, <3>1, <3>2, MapKept
  <2>. QED BY <2>1, <2>2, <2>3 DEF FrameInv
<1>16. SlotsAccounted'
  <2>1. \A q \in Pages : pg'[q].sector_t = pg[q].sector_t BY <1>1, <1>2, <1>3, <1>10
  <2>. QED BY <2>1, SlotsKept
<1>17. (Works(t) /\ Holds(t) /\ GoesOn(t) /\ Pins(t) /\ Faults(t))'
  BY <1>1, <1>2, <1>3, <1>4, <1>5, <1>6, <1>7, <1>8, <1>9, <1>10, <1>11, <1>13, <1>14 DEF Works, Holds, GoesOn, Pins, Faults, Victim, Mapped, IdlePCs, LoadPCs, EvictPCs, HandPCs, WaitPCs
<1>18. ASSUME NEW u \in Procs \ {t} PROVE LockKept(u) /\ PagesKept(u) /\ HandKept(u)
  <2>1. LockKept(u)
    BY <1>1, <1>2, <1>3, <1>4, <1>5, <1>6, <1>7, <1>8, <1>9, <1>10 DEF LockKept
  <2>2. PagesKept(u)
    BY <1>1, <1>2, <1>3, <1>4, <1>5, <1>6, <1>7, <1>8, <1>9, <1>10, <1>13 DEF PagesKept
  <2>3. HandKept(u)
    BY DEF HandKept
  <2>. QED BY <2>1, <2>2, <2>3
<1>19. PagesOK'
  <2>1. \A q \in Pages : /\ pg'[q].kpage = pg[q].kpage /\ pg'[q].user_ok = pg[q].user_ok
                          /\ pg'[q].sector_t \in {pg[q].sector_t, NoSlot}
    BY <1>4, <1>10
  <2>. QED BY <1>13, <1>14, <2>1, PagesOKKept
<1>20. th'[t].frame \in {th[t].frame, NoFrame} \/ \A u \in Procs : th[u].frame # th'[t].frame
  BY <1>1, <1>2, <1>3, <1>4, <1>5, <1>6, <1>7, <1>8, <1>9, <1>10, <1>11
<1>. QED BY <1>11, <1>12, <1>15, <1>16, <1>17, <1>18, <1>19, <1>20, StepKeeps

\* pageir_set_kernel_access: the victim is closed to its program.
LEMMA EvictKeeps ==
  ASSUME IInv, NEW t \in Procs,
         At(t, "evict"),
         ClosePage(Victim(t)),
         Goto(t, "save"),
         UNCHANGED <<frame_vars, entries, disk_vars, mmap_lock, end_vars, ops>>
  PROVE  IInv'
<1>. USE FramesAssumption, Types DEF IInv, vars, frame_vars, disk_vars, end_vars, At
<1>1. /\ th \in [Procs -> ThreadRec] /\ pg \in [Pages -> PageRec] /\ fr \in [Frames -> FrameRec]
      /\ ordered_list \in Seq(Frames)
      /\ Works(t) /\ Holds(t) /\ GoesOn(t) /\ Pins(t) /\ Faults(t)
  BY DEF TypeOK, Threads
<1>2. th[t].page \in Pages /\ th[t].page \in entries /\ OwnerOf[th[t].page] = t
  BY <1>1 DEF Works, IdlePCs, TypeOK
<1>3. /\ Victim(t) \in Pages /\ pg[Victim(t)].lock = t /\ Victim(t) # th[t].page
      /\ th[t].frame \in Frames /\ fr[th[t].frame].user = Victim(t)
  BY <1>1 DEF Works, Holds, LoadPCs, EvictPCs, HandPCs, Victim, Mapped
<1>4. /\ pg' \in [Pages -> PageRec]
      /\ \A q \in Pages \ {Victim(t)} : pg'[q] = pg[q]
      /\ pg'[Victim(t)].lock = pg[Victim(t)].lock
      /\ pg'[Victim(t)].prohibit = pg[Victim(t)].prohibit
      /\ pg'[Victim(t)].sector_t = pg[Victim(t)].sector_t
      /\ pg'[Victim(t)].kpage = pg[Victim(t)].kpage /\ pg'[Victim(t)].user_ok = FALSE
  BY <1>1, <1>2, <1>3, EvictPages
<1>5. /\ th' \in [Procs -> ThreadRec]
      /\ \A u \in Procs \ {t} : th'[u] = th[u]
      /\ th'[t].pc = "save" /\ th'[t].page = th[t].page /\ th'[t].frame = th[t].frame
      /\ th'[t].then = th[t].then
  <2>1. "save" \in Where
    BY DEF Where
  <2>. QED BY <1>1, <1>2, <1>3, <1>4, <2>1, GotoStep
<1>6. TypeOK'
  BY <1>1, <1>2, <1>3, <1>4, <1>5 DEF TypeOK
<1>7. \A q \in Pages : Leaving(q) => Leaving(q)'
  <2>. SUFFICES ASSUME NEW q \in Pages, Leaving(q) PROVE Leaving(q)'
    OBVIOUS
  <2>1. PICK u \in Procs : th[u].pc \in {"save", "clear"} /\ Victim(u) = q
    BY DEF Leaving
  <2>2. th[u].frame \in Frames
    BY <2>1 DEF Threads, Works, HandPCs, EvictPCs
  <2>3. /\ th'[u].pc \in {"save", "clear"} /\ th'[u].frame = th[u].frame
        /\ fr'[th[u].frame].user = fr[th[u].frame].user
    BY <1>5, <2>1, <2>2
  <2>. QED BY <2>1, <2>3 DEF Leaving, Victim
<1>8. \A q \in Pages : Moving(q) => Moving(q)'
  <2>. SUFFICES ASSUME NEW q \in Pages, Moving(q) PROVE Moving(q)'
    OBVIOUS
  <2>1. PICK u \in Procs : \/ th[u].pc \in {"fill", "done"} /\ th[u].page = q
                           \/ th[u].pc = "clear" /\ Victim(u) = q
    BY DEF Moving
  <2>2. CASE th[u].pc \in {"fill", "done"} /\ th[u].page = q
    <3>1. th'[u].pc \in {"fill", "done"} /\ th'[u].page = q
      BY <1>5, <2>2
    <3>. QED BY <3>1 DEF Moving
  <2>3. CASE th[u].pc = "clear" /\ Victim(u) = q
    <3>1. th[u].frame \in Frames
      BY <2>3 DEF Threads, Works, HandPCs, EvictPCs
    <3>2. /\ th'[u].pc = "clear" /\ th'[u].frame = th[u].frame
          /\ fr'[th[u].frame].user = fr[th[u].frame].user
      BY <1>5, <2>3, <3>1
    <3>. QED BY <2>3, <3>2 DEF Moving, Victim
  <2>. QED BY <2>1, <2>2, <2>3
<1>9. FrameInv'
  <2>1. ASSUME NEW g \in Frames PROVE Owned(g)'
    <3>1. Owned(g) BY DEF FrameInv
    <3>2. \A q \in Pages : pg'[q].kpage = pg[q].kpage BY <1>4
    <3>3. \A u \in Procs :
            /\ th'[u].frame = th[u].frame
            /\ th[u].pc \in {"init", "map", "unlist"} => th'[u].pc = th[u].pc
      BY <1>1, <1>5
    <3>. QED BY <3>1, <3>2, <3>3, OwnedKept
  <2>2. IsInjective(ordered_list')
    BY DEF FrameInv
  <2>3. ASSUME NEW q \in Pages, Mapped(q)' PROVE fr'[pg'[q].kpage].user = q
    <3>1. \A r \in Pages : pg'[r].kpage = pg[r].kpage BY <1>4, <1>1, <1>2, <1>3
    <3>2. \A g \in Frames : fr'[g].user = fr[g].user OBVIOUS
    <3>. QED BY <2>3, <3>1, <3>2, MapKept
  <2>. QED BY <2>1, <2>2, <2>3 DEF FrameInv
<1>10. SlotsAccounted'
  <2>1. \A q \in Pages : pg'[q].sector_t = pg[q].sector_t BY <1>1, <1>2, <1>3, <1>4
  <2>. QED BY <2>1, SlotsKept
<1>11. (Works(t) /\ Holds(t) /\ GoesOn(t) /\ Pins(t) /\ Faults(t))'
  BY <1>1, <1>2, <1>3, <1>4, <1>5, <1>7, <1>8 DEF Works, Holds, GoesOn, Pins, Faults, Victim, Mapped, IdlePCs, LoadPCs, EvictPCs, HandPCs, WaitPCs
<1>12. ASSUME NEW u \in Procs \ {t} PROVE LockKept(u) /\ PagesKept(u) /\ HandKept(u)
  <2>1. LockKept(u)
    BY <1>1, <1>2, <1>3, <1>4 DEF LockKept
  <2>2. PagesKept(u)
    BY <1>1, <1>2, <1>3, <1>4, <1>7 DEF PagesKept
  <2>3. HandKept(u)
    BY DEF HandKept
  <2>. QED BY <2>1, <2>2, <2>3
<1>13. PagesOK'
  <2>1. ASSUME NEW q \in Pages
        PROVE  /\ pg'[q].kpage = pg[q].kpage /\ pg'[q].sector_t = pg[q].sector_t
               /\ q # Victim(t) => pg'[q].user_ok = pg[q].user_ok
    BY <1>4
  <2>2. ASSUME NEW q \in Pages, Mapped(q)', ~ pg'[q].user_ok PROVE Leaving(q)'
    <3>1. CASE q = Victim(t)
      BY <1>3, <1>5, <3>1 DEF Leaving, Victim
    <3>2. CASE q # Victim(t)
      BY <1>7, <2>1, <2>2, <3>2 DEF PagesOK, Mapped
    <3>. QED BY <3>1, <3>2
  <2>3. ASSUME NEW q \in Pages, Mapped(q)', pg'[q].sector_t # NoSlot PROVE Moving(q)'
    BY <1>8, <2>1, <2>3 DEF PagesOK, Mapped
  <2>4. ASSUME NEW q \in Pages, q \notin entries' PROVE ~ Mapped(q)' /\ pg'[q].sector_t = NoSlot
    BY <2>1, <2>4 DEF PagesOK, Mapped
  <2>. QED BY <2>2, <2>3, <2>4 DEF PagesOK
<1>14. th'[t].frame \in {th[t].frame, NoFrame} \/ \A u \in Procs : th[u].frame # th'[t].frame
  BY <1>1, <1>2, <1>3, <1>4, <1>5
<1>. QED BY <1>5, <1>6, <1>9, <1>10, <1>11, <1>12, <1>13, <1>14, StepKeeps

\* swap_write takes a slot for the victim.
LEMMA SaveSlotKeeps ==
  ASSUME IInv, NEW t \in Procs,
         At(t, "save"),
         NEW z \in Slots \ used,
         GiveSlot(Victim(t), z),
         used' = used \cup {z},
         swap' = [swap EXCEPT ![z] = fr[th[t].frame].data],
         Goto(t, "clear"),
         UNCHANGED <<frame_vars, entries, file, last, mmap_lock, end_vars, ops>>
  PROVE  IInv'
<1>. USE FramesAssumption, Types DEF IInv, vars, frame_vars, disk_vars, end_vars, At
<1>1. /\ th \in [Procs -> ThreadRec] /\ pg \in [Pages -> PageRec] /\ fr \in [Frames -> FrameRec]
      /\ ordered_list \in Seq(Frames)
      /\ Works(t) /\ Holds(t) /\ GoesOn(t) /\ Pins(t) /\ Faults(t)
  BY DEF TypeOK, Threads
<1>2. th[t].page \in Pages /\ th[t].page \in entries /\ OwnerOf[th[t].page] = t
  BY <1>1 DEF Works, IdlePCs, TypeOK
<1>3. /\ Victim(t) \in Pages /\ pg[Victim(t)].lock = t /\ Victim(t) # th[t].page
      /\ th[t].frame \in Frames /\ fr[th[t].frame].user = Victim(t)
  BY <1>1 DEF Works, Holds, LoadPCs, EvictPCs, HandPCs, Victim, Mapped
<1>4. pg[Victim(t)].sector_t = NoSlot
  <2>1. Mapped(Victim(t)) BY <1>1, <1>3 DEF Holds, Mapped
  <2>2. ~ Moving(Victim(t))
    <3>1. ASSUME NEW u \in Procs, th[u].pc \in {"fill", "done"}, th[u].page = Victim(t) PROVE FALSE
      BY <1>3, <3>1 DEF Threads, Works
    <3>2. ASSUME NEW u \in Procs, th[u].pc = "clear", Victim(u) = Victim(t) PROVE FALSE
      BY <1>3, <3>2 DEF Threads, Works, EvictPCs
    <3>. QED BY <3>1, <3>2 DEF Moving
  <2>. QED BY <1>3, <2>1, <2>2 DEF PagesOK
<1>5. fr[th[t].frame].data \in Values
  BY <1>1, <1>3 DEF FrameRec
<1>6. /\ pg' \in [Pages -> PageRec]
      /\ \A q \in Pages \ {Victim(t)} : pg'[q] = pg[q]
      /\ pg'[Victim(t)].lock = pg[Victim(t)].lock
      /\ pg'[Victim(t)].prohibit = pg[Victim(t)].prohibit /\ pg'[Victim(t)].sector_t = z
      /\ pg'[Victim(t)].kpage = pg[Victim(t)].kpage
      /\ pg'[Victim(t)].user_ok = pg[Victim(t)].user_ok
  BY <1>1, <1>2, <1>3, <1>4, <1>5, SlotPages
<1>7. /\ th' \in [Procs -> ThreadRec]
      /\ \A u \in Procs \ {t} : th'[u] = th[u]
      /\ th'[t].pc = "clear" /\ th'[t].page = th[t].page /\ th'[t].frame = th[t].frame
      /\ th'[t].then = th[t].then
  <2>1. "clear" \in Where
    BY DEF Where
  <2>. QED BY <1>1, <1>2, <1>3, <1>4, <1>5, <1>6, <2>1, GotoStep
<1>8. TypeOK'
  BY <1>1, <1>2, <1>3, <1>4, <1>5, <1>6, <1>7 DEF TypeOK
<1>9. \A q \in Pages : Leaving(q) => Leaving(q)'
  <2>. SUFFICES ASSUME NEW q \in Pages, Leaving(q) PROVE Leaving(q)'
    OBVIOUS
  <2>1. PICK u \in Procs : th[u].pc \in {"save", "clear"} /\ Victim(u) = q
    BY DEF Leaving
  <2>2. th[u].frame \in Frames
    BY <2>1 DEF Threads, Works, HandPCs, EvictPCs
  <2>3. /\ th'[u].pc \in {"save", "clear"} /\ th'[u].frame = th[u].frame
        /\ fr'[th[u].frame].user = fr[th[u].frame].user
    BY <1>7, <2>1, <2>2
  <2>. QED BY <2>1, <2>3 DEF Leaving, Victim
<1>10. \A q \in Pages : Moving(q) => Moving(q)'
  <2>. SUFFICES ASSUME NEW q \in Pages, Moving(q) PROVE Moving(q)'
    OBVIOUS
  <2>1. PICK u \in Procs : \/ th[u].pc \in {"fill", "done"} /\ th[u].page = q
                           \/ th[u].pc = "clear" /\ Victim(u) = q
    BY DEF Moving
  <2>2. CASE th[u].pc \in {"fill", "done"} /\ th[u].page = q
    <3>1. th'[u].pc \in {"fill", "done"} /\ th'[u].page = q
      BY <1>7, <2>2
    <3>. QED BY <3>1 DEF Moving
  <2>3. CASE th[u].pc = "clear" /\ Victim(u) = q
    <3>1. th[u].frame \in Frames
      BY <2>3 DEF Threads, Works, HandPCs, EvictPCs
    <3>2. /\ th'[u].pc = "clear" /\ th'[u].frame = th[u].frame
          /\ fr'[th[u].frame].user = fr[th[u].frame].user
      BY <1>7, <2>3, <3>1
    <3>. QED BY <2>3, <3>2 DEF Moving, Victim
  <2>. QED BY <2>1, <2>2, <2>3
<1>11. FrameInv'
  <2>1. ASSUME NEW g \in Frames PROVE Owned(g)'
    <3>1. Owned(g) BY DEF FrameInv
    <3>2. \A q \in Pages : pg'[q].kpage = pg[q].kpage BY <1>6
    <3>3. \A u \in Procs :
            /\ th'[u].frame = th[u].frame
            /\ th[u].pc \in {"init", "map", "unlist"} => th'[u].pc = th[u].pc
      BY <1>1, <1>7
    <3>. QED BY <3>1, <3>2, <3>3, OwnedKept
  <2>2. IsInjective(ordered_list')
    BY DEF FrameInv
  <2>3. ASSUME NEW q \in Pages, Mapped(q)' PROVE fr'[pg'[q].kpage].user = q
    <3>1. \A r \in Pages : pg'[r].kpage = pg[r].kpage BY <1>6, <1>1, <1>2, <1>3
    <3>2. \A g \in Frames : fr'[g].user = fr[g].user OBVIOUS
    <3>. QED BY <2>3, <3>1, <3>2, MapKept
  <2>. QED BY <2>1, <2>2, <2>3 DEF FrameInv
<1>12. SlotsAccounted'
  BY <1>3, <1>4, <1>6, SlotTaken
<1>13. (Works(t) /\ Holds(t) /\ GoesOn(t) /\ Pins(t) /\ Faults(t))'
  BY <1>1, <1>2, <1>3, <1>4, <1>5, <1>6, <1>7, <1>9, <1>10 DEF Works, Holds, GoesOn, Pins, Faults, Victim, Mapped, IdlePCs, LoadPCs, EvictPCs, HandPCs, WaitPCs
<1>14. ASSUME NEW u \in Procs \ {t} PROVE LockKept(u) /\ PagesKept(u) /\ HandKept(u)
  <2>1. LockKept(u)
    BY <1>1, <1>2, <1>3, <1>4, <1>5, <1>6 DEF LockKept
  <2>2. PagesKept(u)
    BY <1>1, <1>2, <1>3, <1>4, <1>5, <1>6, <1>9 DEF PagesKept
  <2>3. HandKept(u)
    BY DEF HandKept
  <2>. QED BY <2>1, <2>2, <2>3
<1>15. PagesOK'
  <2>1. ASSUME NEW q \in Pages, q = Victim(t) PROVE Moving(q)'
    BY <1>3, <1>7, <2>1 DEF Moving, Victim
  <2>2. ASSUME NEW q \in Pages
        PROVE  /\ pg'[q].kpage = pg[q].kpage /\ pg'[q].user_ok = pg[q].user_ok
               /\ q # Victim(t) => pg'[q].sector_t = pg[q].sector_t
    BY <1>6
  <2>3. ASSUME NEW q \in Pages, Mapped(q)', ~ pg'[q].user_ok PROVE Leaving(q)'
    BY <1>9, <2>2, <2>3 DEF PagesOK, Mapped
  <2>4. ASSUME NEW q \in Pages, Mapped(q)', pg'[q].sector_t # NoSlot PROVE Moving(q)'
    <3>1. CASE q = Victim(t) BY <2>1, <3>1
    <3>2. CASE q # Victim(t) BY <1>10, <2>2, <2>4, <3>2 DEF PagesOK, Mapped
    <3>. QED BY <3>1, <3>2
  <2>5. ASSUME NEW q \in Pages, q \notin entries' PROVE ~ Mapped(q)' /\ pg'[q].sector_t = NoSlot
    <3>1. q # Victim(t)
      BY <1>1, <1>3, <2>5 DEF PagesOK, Holds, Mapped
    <3>. QED BY <2>2, <2>5, <3>1 DEF PagesOK, Mapped
  <2>. QED BY <2>3, <2>4, <2>5 DEF PagesOK
<1>16. th'[t].frame \in {th[t].frame, NoFrame} \/ \A u \in Procs : th[u].frame # th'[t].frame
  BY <1>1, <1>2, <1>3, <1>4, <1>5, <1>6, <1>7
<1>. QED BY <1>7, <1>8, <1>11, <1>12, <1>13, <1>14, <1>15, <1>16, StepKeeps

\* pagedir_clear_page: the victim has no frame any more.
LEMMA ClearKeeps ==
  ASSUME IInv, NEW t \in Procs,
         At(t, "clear"),
         ClearEntry(Victim(t)),
         Goto(t, "unlist"),
         UNCHANGED <<frame_vars, entries, disk_vars, mmap_lock, end_vars, ops>>
  PROVE  IInv'
<1>. USE FramesAssumption, Types DEF IInv, vars, frame_vars, disk_vars, end_vars, At
<1>1. /\ th \in [Procs -> ThreadRec] /\ pg \in [Pages -> PageRec] /\ fr \in [Frames -> FrameRec]
      /\ ordered_list \in Seq(Frames)
      /\ Works(t) /\ Holds(t) /\ GoesOn(t) /\ Pins(t) /\ Faults(t)
  BY DEF TypeOK, Threads
<1>2. th[t].page \in Pages /\ th[t].page \in entries /\ OwnerOf[th[t].page] = t
  BY <1>1 DEF Works, IdlePCs, TypeOK
<1>3. /\ Victim(t) \in Pages /\ pg[Victim(t)].lock = t /\ Victim(t) # th[t].page
      /\ th[t].frame \in Frames /\ fr[th[t].frame].user = Victim(t)
  BY <1>1 DEF Works, Holds, LoadPCs, EvictPCs, HandPCs, Victim, Mapped
<1>4. /\ pg' \in [Pages -> PageRec]
      /\ \A q \in Pages \ {Victim(t)} : pg'[q] = pg[q]
      /\ pg'[Victim(t)].lock = pg[Victim(t)].lock
      /\ pg'[Victim(t)].prohibit = pg[Victim(t)].prohibit
      /\ pg'[Victim(t)].sector_t = pg[Victim(t)].sector_t
      /\ pg'[Victim(t)].kpage = NoFrame
      /\ pg'[Victim(t)].user_ok = pg[Victim(t)].user_ok
  BY <1>1, <1>2, <1>3, ClearPages
<1>5. /\ th' \in [Procs -> ThreadRec]
      /\ \A u \in Procs \ {t} : th'[u] = th[u]
      /\ th'[t].pc = "unlist" /\ th'[t].page = th[t].page /\ th'[t].frame = th[t].frame
      /\ th'[t].then = th[t].then
  <2>1. "unlist" \in Where
    BY DEF Where
  <2>. QED BY <1>1, <1>2, <1>3, <1>4, <2>1, GotoStep
<1>6. TypeOK'
  BY <1>1, <1>2, <1>3, <1>4, <1>5 DEF TypeOK
<1>7. \A q \in Pages \ {Victim(t)} : Leaving(q) => Leaving(q)'
  <2>. SUFFICES ASSUME NEW q \in Pages \ {Victim(t)}, Leaving(q) PROVE Leaving(q)'
    OBVIOUS
  <2>1. PICK u \in Procs : th[u].pc \in {"save", "clear"} /\ Victim(u) = q
    BY DEF Leaving
  <2>2. th[u].frame \in Frames
    BY <2>1 DEF Threads, Works, HandPCs, EvictPCs
  <2>3. /\ th'[u].pc \in {"save", "clear"} /\ th'[u].frame = th[u].frame
        /\ fr'[th[u].frame].user = fr[th[u].frame].user
    BY <1>5, <2>1, <2>2
  <2>. QED BY <2>1, <2>3 DEF Leaving, Victim
<1>8. \A q \in Pages \ {Victim(t)} : Moving(q) => Moving(q)'
  <2>. SUFFICES ASSUME NEW q \in Pages \ {Victim(t)}, Moving(q) PROVE Moving(q)'
    OBVIOUS
  <2>1. PICK u \in Procs : \/ th[u].pc \in {"fill", "done"} /\ th[u].page = q
                           \/ th[u].pc = "clear" /\ Victim(u) = q
    BY DEF Moving
  <2>2. CASE th[u].pc \in {"fill", "done"} /\ th[u].page = q
    <3>1. th'[u].pc \in {"fill", "done"} /\ th'[u].page = q
      BY <1>5, <2>2
    <3>. QED BY <3>1 DEF Moving
  <2>3. CASE th[u].pc = "clear" /\ Victim(u) = q
    <3>1. th[u].frame \in Frames
      BY <2>3 DEF Threads, Works, HandPCs, EvictPCs
    <3>2. /\ th'[u].pc = "clear" /\ th'[u].frame = th[u].frame
          /\ fr'[th[u].frame].user = fr[th[u].frame].user
      BY <1>5, <2>3, <3>1
    <3>. QED BY <2>3, <3>2 DEF Moving, Victim
  <2>. QED BY <2>1, <2>2, <2>3
<1>9. FrameInv'
  <2>1. ASSUME NEW g \in Frames PROVE Owned(g)'
    <3>1. Owned(g) /\ (g = th[t].frame => Holds(t)) BY <1>1 DEF FrameInv
    <3>2. CASE g = th[t].frame BY <1>3, <1>5, <3>1, <3>2 DEF Owned
    <3>3. CASE g # th[t].frame
      <4>1. fr[g].user # NoPage /\ pg[fr[g].user].kpage = g => fr[g].user # Victim(t)
        BY <1>1, <3>3 DEF Holds
      <4>. QED BY <1>1, <1>4, <1>5, <3>1, <3>3, <4>1, OwnedKept, ZenonT(60)
    <3>. QED BY <3>2, <3>3
  <2>2. IsInjective(ordered_list')
    BY DEF FrameInv
  <2>3. ASSUME NEW q \in Pages, Mapped(q)' PROVE fr'[pg'[q].kpage].user = q
    BY <1>1, <1>2, <1>3, <1>4, <1>5, <2>3 DEF FrameInv, Owned, Mapped
  <2>. QED BY <2>1, <2>2, <2>3 DEF FrameInv
<1>10. SlotsAccounted'
  <2>1. \A q \in Pages : pg'[q].sector_t = pg[q].sector_t BY <1>1, <1>2, <1>3, <1>4
  <2>. QED BY <2>1, SlotsKept
<1>11. (Works(t) /\ Holds(t) /\ GoesOn(t) /\ Pins(t) /\ Faults(t))'
  <2>1. Works(t)'
    BY <1>1, <1>2, <1>3, <1>4, <1>5 DEF Works, IdlePCs, LoadPCs, EvictPCs, HandPCs, Victim
  <2>2. Holds(t)'
    BY <1>1, <1>2, <1>3, <1>4, <1>5, <1>7, <1>8 DEF Works, Holds, Victim, LoadPCs, EvictPCs, HandPCs, Mapped
  <2>3. GoesOn(t)'
    BY <1>1, <1>2, <1>3, <1>4, <1>5, <1>7, <1>8 DEF GoesOn, WaitPCs, LoadPCs
  <2>4. Pins(t)'
    <3>1. /\ pg'[th[t].page].prohibit = pg[th[t].page].prohibit
          /\ th[t].pc \in WaitPCs /\ th[t].pc = "clear"
      BY <1>1, <1>2, <1>3, <1>4 DEF WaitPCs, LoadPCs, EvictPCs, Works
    <3>. QED BY <1>1, <1>5, <3>1 DEF Pins, WaitPCs, LoadPCs
  <2>5. Faults(t)'
    BY <1>1, <1>2, <1>3, <1>4, <1>5, <1>7, <1>8 DEF Works, Faults, PagesOK, Mapped
  <2>. QED BY <2>1, <2>2, <2>3, <2>4, <2>5
<1>12. ASSUME NEW u \in Procs \ {t} PROVE LockKept(u) /\ PagesKept(u) /\ HandKept(u)
  <2>1. LockKept(u)
    BY <1>1, <1>2, <1>3, <1>4 DEF LockKept
  <2>2. PagesKept(u)
    <3>1. ASSUME NEW q \in Pages, OwnerOf[q] = u
          PROVE  /\ pg'[q].prohibit = pg[q].prohibit /\ pg'[q].lock = pg[q].lock
                 /\ pg'[q].kpage # NoFrame => pg'[q].kpage = pg[q].kpage /\ q # Victim(t)
                 /\ pg[q].lock = Nobody => pg'[q].kpage = pg[q].kpage
      BY <1>3, <1>4, <3>1
    <3>. QED BY <1>7, <3>1 DEF PagesKept
  <2>3. HandKept(u)
    BY DEF HandKept
  <2>. QED BY <2>1, <2>2, <2>3
<1>13. PagesOK'
  BY <1>1, <1>2, <1>3, <1>4, <1>5, <1>7, <1>8 DEF PagesOK, Mapped
<1>14. th'[t].frame \in {th[t].frame, NoFrame} \/ \A u \in Procs : th[u].frame # th'[t].frame
  BY <1>1, <1>2, <1>3, <1>4, <1>5
<1>. QED BY <1>5, <1>6, <1>9, <1>10, <1>11, <1>12, <1>13, <1>14, StepKeeps

EmptyFrame(f) == fr' = [fr EXCEPT ![f].user = NoPage]
LEMMA FreeFrames ==
  ASSUME TypeOK, NEW f \in Frames, EmptyFrame(f)
  PROVE  /\ fr' \in [Frames -> FrameRec]
         /\ \A g \in Frames \ {f} : fr'[g] = fr[g]
         /\ fr'[f].user = NoPage /\ fr'[f].prohibit_cache = fr[f].prohibit_cache
<1>1. fr \in [Frames -> FrameRec] BY DEF TypeOK
<1>. QED BY <1>1, ZenonT(60) DEF FrameRec, EmptyFrame

\* What frame_init_single writes into a frame, and pagedir_set_page into an entry.
InitFrame(f, p) ==
  fr' = [fr EXCEPT ![f] = [@ EXCEPT !.user = p, !.kdirty = FALSE,
                                    !.prohibit_cache = pg[p].prohibit]]
SetEntry(p, f) ==
  pg' = [pg EXCEPT ![p] = [@ EXCEPT !.kpage = f, !.user_ok = TRUE,
                                    !.accessed = FALSE, !.dirty = FALSE]]

LEMMA InitFrames ==
  ASSUME TypeOK, NEW f \in Frames, NEW p \in Pages, InitFrame(f, p)
  PROVE  /\ fr' \in [Frames -> FrameRec]
         /\ \A g \in Frames \ {f} : fr'[g] = fr[g]
         /\ fr'[f].user = p /\ fr'[f].prohibit_cache = pg[p].prohibit
<1>1. fr \in [Frames -> FrameRec] /\ pg[p].prohibit \in BOOLEAN
  BY DEF TypeOK, PageRec
<1>2. PICK b \in BOOLEAN : b = pg[p].prohibit
  BY <1>1
<1>3. fr' = [fr EXCEPT ![f] = [@ EXCEPT !.user = p, !.kdirty = FALSE, !.prohibit_cache = b]]
  BY <1>2 DEF InitFrame
<1>4. /\ fr' \in [Frames -> FrameRec] /\ \A g \in Frames \ {f} : fr'[g] = fr[g]
      /\ fr'[f].user = p /\ fr'[f].prohibit_cache = b
  BY <1>1, <1>3 DEF FrameRec
<1>. QED BY <1>2, <1>4

LEMMA SetPages ==
  ASSUME TypeOK, NEW f \in Frames, NEW p \in Pages, SetEntry(p, f)
  PROVE  /\ pg' \in [Pages -> PageRec]
         /\ \A q \in Pages \ {p} : pg'[q] = pg[q]
         /\ pg'[p].lock = pg[p].lock /\ pg'[p].prohibit = pg[p].prohibit
         /\ pg'[p].sector_t = pg[p].sector_t /\ pg'[p].kpage = f /\ pg'[p].user_ok
<1>1. pg \in [Pages -> PageRec] BY DEF TypeOK
<1>. QED BY <1>1, ZenonT(60) DEF PageRec, SetEntry

LeavePage(p) == pg' = [pg EXCEPT ![p].sector_t = NoSlot, ![p].lock = Nobody]
LEMMA ActivatedPages ==
  ASSUME TypeOK, NEW p \in Pages, LeavePage(p)
  PROVE  /\ pg' \in [Pages -> PageRec]
         /\ \A q \in Pages \ {p} : pg'[q] = pg[q]
         /\ pg'[p].lock = Nobody /\ pg'[p].prohibit = pg[p].prohibit
         /\ pg'[p].sector_t = NoSlot /\ pg'[p].kpage = pg[p].kpage
         /\ pg'[p].user_ok = pg[p].user_ok
<1>1. pg \in [Pages -> PageRec] BY DEF TypeOK
<1>. QED BY <1>1, ZenonT(60) DEF PageRec, LeavePage

ProhibitPage(p, b) == pg' = [pg EXCEPT ![p].prohibit = b]
LEMMA ProhibitPages ==
  ASSUME TypeOK, NEW p \in Pages, NEW b \in BOOLEAN, ProhibitPage(p, b)
  PROVE  /\ pg' \in [Pages -> PageRec]
         /\ \A q \in Pages \ {p} : pg'[q] = pg[q]
         /\ pg'[p].lock = pg[p].lock /\ pg'[p].prohibit = b
         /\ pg'[p].sector_t = pg[p].sector_t /\ pg'[p].kpage = pg[p].kpage
         /\ pg'[p].user_ok = pg[p].user_ok
<1>1. pg \in [Pages -> PageRec] BY DEF TypeOK
<1>. QED BY <1>1, ZenonT(60) DEF PageRec, ProhibitPage

ProhibitFrame(f, b) == fr' = [fr EXCEPT ![f].prohibit_cache = b]
LEMMA ProhibitFrames ==
  ASSUME TypeOK, NEW f \in Frames, NEW b \in BOOLEAN, ProhibitFrame(f, b)
  PROVE  /\ fr' \in [Frames -> FrameRec]
         /\ \A g \in Frames \ {f} : fr'[g] = fr[g]
         /\ fr'[f].user = fr[f].user /\ fr'[f].prohibit_cache = b
<1>1. fr \in [Frames -> FrameRec] BY DEF TypeOK
<1>. QED BY <1>1, ZenonT(60) DEF FrameRec, ProhibitFrame

TakeBack(p, l) == pg' = [pg EXCEPT ![p].lock = l, ![p].sector_t = NoSlot]
LEMMA DestroyPages ==
  ASSUME TypeOK, NEW p \in Pages, NEW l \in Procs \cup {Nobody}, TakeBack(p, l)
  PROVE  /\ pg' \in [Pages -> PageRec]
         /\ \A q \in Pages \ {p} : pg'[q] = pg[q]
         /\ pg'[p].lock = l /\ pg'[p].prohibit = pg[p].prohibit /\ pg'[p].sector_t = NoSlot
         /\ pg'[p].kpage = pg[p].kpage /\ pg'[p].user_ok = pg[p].user_ok
<1>1. pg \in [Pages -> PageRec] BY DEF TypeOK
<1>. QED BY <1>1, ZenonT(60) DEF PageRec, TakeBack

DropPage(p) == pg' = [pg EXCEPT ![p].kpage = NoFrame, ![p].lock = Nobody]
LEMMA FreePages ==
  ASSUME TypeOK, NEW p \in Pages, DropPage(p)
  PROVE  /\ pg' \in [Pages -> PageRec]
         /\ \A q \in Pages \ {p} : pg'[q] = pg[q]
         /\ pg'[p].lock = Nobody /\ pg'[p].prohibit = pg[p].prohibit
         /\ pg'[p].sector_t = pg[p].sector_t /\ pg'[p].kpage = NoFrame
         /\ pg'[p].user_ok = pg[p].user_ok
<1>1. pg \in [Pages -> PageRec] BY DEF TypeOK
<1>. QED BY <1>1, ZenonT(60) DEF PageRec, DropPage

\* The victim gives its frame and its lock back.
LEMMA UnlistKeeps ==
  ASSUME IInv, NEW t \in Procs,
         NEW f \in Frames, f = th[t].frame,
         At(t, "unlist"),
         EmptyFrame(f),
         ordered_list' = RemoveFirst(ordered_list, f), pool' = pool \cup {f},
         list_lock = Nobody, list_lock' = list_lock,
         LockPage(Victim(t), Nobody),
         GotoFrame(t, "alloc", NoFrame),
         UNCHANGED <<entries, disk_vars, mmap_lock, end_vars, ops>>
  PROVE  IInv'
<1>. USE FramesAssumption, Types DEF IInv, vars, frame_vars, disk_vars, end_vars, At
<1>1. /\ th \in [Procs -> ThreadRec] /\ pg \in [Pages -> PageRec] /\ fr \in [Frames -> FrameRec]
      /\ ordered_list \in Seq(Frames)
      /\ Works(t) /\ Holds(t) /\ GoesOn(t) /\ Pins(t) /\ Faults(t)
  BY DEF TypeOK, Threads
<1>2. th[t].page \in Pages /\ th[t].page \in entries /\ OwnerOf[th[t].page] = t
  BY <1>1 DEF Works, IdlePCs, TypeOK
<1>3. /\ Victim(t) \in Pages /\ pg[Victim(t)].lock = t /\ Victim(t) # th[t].page
      /\ th[t].frame \in Frames /\ fr[th[t].frame].user = Victim(t)
  BY <1>1 DEF Works, Holds, LoadPCs, EvictPCs, HandPCs, Victim, Mapped
<1>4. \A u \in Procs \ {t} : th[u].frame # f
  BY <1>3 DEF HandsApart
<1>5. f \in Range(ordered_list)
  BY <1>3 DEF FrameInv, Owned
<1>6. /\ ordered_list' \in Seq(Frames) /\ Range(ordered_list') = Range(ordered_list) \ {f}
      /\ IsInjective(ordered_list')
  BY <1>1, <1>5, RemovedList DEF FrameInv
<1>7. /\ pg' \in [Pages -> PageRec]
      /\ \A q \in Pages \ {Victim(t)} : pg'[q] = pg[q]
      /\ pg'[Victim(t)].lock = Nobody
      /\ pg'[Victim(t)].prohibit = pg[Victim(t)].prohibit
      /\ pg'[Victim(t)].sector_t = pg[Victim(t)].sector_t
      /\ pg'[Victim(t)].kpage = pg[Victim(t)].kpage
      /\ pg'[Victim(t)].user_ok = pg[Victim(t)].user_ok
  BY <1>3, LockPages
<1>8. /\ fr' \in [Frames -> FrameRec]
      /\ \A g \in Frames \ {f} : fr'[g] = fr[g]
      /\ fr'[f].user = NoPage /\ fr'[f].prohibit_cache = fr[f].prohibit_cache
  BY <1>1, <1>3, FreeFrames
<1>9. /\ th' \in [Procs -> ThreadRec]
      /\ \A u \in Procs \ {t} : th'[u] = th[u]
      /\ th'[t].pc = "alloc" /\ th'[t].page = th[t].page /\ th'[t].frame = NoFrame
      /\ th'[t].then = th[t].then
  <2>1. "alloc" \in Where
    BY DEF Where
  <2>. QED BY <1>1, <1>2, <1>3, <1>4, <1>5, <1>6, <1>7, <1>8, <2>1, GotoFrameStep
<1>10. TypeOK'
  BY <1>1, <1>2, <1>3, <1>4, <1>5, <1>6, <1>7, <1>8, <1>9 DEF TypeOK
<1>11. \A q \in Pages : Leaving(q) => Leaving(q)'
  <2>. SUFFICES ASSUME NEW q \in Pages, Leaving(q) PROVE Leaving(q)'
    OBVIOUS
  <2>1. PICK u \in Procs : th[u].pc \in {"save", "clear"} /\ Victim(u) = q
    BY DEF Leaving
  <2>2. th[u].frame \in Frames
    BY <2>1 DEF Threads, Works, HandPCs, EvictPCs
  <2>3. /\ th'[u].pc \in {"save", "clear"} /\ th'[u].frame = th[u].frame
        /\ fr'[th[u].frame].user = fr[th[u].frame].user
    BY <1>4, <1>8, <1>9, <2>1, <2>2
  <2>. QED BY <2>1, <2>3 DEF Leaving, Victim
<1>12. \A q \in Pages : Moving(q) => Moving(q)'
  <2>. SUFFICES ASSUME NEW q \in Pages, Moving(q) PROVE Moving(q)'
    OBVIOUS
  <2>1. PICK u \in Procs : \/ th[u].pc \in {"fill", "done"} /\ th[u].page = q
                           \/ th[u].pc = "clear" /\ Victim(u) = q
    BY DEF Moving
  <2>2. CASE th[u].pc \in {"fill", "done"} /\ th[u].page = q
    <3>1. th'[u].pc \in {"fill", "done"} /\ th'[u].page = q
      BY <1>4, <1>8, <1>9, <2>2
    <3>. QED BY <3>1 DEF Moving
  <2>3. CASE th[u].pc = "clear" /\ Victim(u) = q
    <3>1. th[u].frame \in Frames
      BY <2>3 DEF Threads, Works, HandPCs, EvictPCs
    <3>2. /\ th'[u].pc = "clear" /\ th'[u].frame = th[u].frame
          /\ fr'[th[u].frame].user = fr[th[u].frame].user
      BY <1>4, <1>8, <1>9, <2>3, <3>1
    <3>. QED BY <2>3, <3>2 DEF Moving, Victim
  <2>. QED BY <2>1, <2>2, <2>3
<1>13. FrameInv'
  <2>1. ASSUME NEW g \in Frames PROVE Owned(g)'
    <3>1. Owned(g) BY DEF FrameInv
    <3>2. CASE g = f
      <4>1. \A u \in Procs : th'[u].frame # g BY <1>3, <1>4, <1>9, <3>2
      <4>2. g \in pool' /\ g \notin Range(ordered_list') /\ fr'[g].user = NoPage
        BY <1>6, <1>8, <3>2
      <4>. QED BY <4>1, <4>2, FreedOwned
    <3>3. CASE g # f
      <4>1. \A q \in Pages : pg'[q].kpage = pg[q].kpage BY <1>3, <1>7
      <4>2. \A u \in Procs : /\ th'[u].frame = g => th[u].frame = g
                             /\ th[u].frame = g => th'[u] = th[u]
        BY <1>9, <3>3
      <4>3. fr'[g] = fr[g] /\ (g \in pool' <=> g \in pool) BY <1>8, <3>3
      <4>. QED BY <1>6, <3>1, <3>3, <4>1, <4>2, <4>3, OwnedKept
    <3>. QED BY <3>2, <3>3
  <2>2. IsInjective(ordered_list')
    BY <1>6
  <2>3. ASSUME NEW q \in Pages, Mapped(q)' PROVE fr'[pg'[q].kpage].user = q
    <3>1. q # Victim(t) /\ pg'[q].kpage = pg[q].kpage /\ pg[q].kpage \in Frames /\ fr[pg[q].kpage].user = q
      BY <1>1, <1>3, <1>7, <2>3 DEF Mapped, Holds, FrameInv
    <3>. QED BY <1>3, <1>8, <3>1
  <2>. QED BY <2>1, <2>2, <2>3 DEF FrameInv
<1>14. SlotsAccounted'
  <2>1. \A q \in Pages : pg'[q].sector_t = pg[q].sector_t BY <1>1, <1>2, <1>3, <1>7
  <2>. QED BY <2>1, SlotsKept
<1>15. (Works(t) /\ Holds(t) /\ GoesOn(t) /\ Pins(t) /\ Faults(t))'
  <2>1. Works(t)'
    BY <1>1, <1>2, <1>3, <1>7, <1>9 DEF Works, IdlePCs, LoadPCs, EvictPCs, HandPCs
  <2>2. Holds(t)'
    BY <1>1, <1>2, <1>3, <1>7, <1>9 DEF Holds, LoadPCs
  <2>3. GoesOn(t)'
    BY <1>1, <1>9 DEF GoesOn, WaitPCs, LoadPCs
  <2>4. Pins(t)'
    BY <1>1, <1>2, <1>3, <1>7, <1>9 DEF Pins, WaitPCs, LoadPCs
  <2>5. Faults(t)'
    BY <1>9 DEF Faults
  <2>. QED BY <2>1, <2>2, <2>3, <2>4, <2>5
<1>16. ASSUME NEW u \in Procs \ {t} PROVE LockKept(u) /\ PagesKept(u) /\ HandKept(u)
  <2>1. LockKept(u)
    BY <1>1, <1>2, <1>3, <1>4, <1>5, <1>6, <1>7, <1>8 DEF LockKept
  <2>2. PagesKept(u)
    <3>1. ASSUME NEW q \in Pages, OwnerOf[q] = u
          PROVE  /\ pg'[q].prohibit = pg[q].prohibit /\ pg'[q].kpage = pg[q].kpage
                 /\ pg[q].lock = Nobody => pg'[q].lock = Nobody
                 /\ Leaving(q) => Leaving(q)'
      BY <1>3, <1>7, <1>11
    <3>2. \A g \in Frames : fr'[g].prohibit_cache = fr[g].prohibit_cache BY <1>8
    <3>. QED BY <3>1, <3>2 DEF PagesKept
  <2>3. HandKept(u)
    BY <1>1, <1>2, <1>3, <1>4, <1>5, <1>6, <1>7, <1>8 DEF HandKept
  <2>. QED BY <2>1, <2>2, <2>3
<1>17. PagesOK'
  <2>1. \A q \in Pages : /\ pg'[q].kpage = pg[q].kpage /\ pg'[q].user_ok = pg[q].user_ok
                          /\ pg'[q].sector_t \in {pg[q].sector_t, NoSlot}
    BY <1>3, <1>7
  <2>. QED BY <1>11, <1>12, <2>1, PagesOKKept
<1>18. th'[t].frame \in {th[t].frame, NoFrame} \/ \A u \in Procs : th[u].frame # th'[t].frame
  BY <1>1, <1>2, <1>3, <1>4, <1>5, <1>6, <1>7, <1>8, <1>9
<1>. QED BY <1>9, <1>10, <1>13, <1>14, <1>15, <1>16, <1>17, <1>18, StepKeeps

\* frame_init_single.
LEMMA InitKeeps ==
  ASSUME IInv, NEW t \in Procs,
         NEW f \in Frames, f = th[t].frame,
         NEW p \in Pages, p = th[t].page,
         At(t, "init"),
         InitFrame(f, p),
         ordered_list' = Append(ordered_list, f),
         Goto(t, "map"),
         UNCHANGED <<list_lock, pool, entries, pg, disk_vars, mmap_lock, end_vars, ops>>
  PROVE  IInv'
<1>. USE FramesAssumption, Types DEF IInv, vars, frame_vars, disk_vars, end_vars, At
<1>1. /\ th \in [Procs -> ThreadRec] /\ pg \in [Pages -> PageRec] /\ fr \in [Frames -> FrameRec]
      /\ ordered_list \in Seq(Frames)
      /\ Works(t) /\ Holds(t) /\ GoesOn(t) /\ Pins(t) /\ Faults(t)
  BY DEF TypeOK, Threads
<1>2. th[t].page \in Pages /\ th[t].page \in entries /\ OwnerOf[th[t].page] = t
  BY <1>1 DEF Works, IdlePCs, TypeOK
<1>3. pg[p].prohibit \in BOOLEAN /\ f \notin pool /\ fr[f].user = NoPage
  BY <1>1 DEF Holds, PageRec
<1>4. \A u \in Procs \ {t} : th[u].frame # f
  BY DEF HandsApart
<1>5. f \notin Range(ordered_list)
  BY <1>3 DEF FrameInv, Owned
<1>6. /\ ordered_list' \in Seq(Frames) /\ Range(ordered_list') = Range(ordered_list) \cup {f}
      /\ IsInjective(ordered_list')
  <2>1. IsInjective(ordered_list) BY DEF FrameInv
  <2>. QED BY <1>1, <1>5, <2>1, AppendedList
<1>7. \A q \in Pages : pg[q].kpage # f
  BY <1>3 DEF FrameInv, Mapped
<1>8. /\ fr' \in [Frames -> FrameRec]
      /\ \A g \in Frames \ {f} : fr'[g] = fr[g]
      /\ fr'[f].user = p /\ fr'[f].prohibit_cache = pg[p].prohibit
  BY <1>1, <1>3, InitFrames
<1>9. /\ th' \in [Procs -> ThreadRec]
      /\ \A u \in Procs \ {t} : th'[u] = th[u]
      /\ th'[t].pc = "map" /\ th'[t].page = th[t].page /\ th'[t].frame = th[t].frame
      /\ th'[t].then = th[t].then
  <2>1. "map" \in Where
    BY DEF Where
  <2>. QED BY <1>1, <1>2, <1>3, <1>4, <1>5, <1>6, <1>7, <1>8, <2>1, GotoStep
<1>10. TypeOK'
  BY <1>1, <1>2, <1>3, <1>4, <1>5, <1>6, <1>7, <1>8, <1>9 DEF TypeOK
<1>11. \A q \in Pages : Leaving(q) => Leaving(q)'
  <2>. SUFFICES ASSUME NEW q \in Pages, Leaving(q) PROVE Leaving(q)'
    OBVIOUS
  <2>1. PICK u \in Procs : th[u].pc \in {"save", "clear"} /\ Victim(u) = q
    BY DEF Leaving
  <2>2. th[u].frame \in Frames
    BY <2>1 DEF Threads, Works, HandPCs, EvictPCs
  <2>3. /\ th'[u].pc \in {"save", "clear"} /\ th'[u].frame = th[u].frame
        /\ fr'[th[u].frame].user = fr[th[u].frame].user
    BY <1>4, <1>8, <1>9, <2>1, <2>2
  <2>. QED BY <2>1, <2>3 DEF Leaving, Victim
<1>12. \A q \in Pages : Moving(q) => Moving(q)'
  <2>. SUFFICES ASSUME NEW q \in Pages, Moving(q) PROVE Moving(q)'
    OBVIOUS
  <2>1. PICK u \in Procs : \/ th[u].pc \in {"fill", "done"} /\ th[u].page = q
                           \/ th[u].pc = "clear" /\ Victim(u) = q
    BY DEF Moving
  <2>2. CASE th[u].pc \in {"fill", "done"} /\ th[u].page = q
    <3>1. th'[u].pc \in {"fill", "done"} /\ th'[u].page = q
      BY <1>4, <1>8, <1>9, <2>2
    <3>. QED BY <3>1 DEF Moving
  <2>3. CASE th[u].pc = "clear" /\ Victim(u) = q
    <3>1. th[u].frame \in Frames
      BY <2>3 DEF Threads, Works, HandPCs, EvictPCs
    <3>2. /\ th'[u].pc = "clear" /\ th'[u].frame = th[u].frame
          /\ fr'[th[u].frame].user = fr[th[u].frame].user
      BY <1>4, <1>8, <1>9, <2>3, <3>1
    <3>. QED BY <2>3, <3>2 DEF Moving, Victim
  <2>. QED BY <2>1, <2>2, <2>3
<1>13. FrameInv'
  <2>1. ASSUME NEW g \in Frames PROVE Owned(g)'
    <3>1. Owned(g) BY DEF FrameInv
    <3>2. CASE g = f BY <1>3, <1>6, <1>8, <1>9, <3>2 DEF Owned
    <3>3. CASE g # f BY <1>6, <1>7, <1>8, <1>9, <3>1, <3>3, OwnedKept, ZenonT(60)
    <3>. QED BY <3>2, <3>3
  <2>2. IsInjective(ordered_list')
    BY <1>6
  <2>3. ASSUME NEW q \in Pages, Mapped(q)' PROVE fr'[pg'[q].kpage].user = q
    BY <1>1, <1>2, <1>3, <1>4, <1>5, <1>6, <1>7, <1>8, <1>9, <2>3 DEF FrameInv, Owned, Mapped
  <2>. QED BY <2>1, <2>2, <2>3 DEF FrameInv
<1>14. SlotsAccounted'
  <2>1. \A q \in Pages : pg'[q].sector_t = pg[q].sector_t BY <1>1, <1>2, <1>3
  <2>. QED BY <2>1, SlotsKept
<1>15. (Works(t) /\ Holds(t) /\ GoesOn(t) /\ Pins(t) /\ Faults(t))'
  BY <1>1, <1>2, <1>3, <1>4, <1>5, <1>6, <1>7, <1>8, <1>9, <1>11, <1>12 DEF Works, Holds, GoesOn, Pins, Faults, Victim, Mapped, IdlePCs, LoadPCs, EvictPCs, HandPCs, WaitPCs
<1>16. ASSUME NEW u \in Procs \ {t} PROVE LockKept(u) /\ PagesKept(u) /\ HandKept(u)
  <2>1. LockKept(u)
    BY DEF LockKept
  <2>2. PagesKept(u)
    BY <1>1, <1>2, <1>3, <1>4, <1>5, <1>6, <1>7, <1>8, <1>11 DEF PagesKept
  <2>3. HandKept(u)
    BY <1>1, <1>2, <1>3, <1>4, <1>5, <1>6, <1>7, <1>8 DEF HandKept
  <2>. QED BY <2>1, <2>2, <2>3
<1>17. PagesOK'
  BY <1>1, <1>2, <1>3, <1>4, <1>5, <1>6, <1>7, <1>8, <1>9, <1>11, <1>12 DEF PagesOK, Mapped
<1>18. th'[t].frame \in {th[t].frame, NoFrame} \/ \A u \in Procs : th[u].frame # th'[t].frame
  BY <1>1, <1>2, <1>3, <1>4, <1>5, <1>6, <1>7, <1>8, <1>9
<1>. QED BY <1>9, <1>10, <1>13, <1>14, <1>15, <1>16, <1>17, <1>18, StepKeeps

\* pagedir_set_page: the page has its frame.
LEMMA SetPageKeeps ==
  ASSUME IInv, NEW t \in Procs,
         NEW f \in Frames, f = th[t].frame,
         NEW p \in Pages, p = th[t].page,
         At(t, "map"),
         SetEntry(p, f),
         Goto(t, "fill"),
         UNCHANGED <<frame_vars, entries, disk_vars, mmap_lock, end_vars, ops>>
  PROVE  IInv'
<1>. USE FramesAssumption, Types DEF IInv, vars, frame_vars, disk_vars, end_vars, At
<1>1. /\ th \in [Procs -> ThreadRec] /\ pg \in [Pages -> PageRec] /\ fr \in [Frames -> FrameRec]
      /\ ordered_list \in Seq(Frames)
      /\ Works(t) /\ Holds(t) /\ GoesOn(t) /\ Pins(t) /\ Faults(t)
  BY DEF TypeOK, Threads
<1>2. th[t].page \in Pages /\ th[t].page \in entries /\ OwnerOf[th[t].page] = t
  BY <1>1 DEF Works, IdlePCs, TypeOK
<1>3. pg[p].lock = t /\ pg[p].kpage = NoFrame /\ fr[f].user = p
  BY <1>1 DEF Works, Holds, LoadPCs
<1>4. /\ pg' \in [Pages -> PageRec]
      /\ \A q \in Pages \ {p} : pg'[q] = pg[q]
      /\ pg'[p].lock = pg[p].lock /\ pg'[p].prohibit = pg[p].prohibit
      /\ pg'[p].sector_t = pg[p].sector_t /\ pg'[p].kpage = f /\ pg'[p].user_ok
  BY <1>2, SetPages
<1>5. /\ th' \in [Procs -> ThreadRec]
      /\ \A u \in Procs \ {t} : th'[u] = th[u]
      /\ th'[t].pc = "fill" /\ th'[t].page = th[t].page /\ th'[t].frame = th[t].frame
      /\ th'[t].then = th[t].then
  <2>1. "fill" \in Where
    BY DEF Where
  <2>. QED BY <1>1, <1>2, <1>3, <1>4, <2>1, GotoStep
<1>6. TypeOK'
  BY <1>1, <1>2, <1>3, <1>4, <1>5 DEF TypeOK
<1>7. \A q \in Pages : Leaving(q) => Leaving(q)'
  <2>. SUFFICES ASSUME NEW q \in Pages, Leaving(q) PROVE Leaving(q)'
    OBVIOUS
  <2>1. PICK u \in Procs : th[u].pc \in {"save", "clear"} /\ Victim(u) = q
    BY DEF Leaving
  <2>2. th[u].frame \in Frames
    BY <2>1 DEF Threads, Works, HandPCs, EvictPCs
  <2>3. /\ th'[u].pc \in {"save", "clear"} /\ th'[u].frame = th[u].frame
        /\ fr'[th[u].frame].user = fr[th[u].frame].user
    BY <1>5, <2>1, <2>2
  <2>. QED BY <2>1, <2>3 DEF Leaving, Victim
<1>8. \A q \in Pages : Moving(q) => Moving(q)'
  <2>. SUFFICES ASSUME NEW q \in Pages, Moving(q) PROVE Moving(q)'
    OBVIOUS
  <2>1. PICK u \in Procs : \/ th[u].pc \in {"fill", "done"} /\ th[u].page = q
                           \/ th[u].pc = "clear" /\ Victim(u) = q
    BY DEF Moving
  <2>2. CASE th[u].pc \in {"fill", "done"} /\ th[u].page = q
    <3>1. th'[u].pc \in {"fill", "done"} /\ th'[u].page = q
      BY <1>5, <2>2
    <3>. QED BY <3>1 DEF Moving
  <2>3. CASE th[u].pc = "clear" /\ Victim(u) = q
    <3>1. th[u].frame \in Frames
      BY <2>3 DEF Threads, Works, HandPCs, EvictPCs
    <3>2. /\ th'[u].pc = "clear" /\ th'[u].frame = th[u].frame
          /\ fr'[th[u].frame].user = fr[th[u].frame].user
      BY <1>5, <2>3, <3>1
    <3>. QED BY <2>3, <3>2 DEF Moving, Victim
  <2>. QED BY <2>1, <2>2, <2>3
<1>9. FrameInv'
  <2>1. ASSUME NEW g \in Frames PROVE Owned(g)'
    <3>1. Owned(g) BY DEF FrameInv
    <3>2. CASE g = f BY <1>3, <1>4, <3>1, <3>2 DEF Owned, HandsApart
    <3>3. CASE g # f
      <4>1. fr[g].user # NoPage /\ pg[fr[g].user].kpage = g => fr[g].user # p BY <1>3
      <4>. QED BY <1>4, <1>5, <3>1, <3>3, <4>1, OwnedKept
    <3>. QED BY <3>2, <3>3
  <2>2. IsInjective(ordered_list')
    BY DEF FrameInv
  <2>3. ASSUME NEW q \in Pages, Mapped(q)' PROVE fr'[pg'[q].kpage].user = q
    BY <1>1, <1>2, <1>3, <1>4, <1>5, <2>3 DEF FrameInv, Owned, Mapped
  <2>. QED BY <2>1, <2>2, <2>3 DEF FrameInv
<1>10. SlotsAccounted'
  <2>1. \A q \in Pages : pg'[q].sector_t = pg[q].sector_t BY <1>1, <1>2, <1>3, <1>4
  <2>. QED BY <2>1, SlotsKept
<1>11. (Works(t) /\ Holds(t) /\ GoesOn(t) /\ Pins(t) /\ Faults(t))'
  BY <1>1, <1>2, <1>3, <1>4, <1>5, <1>7, <1>8 DEF Works, Holds, GoesOn, Pins, Faults, Victim, Mapped, IdlePCs, LoadPCs, EvictPCs, HandPCs, WaitPCs
<1>12. ASSUME NEW u \in Procs \ {t} PROVE LockKept(u) /\ PagesKept(u) /\ HandKept(u)
  <2>1. LockKept(u)
    BY <1>1, <1>2, <1>3, <1>4 DEF LockKept
  <2>2. PagesKept(u)
    BY <1>1, <1>2, <1>3, <1>4, <1>7 DEF PagesKept
  <2>3. HandKept(u)
    BY DEF HandKept
  <2>. QED BY <2>1, <2>2, <2>3
<1>13. PagesOK'
  <2>1. Moving(p)' BY <1>5 DEF Moving
  <2>2. \A q \in Pages \ {p} : pg'[q] = pg[q] BY <1>4
  <2>. QED BY <1>2, <1>4, <1>7, <1>8, <2>1, <2>2 DEF PagesOK, Mapped
<1>14. th'[t].frame \in {th[t].frame, NoFrame} \/ \A u \in Procs : th[u].frame # th'[t].frame
  BY <1>1, <1>2, <1>3, <1>4, <1>5
<1>. QED BY <1>5, <1>6, <1>9, <1>10, <1>11, <1>12, <1>13, <1>14, StepKeeps

\* The slot and the lock of the page are given back.
LEMMA ActivatedKeeps ==
  ASSUME IInv, NEW t \in Procs,
         NEW f \in Frames, f = th[t].frame,
         NEW p \in Pages, p = th[t].page,
         NEW n, n = th[t].then,
         At(t, "done"),
         used' = used \ {pg[p].sector_t},
         LeavePage(p),
         GotoFrame(t, n, NoFrame),
         UNCHANGED <<frame_vars, entries, swap, file, last, mmap_lock, end_vars, ops>>
  PROVE  IInv'
<1>. USE FramesAssumption, Types DEF IInv, vars, frame_vars, disk_vars, end_vars, At
<1>1. /\ th \in [Procs -> ThreadRec] /\ pg \in [Pages -> PageRec] /\ fr \in [Frames -> FrameRec]
      /\ ordered_list \in Seq(Frames)
      /\ Works(t) /\ Holds(t) /\ GoesOn(t) /\ Pins(t) /\ Faults(t)
  BY DEF TypeOK, Threads
<1>2. th[t].page \in Pages /\ th[t].page \in entries /\ OwnerOf[th[t].page] = t
  BY <1>1 DEF Works, IdlePCs, TypeOK
<1>3. /\ pg[p].lock = t /\ pg[p].kpage = f /\ fr[f].user = p
      /\ n \in {"user", "prohibit", "transfer", "argument", "writeback"}
  BY <1>1 DEF Works, Holds, GoesOn, FrameInv, Mapped, WaitPCs
<1>4. /\ pg' \in [Pages -> PageRec]
      /\ \A q \in Pages \ {p} : pg'[q] = pg[q]
      /\ pg'[p].lock = Nobody /\ pg'[p].prohibit = pg[p].prohibit
      /\ pg'[p].sector_t = NoSlot /\ pg'[p].kpage = pg[p].kpage
      /\ pg'[p].user_ok = pg[p].user_ok
  BY <1>1, ActivatedPages
<1>5. /\ th' \in [Procs -> ThreadRec]
      /\ \A u \in Procs \ {t} : th'[u] = th[u]
      /\ th'[t].pc = n /\ th'[t].page = th[t].page /\ th'[t].frame = NoFrame
      /\ th'[t].then = n
  <2>1. n \in Where
    BY <1>3 DEF Where
  <2>. QED BY <1>1, <1>2, <1>3, <1>4, <2>1, GotoFrameStep
<1>6. TypeOK'
  BY <1>1, <1>2, <1>3, <1>4, <1>5 DEF TypeOK
<1>7. \A q \in Pages : Leaving(q) => Leaving(q)'
  <2>. SUFFICES ASSUME NEW q \in Pages, Leaving(q) PROVE Leaving(q)'
    OBVIOUS
  <2>1. PICK u \in Procs : th[u].pc \in {"save", "clear"} /\ Victim(u) = q
    BY DEF Leaving
  <2>2. th[u].frame \in Frames
    BY <2>1 DEF Threads, Works, HandPCs, EvictPCs
  <2>3. /\ th'[u].pc \in {"save", "clear"} /\ th'[u].frame = th[u].frame
        /\ fr'[th[u].frame].user = fr[th[u].frame].user
    BY <1>5, <2>1, <2>2
  <2>. QED BY <2>1, <2>3 DEF Leaving, Victim
<1>8. \A q \in Pages \ {p} : Moving(q) => Moving(q)'
  <2>. SUFFICES ASSUME NEW q \in Pages \ {p}, Moving(q) PROVE Moving(q)'
    OBVIOUS
  <2>1. PICK u \in Procs : \/ th[u].pc \in {"fill", "done"} /\ th[u].page = q
                           \/ th[u].pc = "clear" /\ Victim(u) = q
    BY DEF Moving
  <2>2. CASE th[u].pc \in {"fill", "done"} /\ th[u].page = q
    <3>1. th'[u].pc \in {"fill", "done"} /\ th'[u].page = q
      BY <1>5, <2>2
    <3>. QED BY <3>1 DEF Moving
  <2>3. CASE th[u].pc = "clear" /\ Victim(u) = q
    <3>1. th[u].frame \in Frames
      BY <2>3 DEF Threads, Works, HandPCs, EvictPCs
    <3>2. /\ th'[u].pc = "clear" /\ th'[u].frame = th[u].frame
          /\ fr'[th[u].frame].user = fr[th[u].frame].user
      BY <1>5, <2>3, <3>1
    <3>. QED BY <2>3, <3>2 DEF Moving, Victim
  <2>. QED BY <2>1, <2>2, <2>3
<1>9. FrameInv'
  <2>1. ASSUME NEW g \in Frames PROVE Owned(g)'
    <3>1. Owned(g) BY DEF FrameInv
    <3>. QED BY <1>4, <1>5, <3>1, OwnedKept
  <2>2. IsInjective(ordered_list')
    BY DEF FrameInv
  <2>3. ASSUME NEW q \in Pages, Mapped(q)' PROVE fr'[pg'[q].kpage].user = q
    <3>1. \A r \in Pages : pg'[r].kpage = pg[r].kpage BY <1>4, <1>1, <1>2, <1>3
    <3>2. \A g \in Frames : fr'[g].user = fr[g].user OBVIOUS
    <3>. QED BY <2>3, <3>1, <3>2, MapKept
  <2>. QED BY <2>1, <2>2, <2>3 DEF FrameInv
<1>10. SlotsAccounted'
  BY <1>4, SlotGiven
<1>11. (Works(t) /\ Holds(t) /\ GoesOn(t) /\ Pins(t) /\ Faults(t))'
  <2>1. Works(t)'
    BY <1>1, <1>2, <1>3, <1>4, <1>5 DEF Works, LoadPCs, EvictPCs, HandPCs
  <2>2. Holds(t)'
    BY <1>3, <1>5 DEF Holds, LoadPCs
  <2>3. GoesOn(t)'
    BY <1>3, <1>5 DEF GoesOn, WaitPCs, LoadPCs
  <2>4. Pins(t)'
    BY <1>1, <1>3, <1>4, <1>5 DEF Pins, WaitPCs, LoadPCs
  <2>5. Faults(t)'
    BY <1>3, <1>5 DEF Faults
  <2>. QED BY <2>1, <2>2, <2>3, <2>4, <2>5
<1>12. ASSUME NEW u \in Procs \ {t} PROVE LockKept(u) /\ PagesKept(u) /\ HandKept(u)
  <2>1. LockKept(u)
    BY <1>1, <1>2, <1>3, <1>4 DEF LockKept
  <2>2. PagesKept(u)
    BY <1>1, <1>2, <1>3, <1>4, <1>7 DEF PagesKept
  <2>3. HandKept(u)
    BY DEF HandKept
  <2>. QED BY <2>1, <2>2, <2>3
<1>13. PagesOK'
  <2>1. \A q \in Pages : /\ pg'[q].kpage = pg[q].kpage /\ pg'[q].user_ok = pg[q].user_ok
                          /\ pg'[q].sector_t \in {pg[q].sector_t, NoSlot}
    BY <1>2, <1>4
  <2>2. \A q \in Pages : Moving(q) /\ pg'[q].sector_t # NoSlot => Moving(q)'
    BY <1>4, <1>8
  <2>. QED BY <1>7, <2>1, <2>2, PagesOKKept
<1>14. th'[t].frame \in {th[t].frame, NoFrame} \/ \A u \in Procs : th[u].frame # th'[t].frame
  BY <1>1, <1>2, <1>3, <1>4, <1>5
<1>. QED BY <1>5, <1>6, <1>9, <1>10, <1>11, <1>12, <1>13, <1>14, StepKeeps

\* set_prohibit sets the flag of the page.
LEMMA ProhibitKeeps ==
  ASSUME IInv, NEW t \in Procs,
         NEW p \in Pages, p = th[t].page,
         NEW n \in {"writeback", "argument"},
         At(t, "prohibit"),
         ProhibitPage(p, TRUE),
         GotoWith(t, "plock", p, n),
         UNCHANGED <<frame_vars, entries, disk_vars, mmap_lock, end_vars, ops>>
  PROVE  IInv'
<1>. USE FramesAssumption, Types DEF IInv, vars, frame_vars, disk_vars, end_vars, At
<1>1. /\ th \in [Procs -> ThreadRec] /\ pg \in [Pages -> PageRec] /\ fr \in [Frames -> FrameRec]
      /\ ordered_list \in Seq(Frames)
      /\ Works(t) /\ Holds(t) /\ GoesOn(t) /\ Pins(t) /\ Faults(t)
  BY DEF TypeOK, Threads
<1>2. th[t].page \in Pages /\ th[t].page \in entries /\ OwnerOf[th[t].page] = t
  BY <1>1 DEF Works, IdlePCs, TypeOK
<1>3. /\ pg' \in [Pages -> PageRec]
      /\ \A q \in Pages \ {p} : pg'[q] = pg[q]
      /\ pg'[p].lock = pg[p].lock /\ pg'[p].prohibit = TRUE
      /\ pg'[p].sector_t = pg[p].sector_t /\ pg'[p].kpage = pg[p].kpage
      /\ pg'[p].user_ok = pg[p].user_ok
  BY <1>1, ProhibitPages
<1>4. /\ th' \in [Procs -> ThreadRec]
      /\ \A u \in Procs \ {t} : th'[u] = th[u]
      /\ th'[t].pc = "plock" /\ th'[t].page = p /\ th'[t].frame = th[t].frame
      /\ th'[t].then = n
  <2>1. "plock" \in Where /\ n \in Where
    BY DEF Where
  <2>. QED BY <1>1, <1>2, <1>3, <2>1, GotoWithStep
<1>5. TypeOK'
  BY <1>1, <1>2, <1>3, <1>4 DEF TypeOK
<1>6. \A q \in Pages : Leaving(q) => Leaving(q)'
  <2>. SUFFICES ASSUME NEW q \in Pages, Leaving(q) PROVE Leaving(q)'
    OBVIOUS
  <2>1. PICK u \in Procs : th[u].pc \in {"save", "clear"} /\ Victim(u) = q
    BY DEF Leaving
  <2>2. th[u].frame \in Frames
    BY <2>1 DEF Threads, Works, HandPCs, EvictPCs
  <2>3. /\ th'[u].pc \in {"save", "clear"} /\ th'[u].frame = th[u].frame
        /\ fr'[th[u].frame].user = fr[th[u].frame].user
    BY <1>4, <2>1, <2>2
  <2>. QED BY <2>1, <2>3 DEF Leaving, Victim
<1>7. \A q \in Pages : Moving(q) => Moving(q)'
  <2>. SUFFICES ASSUME NEW q \in Pages, Moving(q) PROVE Moving(q)'
    OBVIOUS
  <2>1. PICK u \in Procs : \/ th[u].pc \in {"fill", "done"} /\ th[u].page = q
                           \/ th[u].pc = "clear" /\ Victim(u) = q
    BY DEF Moving
  <2>2. CASE th[u].pc \in {"fill", "done"} /\ th[u].page = q
    <3>1. th'[u].pc \in {"fill", "done"} /\ th'[u].page = q
      BY <1>4, <2>2
    <3>. QED BY <3>1 DEF Moving
  <2>3. CASE th[u].pc = "clear" /\ Victim(u) = q
    <3>1. th[u].frame \in Frames
      BY <2>3 DEF Threads, Works, HandPCs, EvictPCs
    <3>2. /\ th'[u].pc = "clear" /\ th'[u].frame = th[u].frame
          /\ fr'[th[u].frame].user = fr[th[u].frame].user
      BY <1>4, <2>3, <3>1
    <3>. QED BY <2>3, <3>2 DEF Moving, Victim
  <2>. QED BY <2>1, <2>2, <2>3
<1>8. FrameInv'
  <2>1. ASSUME NEW g \in Frames PROVE Owned(g)'
    <3>1. Owned(g) BY DEF FrameInv
    <3>2. \A q \in Pages : pg'[q].kpage = pg[q].kpage BY <1>3
    <3>3. \A u \in Procs :
            /\ th'[u].frame = th[u].frame
            /\ th[u].pc \in {"init", "map", "unlist"} => th'[u].pc = th[u].pc
      BY <1>1, <1>4
    <3>. QED BY <3>1, <3>2, <3>3, OwnedKept
  <2>2. IsInjective(ordered_list')
    BY DEF FrameInv
  <2>3. ASSUME NEW q \in Pages, Mapped(q)' PROVE fr'[pg'[q].kpage].user = q
    <3>1. \A r \in Pages : pg'[r].kpage = pg[r].kpage BY <1>3, <1>1, <1>2, <1>3
    <3>2. \A g \in Frames : fr'[g].user = fr[g].user OBVIOUS
    <3>. QED BY <2>3, <3>1, <3>2, MapKept
  <2>. QED BY <2>1, <2>2, <2>3 DEF FrameInv
<1>9. SlotsAccounted'
  <2>1. \A q \in Pages : pg'[q].sector_t = pg[q].sector_t BY <1>1, <1>2, <1>3, <1>3
  <2>. QED BY <2>1, SlotsKept
<1>10. (Works(t) /\ Holds(t) /\ GoesOn(t) /\ Pins(t) /\ Faults(t))'
  BY <1>1, <1>2, <1>3, <1>4, <1>6, <1>7 DEF Works, Holds, GoesOn, Pins, Faults, Victim, Mapped, IdlePCs, LoadPCs, EvictPCs, HandPCs, WaitPCs
<1>11. ASSUME NEW u \in Procs \ {t} PROVE LockKept(u) /\ PagesKept(u) /\ HandKept(u)
  <2>1. LockKept(u)
    BY <1>1, <1>2, <1>3 DEF LockKept
  <2>2. PagesKept(u)
    BY <1>2, <1>3, <1>6 DEF PagesKept
  <2>3. HandKept(u)
    BY DEF HandKept
  <2>. QED BY <2>1, <2>2, <2>3
<1>12. PagesOK'
  BY <1>1, <1>2, <1>3, <1>4, <1>6, <1>7 DEF PagesOK, Mapped
<1>13. th'[t].frame \in {th[t].frame, NoFrame} \/ \A u \in Procs : th[u].frame # th'[t].frame
  BY <1>1, <1>2, <1>3, <1>4
<1>. QED BY <1>4, <1>5, <1>8, <1>9, <1>10, <1>11, <1>12, <1>13, StepKeeps

\* set_prohibit sets the flag of the frame.
LEMMA PinKeeps ==
  ASSUME IInv, NEW t \in Procs,
         NEW p \in Pages, p = th[t].page,
         NEW f \in Frames, f = pg[p].kpage,
         NEW n, n = th[t].then,
         At(t, "plock"), pg[p].lock = Nobody,
         ProhibitFrame(f, TRUE),
         Goto(t, n),
         UNCHANGED <<ordered_list, list_lock, pool, entries, pg, disk_vars, mmap_lock, end_vars, ops>>
  PROVE  IInv'
<1>. USE FramesAssumption, Types DEF IInv, vars, frame_vars, disk_vars, end_vars, At
<1>1. /\ th \in [Procs -> ThreadRec] /\ pg \in [Pages -> PageRec] /\ fr \in [Frames -> FrameRec]
      /\ ordered_list \in Seq(Frames)
      /\ Works(t) /\ Holds(t) /\ GoesOn(t) /\ Pins(t) /\ Faults(t)
  BY DEF TypeOK, Threads
<1>2. th[t].page \in Pages /\ th[t].page \in entries /\ OwnerOf[th[t].page] = t
  BY <1>1 DEF Works, IdlePCs, TypeOK
<1>3. fr[f].user = p /\ n \in {"argument", "writeback"} /\ pg[p].lock \notin Procs
  BY <1>1 DEF FrameInv, Mapped, GoesOn
<1>4. \A u \in Procs : th[u].frame # f
  BY <1>3, HolderLocks
<1>5. /\ fr' \in [Frames -> FrameRec]
      /\ \A g \in Frames \ {f} : fr'[g] = fr[g]
      /\ fr'[f].user = fr[f].user /\ fr'[f].prohibit_cache = TRUE
  BY <1>2, ProhibitFrames
<1>6. /\ th' \in [Procs -> ThreadRec]
      /\ \A u \in Procs \ {t} : th'[u] = th[u]
      /\ th'[t].pc = n /\ th'[t].page = th[t].page /\ th'[t].frame = th[t].frame
      /\ th'[t].then = n
  <2>1. n \in Where
    BY <1>3 DEF Where
  <2>. QED BY <1>1, <1>2, <1>3, <1>4, <1>5, <2>1, GotoStep
<1>7. TypeOK'
  BY <1>1, <1>2, <1>3, <1>4, <1>5, <1>6 DEF TypeOK
<1>8. \A q \in Pages : Leaving(q) => Leaving(q)'
  <2>. SUFFICES ASSUME NEW q \in Pages, Leaving(q) PROVE Leaving(q)'
    OBVIOUS
  <2>1. PICK u \in Procs : th[u].pc \in {"save", "clear"} /\ Victim(u) = q
    BY DEF Leaving
  <2>2. th[u].frame \in Frames
    BY <2>1 DEF Threads, Works, HandPCs, EvictPCs
  <2>3. /\ th'[u].pc \in {"save", "clear"} /\ th'[u].frame = th[u].frame
        /\ fr'[th[u].frame].user = fr[th[u].frame].user
    BY <1>1, <1>5, <1>6, <2>1, <2>2
  <2>. QED BY <2>1, <2>3 DEF Leaving, Victim
<1>9. \A q \in Pages : Moving(q) => Moving(q)'
  <2>. SUFFICES ASSUME NEW q \in Pages, Moving(q) PROVE Moving(q)'
    OBVIOUS
  <2>1. PICK u \in Procs : \/ th[u].pc \in {"fill", "done"} /\ th[u].page = q
                           \/ th[u].pc = "clear" /\ Victim(u) = q
    BY DEF Moving
  <2>2. CASE th[u].pc \in {"fill", "done"} /\ th[u].page = q
    <3>1. th'[u].pc \in {"fill", "done"} /\ th'[u].page = q
      BY <1>1, <1>5, <1>6, <2>2
    <3>. QED BY <3>1 DEF Moving
  <2>3. CASE th[u].pc = "clear" /\ Victim(u) = q
    <3>1. th[u].frame \in Frames
      BY <2>3 DEF Threads, Works, HandPCs, EvictPCs
    <3>2. /\ th'[u].pc = "clear" /\ th'[u].frame = th[u].frame
          /\ fr'[th[u].frame].user = fr[th[u].frame].user
      BY <1>1, <1>5, <1>6, <2>3, <3>1
    <3>. QED BY <2>3, <3>2 DEF Moving, Victim
  <2>. QED BY <2>1, <2>2, <2>3
<1>10. FrameInv'
  <2>1. ASSUME NEW g \in Frames PROVE Owned(g)'
    <3>1. Owned(g) BY DEF FrameInv
    <3>2. fr'[g].user = fr[g].user BY <1>5
    <3>. QED BY <1>1, <1>6, <3>1, <3>2, OwnedKept
  <2>2. IsInjective(ordered_list')
    BY DEF FrameInv
  <2>3. ASSUME NEW q \in Pages, Mapped(q)' PROVE fr'[pg'[q].kpage].user = q
    <3>1. \A r \in Pages : pg'[r].kpage = pg[r].kpage BY <1>1, <1>2, <1>3
    <3>2. \A g \in Frames : fr'[g].user = fr[g].user BY <1>5
    <3>. QED BY <2>3, <3>1, <3>2, MapKept
  <2>. QED BY <2>1, <2>2, <2>3 DEF FrameInv
<1>11. SlotsAccounted'
  <2>1. \A q \in Pages : pg'[q].sector_t = pg[q].sector_t BY <1>1, <1>2, <1>3
  <2>. QED BY <2>1, SlotsKept
<1>12. (Works(t) /\ Holds(t) /\ GoesOn(t) /\ Pins(t) /\ Faults(t))'
  <2>1. Works(t)'
    BY <1>1, <1>2, <1>3, <1>6 DEF Works, LoadPCs, EvictPCs, HandPCs
  <2>2. Holds(t)'
    BY <1>3, <1>6 DEF Holds, LoadPCs
  <2>3. GoesOn(t)'
    BY <1>3, <1>6 DEF GoesOn, WaitPCs, LoadPCs
  <2>4. Pins(t)'
    BY <1>1, <1>3, <1>5, <1>6 DEF Pins, WaitPCs, LoadPCs
  <2>5. Faults(t)'
    BY <1>3, <1>6 DEF Faults
  <2>. QED BY <2>1, <2>2, <2>3, <2>4, <2>5
<1>13. ASSUME NEW u \in Procs \ {t} PROVE LockKept(u) /\ PagesKept(u) /\ HandKept(u)
  <2>1. LockKept(u)
    BY DEF LockKept
  <2>2. PagesKept(u)
    BY <1>2, <1>5, <1>8 DEF PagesKept
  <2>3. HandKept(u)
    BY <1>4, <1>5 DEF HandKept
  <2>. QED BY <2>1, <2>2, <2>3
<1>14. PagesOK'
  BY <1>1, <1>2, <1>3, <1>4, <1>5, <1>6, <1>8, <1>9 DEF PagesOK, Mapped
<1>15. th'[t].frame \in {th[t].frame, NoFrame} \/ \A u \in Procs : th[u].frame # th'[t].frame
  BY <1>1, <1>2, <1>3, <1>4, <1>5, <1>6
<1>. QED BY <1>6, <1>7, <1>10, <1>11, <1>12, <1>13, <1>14, <1>15, StepKeeps

\* set_prohibit takes the flags back, from the page and its frame.
LEMMA PermitMappedKeeps ==
  ASSUME IInv, NEW t \in Procs,
         NEW p \in Pages, p = th[t].page,
         NEW f \in Frames, f = pg[p].kpage,
         NEW n, n = th[t].then,
         At(t, "permit"), pg[p].lock = Nobody,
         ProhibitPage(p, FALSE),
         ProhibitFrame(f, FALSE),
         Goto(t, n),
         UNCHANGED <<ordered_list, list_lock, pool, entries, disk_vars, mmap_lock, end_vars, ops>>
  PROVE  IInv'
<1>. USE FramesAssumption, Types DEF IInv, vars, frame_vars, disk_vars, end_vars, At
<1>1. /\ th \in [Procs -> ThreadRec] /\ pg \in [Pages -> PageRec] /\ fr \in [Frames -> FrameRec]
      /\ ordered_list \in Seq(Frames)
      /\ Works(t) /\ Holds(t) /\ GoesOn(t) /\ Pins(t) /\ Faults(t)
  BY DEF TypeOK, Threads
<1>2. th[t].page \in Pages /\ th[t].page \in entries /\ OwnerOf[th[t].page] = t
  BY <1>1 DEF Works, IdlePCs, TypeOK
<1>3. fr[f].user = p /\ n \in {"transfer", "user", "destroy"} /\ pg[p].lock \notin Procs
  BY <1>1 DEF FrameInv, Mapped, GoesOn
<1>4. \A u \in Procs : th[u].frame # f
  BY <1>3, HolderLocks
<1>5. \A q \in Pages \ {p} : pg[q].kpage # f
  BY <1>3 DEF FrameInv, Mapped
<1>6. /\ pg' \in [Pages -> PageRec]
      /\ \A q \in Pages \ {p} : pg'[q] = pg[q]
      /\ pg'[p].lock = pg[p].lock /\ pg'[p].prohibit = FALSE
      /\ pg'[p].sector_t = pg[p].sector_t /\ pg'[p].kpage = pg[p].kpage
      /\ pg'[p].user_ok = pg[p].user_ok
  BY <1>2, ProhibitPages
<1>7. /\ fr' \in [Frames -> FrameRec]
      /\ \A g \in Frames \ {f} : fr'[g] = fr[g]
      /\ fr'[f].user = fr[f].user /\ fr'[f].prohibit_cache = FALSE
  BY <1>2, ProhibitFrames
<1>8. /\ th' \in [Procs -> ThreadRec]
      /\ \A u \in Procs \ {t} : th'[u] = th[u]
      /\ th'[t].pc = n /\ th'[t].page = th[t].page /\ th'[t].frame = th[t].frame
      /\ th'[t].then = n
  <2>1. n \in Where
    BY <1>3 DEF Where
  <2>. QED BY <1>1, <1>2, <1>3, <1>4, <1>5, <1>6, <1>7, <2>1, GotoStep
<1>9. TypeOK'
  BY <1>1, <1>2, <1>3, <1>4, <1>5, <1>6, <1>7, <1>8 DEF TypeOK
<1>10. \A q \in Pages : Leaving(q) => Leaving(q)'
  <2>. SUFFICES ASSUME NEW q \in Pages, Leaving(q) PROVE Leaving(q)'
    OBVIOUS
  <2>1. PICK u \in Procs : th[u].pc \in {"save", "clear"} /\ Victim(u) = q
    BY DEF Leaving
  <2>2. th[u].frame \in Frames
    BY <2>1 DEF Threads, Works, HandPCs, EvictPCs
  <2>3. /\ th'[u].pc \in {"save", "clear"} /\ th'[u].frame = th[u].frame
        /\ fr'[th[u].frame].user = fr[th[u].frame].user
    BY <1>1, <1>7, <1>8, <2>1, <2>2
  <2>. QED BY <2>1, <2>3 DEF Leaving, Victim
<1>11. \A q \in Pages : Moving(q) => Moving(q)'
  <2>. SUFFICES ASSUME NEW q \in Pages, Moving(q) PROVE Moving(q)'
    OBVIOUS
  <2>1. PICK u \in Procs : \/ th[u].pc \in {"fill", "done"} /\ th[u].page = q
                           \/ th[u].pc = "clear" /\ Victim(u) = q
    BY DEF Moving
  <2>2. CASE th[u].pc \in {"fill", "done"} /\ th[u].page = q
    <3>1. th'[u].pc \in {"fill", "done"} /\ th'[u].page = q
      BY <1>1, <1>7, <1>8, <2>2
    <3>. QED BY <3>1 DEF Moving
  <2>3. CASE th[u].pc = "clear" /\ Victim(u) = q
    <3>1. th[u].frame \in Frames
      BY <2>3 DEF Threads, Works, HandPCs, EvictPCs
    <3>2. /\ th'[u].pc = "clear" /\ th'[u].frame = th[u].frame
          /\ fr'[th[u].frame].user = fr[th[u].frame].user
      BY <1>1, <1>7, <1>8, <2>3, <3>1
    <3>. QED BY <2>3, <3>2 DEF Moving, Victim
  <2>. QED BY <2>1, <2>2, <2>3
<1>12. FrameInv'
  <2>1. ASSUME NEW g \in Frames PROVE Owned(g)'
    <3>1. Owned(g) BY DEF FrameInv
    <3>2. fr'[g].user = fr[g].user BY <1>7
    <3>3. \A q \in Pages : pg'[q].kpage = pg[q].kpage BY <1>6
    <3>. QED BY <1>1, <1>8, <3>1, <3>2, <3>3, OwnedKept
  <2>2. IsInjective(ordered_list')
    BY DEF FrameInv
  <2>3. ASSUME NEW q \in Pages, Mapped(q)' PROVE fr'[pg'[q].kpage].user = q
    <3>1. \A r \in Pages : pg'[r].kpage = pg[r].kpage BY <1>6, <1>1, <1>2, <1>3
    <3>2. \A g \in Frames : fr'[g].user = fr[g].user BY <1>7
    <3>. QED BY <2>3, <3>1, <3>2, MapKept
  <2>. QED BY <2>1, <2>2, <2>3 DEF FrameInv
<1>13. SlotsAccounted'
  <2>1. \A q \in Pages : pg'[q].sector_t = pg[q].sector_t BY <1>1, <1>2, <1>3, <1>6
  <2>. QED BY <2>1, SlotsKept
<1>14. (Works(t) /\ Holds(t) /\ GoesOn(t) /\ Pins(t) /\ Faults(t))'
  <2>1. Works(t)'
    BY <1>1, <1>2, <1>3, <1>4, <1>8 DEF Works, LoadPCs, EvictPCs, HandPCs, IdlePCs
  <2>2. Holds(t)'
    BY <1>3, <1>8 DEF Holds, LoadPCs
  <2>3. GoesOn(t)'
    BY <1>3, <1>8 DEF GoesOn, WaitPCs, LoadPCs
  <2>4. Pins(t)'
    BY <1>1, <1>3, <1>8 DEF Pins, WaitPCs, LoadPCs
  <2>5. Faults(t)'
    BY <1>3, <1>8 DEF Faults
  <2>. QED BY <2>1, <2>2, <2>3, <2>4, <2>5
<1>15. ASSUME NEW u \in Procs \ {t} PROVE LockKept(u) /\ PagesKept(u) /\ HandKept(u)
  <2>1. LockKept(u)
    BY <1>1, <1>2, <1>3, <1>4, <1>5, <1>6, <1>7 DEF LockKept
  <2>2. PagesKept(u)
    <3>1. ASSUME NEW q \in Pages, OwnerOf[q] = u
          PROVE  pg'[q] = pg[q] /\ pg[q].kpage # f /\ (Leaving(q) => Leaving(q)')
      BY <1>2, <1>5, <1>6, <1>10, <3>1
    <3>2. \A g \in Frames \ {f} : fr'[g] = fr[g] BY <1>7
    <3>. QED BY <3>1, <3>2 DEF PagesKept
  <2>3. HandKept(u)
    BY <1>4, <1>7 DEF HandKept
  <2>. QED BY <2>1, <2>2, <2>3
<1>16. PagesOK'
  BY <1>1, <1>2, <1>3, <1>4, <1>5, <1>6, <1>7, <1>8, <1>10, <1>11 DEF PagesOK, Mapped
<1>17. th'[t].frame \in {th[t].frame, NoFrame} \/ \A u \in Procs : th[u].frame # th'[t].frame
  BY <1>1, <1>2, <1>3, <1>4, <1>5, <1>6, <1>7, <1>8
<1>. QED BY <1>8, <1>9, <1>12, <1>13, <1>14, <1>15, <1>16, <1>17, StepKeeps

\* set_prohibit takes the flag of the page back.
LEMMA PermitAbsentKeeps ==
  ASSUME IInv, NEW t \in Procs,
         NEW p \in Pages, p = th[t].page,
         NEW n, n = th[t].then,
         At(t, "permit"), ~ Mapped(p),
         ProhibitPage(p, FALSE),
         Goto(t, n),
         UNCHANGED <<frame_vars, entries, disk_vars, mmap_lock, end_vars, ops>>
  PROVE  IInv'
<1>. USE FramesAssumption, Types DEF IInv, vars, frame_vars, disk_vars, end_vars, At, Mapped
<1>1. /\ th \in [Procs -> ThreadRec] /\ pg \in [Pages -> PageRec] /\ fr \in [Frames -> FrameRec]
      /\ ordered_list \in Seq(Frames)
      /\ Works(t) /\ Holds(t) /\ GoesOn(t) /\ Pins(t) /\ Faults(t)
  BY DEF TypeOK, Threads
<1>2. th[t].page \in Pages /\ th[t].page \in entries /\ OwnerOf[th[t].page] = t
  BY <1>1 DEF Works, IdlePCs, TypeOK
<1>3. n \in {"transfer", "user", "destroy"}
  BY <1>1 DEF GoesOn
<1>4. /\ pg' \in [Pages -> PageRec]
      /\ \A q \in Pages \ {p} : pg'[q] = pg[q]
      /\ pg'[p].lock = pg[p].lock /\ pg'[p].prohibit = FALSE
      /\ pg'[p].sector_t = pg[p].sector_t /\ pg'[p].kpage = pg[p].kpage
      /\ pg'[p].user_ok = pg[p].user_ok
  BY <1>2, ProhibitPages
<1>5. /\ th' \in [Procs -> ThreadRec]
      /\ \A u \in Procs \ {t} : th'[u] = th[u]
      /\ th'[t].pc = n /\ th'[t].page = th[t].page /\ th'[t].frame = th[t].frame
      /\ th'[t].then = n
  <2>1. n \in Where
    BY <1>3 DEF Where
  <2>. QED BY <1>1, <1>2, <1>3, <1>4, <2>1, GotoStep
<1>6. TypeOK'
  BY <1>1, <1>2, <1>3, <1>4, <1>5 DEF TypeOK
<1>7. \A q \in Pages : Leaving(q) => Leaving(q)'
  <2>. SUFFICES ASSUME NEW q \in Pages, Leaving(q) PROVE Leaving(q)'
    OBVIOUS
  <2>1. PICK u \in Procs : th[u].pc \in {"save", "clear"} /\ Victim(u) = q
    BY DEF Leaving
  <2>2. th[u].frame \in Frames
    BY <2>1 DEF Threads, Works, HandPCs, EvictPCs
  <2>3. /\ th'[u].pc \in {"save", "clear"} /\ th'[u].frame = th[u].frame
        /\ fr'[th[u].frame].user = fr[th[u].frame].user
    BY <1>1, <1>5, <2>1, <2>2
  <2>. QED BY <2>1, <2>3 DEF Leaving, Victim
<1>8. \A q \in Pages : Moving(q) => Moving(q)'
  <2>. SUFFICES ASSUME NEW q \in Pages, Moving(q) PROVE Moving(q)'
    OBVIOUS
  <2>1. PICK u \in Procs : \/ th[u].pc \in {"fill", "done"} /\ th[u].page = q
                           \/ th[u].pc = "clear" /\ Victim(u) = q
    BY DEF Moving
  <2>2. CASE th[u].pc \in {"fill", "done"} /\ th[u].page = q
    <3>1. th'[u].pc \in {"fill", "done"} /\ th'[u].page = q
      BY <1>1, <1>5, <2>2
    <3>. QED BY <3>1 DEF Moving
  <2>3. CASE th[u].pc = "clear" /\ Victim(u) = q
    <3>1. th[u].frame \in Frames
      BY <2>3 DEF Threads, Works, HandPCs, EvictPCs
    <3>2. /\ th'[u].pc = "clear" /\ th'[u].frame = th[u].frame
          /\ fr'[th[u].frame].user = fr[th[u].frame].user
      BY <1>1, <1>5, <2>3, <3>1
    <3>. QED BY <2>3, <3>2 DEF Moving, Victim
  <2>. QED BY <2>1, <2>2, <2>3
<1>9. FrameInv'
  <2>1. ASSUME NEW g \in Frames PROVE Owned(g)'
    <3>1. Owned(g) BY DEF FrameInv
    <3>2. \A q \in Pages : pg'[q].kpage = pg[q].kpage BY <1>4
    <3>3. \A u \in Procs :
            /\ th'[u].frame = th[u].frame
            /\ th[u].pc \in {"init", "map", "unlist"} => th'[u].pc = th[u].pc
      BY <1>1, <1>5
    <3>. QED BY <3>1, <3>2, <3>3, OwnedKept
  <2>2. IsInjective(ordered_list')
    BY DEF FrameInv
  <2>3. ASSUME NEW q \in Pages, Mapped(q)' PROVE fr'[pg'[q].kpage].user = q
    <3>1. \A r \in Pages : pg'[r].kpage = pg[r].kpage BY <1>4, <1>1, <1>2, <1>3
    <3>2. \A g \in Frames : fr'[g].user = fr[g].user OBVIOUS
    <3>. QED BY <2>3, <3>1, <3>2, MapKept
  <2>. QED BY <2>1, <2>2, <2>3 DEF FrameInv
<1>10. SlotsAccounted'
  <2>1. \A q \in Pages : pg'[q].sector_t = pg[q].sector_t BY <1>1, <1>2, <1>3, <1>4
  <2>. QED BY <2>1, SlotsKept
<1>11. (Works(t) /\ Holds(t) /\ GoesOn(t) /\ Pins(t) /\ Faults(t))'
  <2>1. Works(t)'
    BY <1>1, <1>2, <1>3, <1>5 DEF Works, LoadPCs, EvictPCs, HandPCs, IdlePCs
  <2>2. Holds(t)'
    BY <1>3, <1>5 DEF Holds, LoadPCs
  <2>3. GoesOn(t)'
    BY <1>3, <1>5 DEF GoesOn, WaitPCs, LoadPCs
  <2>4. Pins(t)'
    BY <1>1, <1>3, <1>5 DEF Pins, WaitPCs, LoadPCs
  <2>5. Faults(t)'
    BY <1>3, <1>5 DEF Faults
  <2>. QED BY <2>1, <2>2, <2>3, <2>4, <2>5
<1>12. ASSUME NEW u \in Procs \ {t} PROVE LockKept(u) /\ PagesKept(u) /\ HandKept(u)
  <2>1. LockKept(u)
    BY <1>1, <1>2, <1>3, <1>4 DEF LockKept
  <2>2. PagesKept(u)
    BY <1>2, <1>4, <1>7 DEF PagesKept
  <2>3. HandKept(u)
    BY DEF HandKept
  <2>. QED BY <2>1, <2>2, <2>3
<1>13. PagesOK'
  BY <1>1, <1>2, <1>3, <1>4, <1>5, <1>7, <1>8 DEF PagesOK, Mapped
<1>14. th'[t].frame \in {th[t].frame, NoFrame} \/ \A u \in Procs : th[u].frame # th'[t].frame
  BY <1>1, <1>2, <1>3, <1>4, <1>5
<1>. QED BY <1>5, <1>6, <1>9, <1>10, <1>11, <1>12, <1>13, <1>14, StepKeeps

\* supp_pagedir_destroy_page takes the lock and gives the slot back.
LEMMA DestroyPageKeeps ==
  ASSUME IInv, NEW t \in Procs,
         NEW p \in Pages, p = th[t].page,
         At(t, "destroy"), pg[p].lock = Nobody,
         TakeBack(p, t),
         used' = used \ {pg[p].sector_t},
         last' = [last EXCEPT ![p] = Fresh(p)],
         Goto(t, "free"),
         UNCHANGED <<frame_vars, entries, swap, file, mmap_lock, end_vars, ops>>
  PROVE  IInv'
<1>. USE FramesAssumption, Types DEF IInv, vars, frame_vars, disk_vars, end_vars, At
<1>1. /\ th \in [Procs -> ThreadRec] /\ pg \in [Pages -> PageRec] /\ fr \in [Frames -> FrameRec]
      /\ ordered_list \in Seq(Frames)
      /\ Works(t) /\ Holds(t) /\ GoesOn(t) /\ Pins(t) /\ Faults(t)
  BY DEF TypeOK, Threads
<1>2. th[t].page \in Pages /\ th[t].page \in entries /\ OwnerOf[th[t].page] = t
  BY <1>1 DEF Works, IdlePCs, TypeOK
<1>3. Fresh(p) \in Values /\ pg[p].lock \notin Procs
  BY DEF Fresh, TypeOK
<1>4. /\ pg' \in [Pages -> PageRec]
      /\ \A q \in Pages \ {p} : pg'[q] = pg[q]
      /\ pg'[p].lock = t /\ pg'[p].prohibit = pg[p].prohibit /\ pg'[p].sector_t = NoSlot
      /\ pg'[p].kpage = pg[p].kpage /\ pg'[p].user_ok = pg[p].user_ok
  BY <1>2, DestroyPages
<1>5. /\ th' \in [Procs -> ThreadRec]
      /\ \A u \in Procs \ {t} : th'[u] = th[u]
      /\ th'[t].pc = "free" /\ th'[t].page = th[t].page /\ th'[t].frame = th[t].frame
      /\ th'[t].then = th[t].then
  <2>1. "free" \in Where
    BY DEF Where
  <2>. QED BY <1>1, <1>2, <1>3, <1>4, <2>1, GotoStep
<1>6. TypeOK'
  BY <1>1, <1>2, <1>3, <1>4, <1>5 DEF TypeOK
<1>7. \A q \in Pages : Leaving(q) => Leaving(q)'
  <2>. SUFFICES ASSUME NEW q \in Pages, Leaving(q) PROVE Leaving(q)'
    OBVIOUS
  <2>1. PICK u \in Procs : th[u].pc \in {"save", "clear"} /\ Victim(u) = q
    BY DEF Leaving
  <2>2. th[u].frame \in Frames
    BY <2>1 DEF Threads, Works, HandPCs, EvictPCs
  <2>3. /\ th'[u].pc \in {"save", "clear"} /\ th'[u].frame = th[u].frame
        /\ fr'[th[u].frame].user = fr[th[u].frame].user
    BY <1>1, <1>5, <2>1, <2>2
  <2>. QED BY <2>1, <2>3 DEF Leaving, Victim
<1>8. \A q \in Pages : Moving(q) => Moving(q)'
  <2>. SUFFICES ASSUME NEW q \in Pages, Moving(q) PROVE Moving(q)'
    OBVIOUS
  <2>1. PICK u \in Procs : \/ th[u].pc \in {"fill", "done"} /\ th[u].page = q
                           \/ th[u].pc = "clear" /\ Victim(u) = q
    BY DEF Moving
  <2>2. CASE th[u].pc \in {"fill", "done"} /\ th[u].page = q
    <3>1. th'[u].pc \in {"fill", "done"} /\ th'[u].page = q
      BY <1>1, <1>5, <2>2
    <3>. QED BY <3>1 DEF Moving
  <2>3. CASE th[u].pc = "clear" /\ Victim(u) = q
    <3>1. th[u].frame \in Frames
      BY <2>3 DEF Threads, Works, HandPCs, EvictPCs
    <3>2. /\ th'[u].pc = "clear" /\ th'[u].frame = th[u].frame
          /\ fr'[th[u].frame].user = fr[th[u].frame].user
      BY <1>1, <1>5, <2>3, <3>1
    <3>. QED BY <2>3, <3>2 DEF Moving, Victim
  <2>. QED BY <2>1, <2>2, <2>3
<1>9. FrameInv'
  <2>1. ASSUME NEW g \in Frames PROVE Owned(g)'
    <3>1. Owned(g) BY DEF FrameInv
    <3>2. \A q \in Pages : pg'[q].kpage = pg[q].kpage BY <1>4
    <3>3. \A u \in Procs :
            /\ th'[u].frame = th[u].frame
            /\ th[u].pc \in {"init", "map", "unlist"} => th'[u].pc = th[u].pc
      BY <1>1, <1>5
    <3>. QED BY <3>1, <3>2, <3>3, OwnedKept
  <2>2. IsInjective(ordered_list')
    BY DEF FrameInv
  <2>3. ASSUME NEW q \in Pages, Mapped(q)' PROVE fr'[pg'[q].kpage].user = q
    <3>1. \A r \in Pages : pg'[r].kpage = pg[r].kpage BY <1>4, <1>1, <1>2, <1>3
    <3>2. \A g \in Frames : fr'[g].user = fr[g].user OBVIOUS
    <3>. QED BY <2>3, <3>1, <3>2, MapKept
  <2>. QED BY <2>1, <2>2, <2>3 DEF FrameInv
<1>10. SlotsAccounted'
  BY <1>4, SlotGiven
<1>11. (Works(t) /\ Holds(t) /\ GoesOn(t) /\ Pins(t) /\ Faults(t))'
  BY <1>1, <1>2, <1>3, <1>4, <1>5, <1>7, <1>8 DEF Works, Holds, GoesOn, Pins, Faults, Victim, Mapped, IdlePCs, LoadPCs, EvictPCs, HandPCs, WaitPCs
<1>12. ASSUME NEW u \in Procs \ {t} PROVE LockKept(u) /\ PagesKept(u) /\ HandKept(u)
  <2>1. LockKept(u)
    BY <1>3, <1>4 DEF LockKept
  <2>2. PagesKept(u)
    BY <1>2, <1>4, <1>7 DEF PagesKept
  <2>3. HandKept(u)
    BY DEF HandKept
  <2>. QED BY <2>1, <2>2, <2>3
<1>13. PagesOK'
  <2>1. \A q \in Pages : /\ pg'[q].kpage = pg[q].kpage /\ pg'[q].user_ok = pg[q].user_ok
                          /\ pg'[q].sector_t \in {pg[q].sector_t, NoSlot}
    BY <1>2, <1>4
  <2>2. \A q \in Pages : Moving(q) /\ pg'[q].sector_t # NoSlot => Moving(q)'
    BY <1>8
  <2>. QED BY <1>7, <2>1, <2>2, PagesOKKept
<1>14. th'[t].frame \in {th[t].frame, NoFrame} \/ \A u \in Procs : th[u].frame # th'[t].frame
  BY <1>1, <1>2, <1>3, <1>4, <1>5
<1>. QED BY <1>5, <1>6, <1>9, <1>10, <1>11, <1>12, <1>13, <1>14, StepKeeps

\* The page is destroyed; it has no frame.
LEMMA FreeAbsentKeeps ==
  ASSUME IInv, NEW t \in Procs,
         NEW p \in Pages, p = th[t].page,
         ~ Mapped(p),
         UNCHANGED frame_vars,
         At(t, "free"),
         entries' = entries \ {p},
         DropPage(p),
         mmap_lock' \in Procs \cup {Nobody},
         NEW l \in {"exit", "user"}, Goto(t, l),
         UNCHANGED <<disk_vars, end_vars, ops>>
  PROVE  IInv'
<1>. USE FramesAssumption, Types DEF IInv, vars, frame_vars, disk_vars, end_vars, At, Mapped
<1>1. /\ th \in [Procs -> ThreadRec] /\ pg \in [Pages -> PageRec] /\ fr \in [Frames -> FrameRec]
      /\ ordered_list \in Seq(Frames)
      /\ Works(t) /\ Holds(t) /\ GoesOn(t) /\ Pins(t) /\ Faults(t)
  BY DEF TypeOK, Threads
<1>2. th[t].page \in Pages /\ th[t].page \in entries /\ OwnerOf[th[t].page] = t
  BY <1>1 DEF Works, IdlePCs, TypeOK
<1>3. pg[p].lock = t /\ pg[p].sector_t = NoSlot /\ th[t].frame = NoFrame
  BY <1>1 DEF Works, Holds, HandPCs, EvictPCs
<1>4. /\ pg' \in [Pages -> PageRec]
      /\ \A q \in Pages \ {p} : pg'[q] = pg[q]
      /\ pg'[p].lock = Nobody /\ pg'[p].prohibit = pg[p].prohibit
      /\ pg'[p].sector_t = pg[p].sector_t /\ pg'[p].kpage = NoFrame
      /\ pg'[p].user_ok = pg[p].user_ok
  BY <1>2, FreePages
<1>5. /\ th' \in [Procs -> ThreadRec]
      /\ \A u \in Procs \ {t} : th'[u] = th[u]
      /\ th'[t].pc = l /\ th'[t].page = th[t].page /\ th'[t].frame = th[t].frame
      /\ th'[t].then = th[t].then
  <2>1. l \in Where
    BY DEF Where
  <2>. QED BY <1>1, <1>2, <1>3, <1>4, <2>1, GotoStep
<1>6. TypeOK'
  BY <1>1, <1>2, <1>3, <1>4, <1>5 DEF TypeOK
<1>7. \A q \in Pages : Leaving(q) => Leaving(q)'
  <2>. SUFFICES ASSUME NEW q \in Pages, Leaving(q) PROVE Leaving(q)'
    OBVIOUS
  <2>1. PICK u \in Procs : th[u].pc \in {"save", "clear"} /\ Victim(u) = q
    BY DEF Leaving
  <2>2. th[u].frame \in Frames
    BY <2>1 DEF Threads, Works, HandPCs, EvictPCs
  <2>3. /\ th'[u].pc \in {"save", "clear"} /\ th'[u].frame = th[u].frame
        /\ fr'[th[u].frame].user = fr[th[u].frame].user
    BY <1>1, <1>5, <2>1, <2>2
  <2>. QED BY <2>1, <2>3 DEF Leaving, Victim
<1>8. \A q \in Pages : Moving(q) => Moving(q)'
  <2>. SUFFICES ASSUME NEW q \in Pages, Moving(q) PROVE Moving(q)'
    OBVIOUS
  <2>1. PICK u \in Procs : \/ th[u].pc \in {"fill", "done"} /\ th[u].page = q
                           \/ th[u].pc = "clear" /\ Victim(u) = q
    BY DEF Moving
  <2>2. CASE th[u].pc \in {"fill", "done"} /\ th[u].page = q
    <3>1. th'[u].pc \in {"fill", "done"} /\ th'[u].page = q
      BY <1>1, <1>5, <2>2
    <3>. QED BY <3>1 DEF Moving
  <2>3. CASE th[u].pc = "clear" /\ Victim(u) = q
    <3>1. th[u].frame \in Frames
      BY <2>3 DEF Threads, Works, HandPCs, EvictPCs
    <3>2. /\ th'[u].pc = "clear" /\ th'[u].frame = th[u].frame
          /\ fr'[th[u].frame].user = fr[th[u].frame].user
      BY <1>1, <1>5, <2>3, <3>1
    <3>. QED BY <2>3, <3>2 DEF Moving, Victim
  <2>. QED BY <2>1, <2>2, <2>3
<1>9. FrameInv'
  <2>1. ASSUME NEW g \in Frames PROVE Owned(g)'
    <3>1. Owned(g) BY DEF FrameInv
    <3>2. \A q \in Pages : pg'[q].kpage = pg[q].kpage BY <1>4
    <3>3. \A u \in Procs :
            /\ th'[u].frame = th[u].frame
            /\ th[u].pc \in {"init", "map", "unlist"} => th'[u].pc = th[u].pc
      BY <1>1, <1>5
    <3>. QED BY <3>1, <3>2, <3>3, OwnedKept
  <2>2. IsInjective(ordered_list')
    BY DEF FrameInv
  <2>3. ASSUME NEW q \in Pages, Mapped(q)' PROVE fr'[pg'[q].kpage].user = q
    BY <1>1, <1>2, <1>3, <1>4, <1>5, <2>3 DEF FrameInv, Owned, Mapped
  <2>. QED BY <2>1, <2>2, <2>3 DEF FrameInv
<1>10. SlotsAccounted'
  <2>1. \A q \in Pages : pg'[q].sector_t = pg[q].sector_t BY <1>1, <1>2, <1>3, <1>4
  <2>. QED BY <2>1, SlotsKept
<1>11. (Works(t) /\ Holds(t) /\ GoesOn(t) /\ Pins(t) /\ Faults(t))'
  <2>1. Works(t)'
    BY <1>3, <1>5 DEF Works, IdlePCs, LoadPCs, EvictPCs, HandPCs
  <2>2. Holds(t)'
    BY <1>3, <1>5 DEF Holds, LoadPCs
  <2>3. GoesOn(t)'
    BY <1>3, <1>5 DEF GoesOn, WaitPCs, LoadPCs
  <2>4. Pins(t)'
    BY <1>3, <1>5 DEF Pins, WaitPCs, LoadPCs
  <2>5. Faults(t)'
    BY <1>3, <1>5 DEF Faults
  <2>. QED BY <2>1, <2>2, <2>3, <2>4, <2>5
<1>12. ASSUME NEW u \in Procs \ {t} PROVE LockKept(u) /\ PagesKept(u) /\ HandKept(u)
  <2>1. LockKept(u)
    BY <1>3, <1>4 DEF LockKept
  <2>2. PagesKept(u)
    BY <1>2, <1>4, <1>7 DEF PagesKept
  <2>3. HandKept(u)
    BY DEF HandKept
  <2>. QED BY <2>1, <2>2, <2>3
<1>13. PagesOK'
  <2>1. ~ Mapped(p)' /\ pg'[p].sector_t = NoSlot BY <1>3, <1>4 DEF Mapped
  <2>2. ASSUME NEW q \in Pages, q # p PROVE pg'[q] = pg[q] /\ (q \in entries' <=> q \in entries)
    BY <1>4, <2>2
  <2>3. ASSUME NEW q \in Pages, Mapped(q)', ~ pg'[q].user_ok PROVE Leaving(q)'
    BY <1>7, <2>1, <2>2, <2>3 DEF PagesOK, Mapped
  <2>4. ASSUME NEW q \in Pages, Mapped(q)', pg'[q].sector_t # NoSlot PROVE Moving(q)'
    BY <1>8, <2>1, <2>2, <2>4 DEF PagesOK, Mapped
  <2>5. ASSUME NEW q \in Pages, q \notin entries' PROVE ~ Mapped(q)' /\ pg'[q].sector_t = NoSlot
    BY <2>1, <2>2, <2>5 DEF PagesOK, Mapped
  <2>. QED BY <2>3, <2>4, <2>5 DEF PagesOK
<1>14. th'[t].frame \in {th[t].frame, NoFrame} \/ \A u \in Procs : th[u].frame # th'[t].frame
  BY <1>1, <1>2, <1>3, <1>4, <1>5
<1>. QED BY <1>5, <1>6, <1>9, <1>10, <1>11, <1>12, <1>13, <1>14, StepKeeps

\* The page is destroyed, and its frame is given back.
LEMMA FreeMappedKeeps ==
  ASSUME IInv, NEW t \in Procs,
         NEW p \in Pages, p = th[t].page,
         NEW f \in Frames, f = pg[p].kpage,
         EmptyFrame(f),
         ordered_list' = RemoveFirst(ordered_list, f), pool' = pool \cup {f},
         list_lock = Nobody, list_lock' = list_lock,
         At(t, "free"),
         entries' = entries \ {p},
         DropPage(p),
         mmap_lock' \in Procs \cup {Nobody},
         NEW l \in {"exit", "user"}, Goto(t, l),
         UNCHANGED <<disk_vars, end_vars, ops>>
  PROVE  IInv'
<1>. USE FramesAssumption, Types DEF IInv, vars, frame_vars, disk_vars, end_vars, At
<1>1. /\ th \in [Procs -> ThreadRec] /\ pg \in [Pages -> PageRec] /\ fr \in [Frames -> FrameRec]
      /\ ordered_list \in Seq(Frames)
      /\ Works(t) /\ Holds(t) /\ GoesOn(t) /\ Pins(t) /\ Faults(t)
  BY DEF TypeOK, Threads
<1>2. th[t].page \in Pages /\ th[t].page \in entries /\ OwnerOf[th[t].page] = t
  BY <1>1 DEF Works, IdlePCs, TypeOK
<1>3. pg[p].lock = t /\ pg[p].sector_t = NoSlot /\ th[t].frame = NoFrame
  BY <1>1 DEF Works, Holds, HandPCs, EvictPCs
<1>4. fr[f].user = p
  BY DEF FrameInv, Mapped
<1>5. \A u \in Procs : th[u].frame # f
  BY <1>3, <1>4, HolderLocks
<1>6. f \in Range(ordered_list)
  BY <1>4 DEF FrameInv, Owned
<1>7. /\ ordered_list' \in Seq(Frames) /\ Range(ordered_list') = Range(ordered_list) \ {f}
      /\ IsInjective(ordered_list')
  BY <1>1, <1>6, RemovedList DEF FrameInv
<1>8. /\ pg' \in [Pages -> PageRec]
      /\ \A q \in Pages \ {p} : pg'[q] = pg[q]
      /\ pg'[p].lock = Nobody /\ pg'[p].prohibit = pg[p].prohibit
      /\ pg'[p].sector_t = pg[p].sector_t /\ pg'[p].kpage = NoFrame
      /\ pg'[p].user_ok = pg[p].user_ok
  BY <1>2, FreePages
<1>9. /\ fr' \in [Frames -> FrameRec]
      /\ \A g \in Frames \ {f} : fr'[g] = fr[g]
      /\ fr'[f].user = NoPage /\ fr'[f].prohibit_cache = fr[f].prohibit_cache
  BY <1>2, FreeFrames
<1>10. /\ th' \in [Procs -> ThreadRec]
       /\ \A u \in Procs \ {t} : th'[u] = th[u]
       /\ th'[t].pc = l /\ th'[t].page = th[t].page /\ th'[t].frame = th[t].frame
       /\ th'[t].then = th[t].then
  <2>1. l \in Where
    BY DEF Where
  <2>. QED BY <1>1, <2>1, GotoStep
<1>11. TypeOK'
  BY <1>1, <1>2, <1>3, <1>4, <1>5, <1>6, <1>7, <1>8, <1>9, <1>10 DEF TypeOK
<1>12. \A q \in Pages : Leaving(q) => Leaving(q)'
  <2>. SUFFICES ASSUME NEW q \in Pages, Leaving(q) PROVE Leaving(q)'
    OBVIOUS
  <2>1. PICK u \in Procs : th[u].pc \in {"save", "clear"} /\ Victim(u) = q
    BY DEF Leaving
  <2>2. th[u].frame \in Frames
    BY <2>1 DEF Threads, Works, HandPCs, EvictPCs
  <2>3. /\ th'[u].pc \in {"save", "clear"} /\ th'[u].frame = th[u].frame
        /\ fr'[th[u].frame].user = fr[th[u].frame].user
    BY <1>5, <1>9, <1>10, <2>1, <2>2
  <2>. QED BY <2>1, <2>3 DEF Leaving, Victim
<1>13. \A q \in Pages : Moving(q) => Moving(q)'
  <2>. SUFFICES ASSUME NEW q \in Pages, Moving(q) PROVE Moving(q)'
    OBVIOUS
  <2>1. PICK u \in Procs : \/ th[u].pc \in {"fill", "done"} /\ th[u].page = q
                           \/ th[u].pc = "clear" /\ Victim(u) = q
    BY DEF Moving
  <2>2. CASE th[u].pc \in {"fill", "done"} /\ th[u].page = q
    <3>1. th'[u].pc \in {"fill", "done"} /\ th'[u].page = q
      BY <1>5, <1>9, <1>10, <2>2
    <3>. QED BY <3>1 DEF Moving
  <2>3. CASE th[u].pc = "clear" /\ Victim(u) = q
    <3>1. th[u].frame \in Frames
      BY <2>3 DEF Threads, Works, HandPCs, EvictPCs
    <3>2. /\ th'[u].pc = "clear" /\ th'[u].frame = th[u].frame
          /\ fr'[th[u].frame].user = fr[th[u].frame].user
      BY <1>5, <1>9, <1>10, <2>3, <3>1
    <3>. QED BY <2>3, <3>2 DEF Moving, Victim
  <2>. QED BY <2>1, <2>2, <2>3
<1>14. FrameInv'
  <2>1. ASSUME NEW g \in Frames PROVE Owned(g)'
    <3>1. Owned(g) BY DEF FrameInv
    <3>2. CASE g = f
      <4>1. \A u \in Procs : th'[u].frame # g BY <1>3, <1>5, <1>10, <3>2
      <4>2. g \in pool' /\ g \notin Range(ordered_list') /\ fr'[g].user = NoPage
        BY <1>7, <1>9, <3>2
      <4>. QED BY <4>1, <4>2, FreedOwned
    <3>3. CASE g # f
      <4>1. fr[g].user # NoPage /\ pg[fr[g].user].kpage = g => pg'[fr[g].user].kpage = g
        BY <1>8, <3>3
      <4>2. \A u \in Procs : /\ th'[u].frame = g => th[u].frame = g
                             /\ th[u].frame = g => th'[u] = th[u]
        BY <1>3, <1>10
      <4>3. fr'[g] = fr[g] /\ (g \in pool' <=> g \in pool) BY <1>9, <3>3
      <4>. QED BY <1>7, <3>1, <3>3, <4>1, <4>2, <4>3, OwnedKept
    <3>. QED BY <3>2, <3>3
  <2>2. IsInjective(ordered_list')
    BY <1>7
  <2>3. ASSUME NEW q \in Pages, Mapped(q)' PROVE fr'[pg'[q].kpage].user = q
    <3>1. q # p /\ pg'[q] = pg[q] BY <1>8, <2>3 DEF Mapped
    <3>2. pg[q].kpage \in Frames /\ fr[pg[q].kpage].user = q BY <2>3, <3>1 DEF Mapped, FrameInv
    <3>3. pg[q].kpage # f BY <1>4, <3>1, <3>2
    <3>. QED BY <1>9, <3>1, <3>2, <3>3
  <2>. QED BY <2>1, <2>2, <2>3 DEF FrameInv
<1>15. SlotsAccounted'
  <2>1. \A q \in Pages : pg'[q].sector_t = pg[q].sector_t BY <1>1, <1>2, <1>3, <1>8
  <2>. QED BY <2>1, SlotsKept
<1>16. (Works(t) /\ Holds(t) /\ GoesOn(t) /\ Pins(t) /\ Faults(t))'
  <2>1. Works(t)'
    BY <1>3, <1>10 DEF Works, IdlePCs, LoadPCs, EvictPCs, HandPCs
  <2>2. Holds(t)'
    BY <1>3, <1>10 DEF Holds, LoadPCs
  <2>3. GoesOn(t)'
    BY <1>3, <1>10 DEF GoesOn, WaitPCs, LoadPCs
  <2>4. Pins(t)'
    BY <1>3, <1>10 DEF Pins, WaitPCs, LoadPCs
  <2>5. Faults(t)'
    BY <1>3, <1>10 DEF Faults
  <2>. QED BY <2>1, <2>2, <2>3, <2>4, <2>5
<1>17. ASSUME NEW u \in Procs \ {t} PROVE LockKept(u) /\ PagesKept(u) /\ HandKept(u)
  <2>1. LockKept(u)
    BY <1>3, <1>8 DEF LockKept
  <2>2. PagesKept(u)
    <3>1. ASSUME NEW q \in Pages, OwnerOf[q] = u
          PROVE  /\ pg'[q] = pg[q] /\ pg[q].kpage # f /\ (q \in entries => q \in entries')
                 /\ Leaving(q) => Leaving(q)'
      <4>1. q # p BY <1>2, <3>1
      <4>2. pg[q].kpage # f BY <1>4, <4>1 DEF FrameInv, Mapped
      <4>. QED BY <1>8, <1>12, <3>1, <4>1, <4>2
    <3>2. \A g \in Frames \ {f} : fr'[g] = fr[g] BY <1>9
    <3>. QED BY <3>1, <3>2 DEF PagesKept
  <2>3. HandKept(u)
    BY <1>5, <1>9 DEF HandKept
  <2>. QED BY <2>1, <2>2, <2>3
<1>18. PagesOK'
  <2>1. ~ Mapped(p)' /\ pg'[p].sector_t = NoSlot BY <1>3, <1>8 DEF Mapped
  <2>2. ASSUME NEW q \in Pages, q # p PROVE pg'[q] = pg[q] /\ (q \in entries' <=> q \in entries)
    BY <1>8, <2>2
  <2>3. ASSUME NEW q \in Pages, Mapped(q)', ~ pg'[q].user_ok PROVE Leaving(q)'
    BY <1>12, <2>1, <2>2, <2>3 DEF PagesOK, Mapped
  <2>4. ASSUME NEW q \in Pages, Mapped(q)', pg'[q].sector_t # NoSlot PROVE Moving(q)'
    BY <1>13, <2>1, <2>2, <2>4 DEF PagesOK, Mapped
  <2>5. ASSUME NEW q \in Pages, q \notin entries' PROVE ~ Mapped(q)' /\ pg'[q].sector_t = NoSlot
    BY <2>1, <2>2, <2>5 DEF PagesOK, Mapped
  <2>. QED BY <2>3, <2>4, <2>5 DEF PagesOK
<1>19. th'[t].frame \in {th[t].frame, NoFrame} \/ \A u \in Procs : th[u].frame # th'[t].frame
  BY <1>1, <1>2, <1>3, <1>4, <1>5, <1>6, <1>7, <1>8, <1>9, <1>10
<1>. QED BY <1>10, <1>11, <1>14, <1>15, <1>16, <1>17, <1>18, <1>19, StepKeeps

\* mmap_sys creates a page.
LEMMA MMapKeeps ==
  ASSUME IInv, NEW t \in Procs,
         NEW p \in Pages,
         At(t, "user"),
         Create(t, p),
         UNCHANGED th,
         ops' \in 0 .. MaxOps
  PROVE  IInv'
<1>. USE FramesAssumption, Types DEF IInv, vars, frame_vars, disk_vars, end_vars, At, Create
<1>1. /\ th \in [Procs -> ThreadRec] /\ pg \in [Pages -> PageRec] /\ fr \in [Frames -> FrameRec]
      /\ ordered_list \in Seq(Frames)
      /\ Works(t) /\ Holds(t) /\ GoesOn(t) /\ Pins(t) /\ Faults(t)
  BY DEF TypeOK, Threads
<1>2. pg[p].sector_t = NoSlot /\ pg[p].kpage = NoFrame
  BY DEF PagesOK, Mapped
<1>3. /\ pg' \in [Pages -> PageRec]
      /\ \A q \in Pages \ {p} : pg'[q] = pg[q]
      /\ pg'[p].lock = pg[p].lock /\ pg'[p].prohibit = FALSE /\ pg'[p].sector_t = NoSlot
      /\ pg'[p].kpage = pg[p].kpage /\ pg'[p].user_ok = pg[p].user_ok
  BY <1>1, <1>2, CreatePages
<1>4. /\ th' \in [Procs -> ThreadRec]
      /\ \A u \in Procs \ {t} : th'[u] = th[u]
      /\ th'[t].pc = th[t].pc /\ th'[t].page = th[t].page /\ th'[t].frame = th[t].frame
      /\ th'[t].then = th[t].then
  BY <1>1
<1>5. TypeOK'
  BY <1>1, <1>2, <1>3, <1>4 DEF TypeOK
<1>6. \A q \in Pages : Leaving(q) => Leaving(q)'
  <2>. SUFFICES ASSUME NEW q \in Pages, Leaving(q) PROVE Leaving(q)'
    OBVIOUS
  <2>1. PICK u \in Procs : th[u].pc \in {"save", "clear"} /\ Victim(u) = q
    BY DEF Leaving
  <2>2. th[u].frame \in Frames
    BY <2>1 DEF Threads, Works, HandPCs, EvictPCs
  <2>3. /\ th'[u].pc \in {"save", "clear"} /\ th'[u].frame = th[u].frame
        /\ fr'[th[u].frame].user = fr[th[u].frame].user
    BY <1>4, <2>1, <2>2
  <2>. QED BY <2>1, <2>3 DEF Leaving, Victim
<1>7. \A q \in Pages : Moving(q) => Moving(q)'
  <2>. SUFFICES ASSUME NEW q \in Pages, Moving(q) PROVE Moving(q)'
    OBVIOUS
  <2>1. PICK u \in Procs : \/ th[u].pc \in {"fill", "done"} /\ th[u].page = q
                           \/ th[u].pc = "clear" /\ Victim(u) = q
    BY DEF Moving
  <2>2. CASE th[u].pc \in {"fill", "done"} /\ th[u].page = q
    <3>1. th'[u].pc \in {"fill", "done"} /\ th'[u].page = q
      BY <1>4, <2>2
    <3>. QED BY <3>1 DEF Moving
  <2>3. CASE th[u].pc = "clear" /\ Victim(u) = q
    <3>1. th[u].frame \in Frames
      BY <2>3 DEF Threads, Works, HandPCs, EvictPCs
    <3>2. /\ th'[u].pc = "clear" /\ th'[u].frame = th[u].frame
          /\ fr'[th[u].frame].user = fr[th[u].frame].user
      BY <1>4, <2>3, <3>1
    <3>. QED BY <2>3, <3>2 DEF Moving, Victim
  <2>. QED BY <2>1, <2>2, <2>3
<1>8. FrameInv'
  <2>1. ASSUME NEW g \in Frames PROVE Owned(g)'
    <3>1. Owned(g) BY DEF FrameInv
    <3>2. \A q \in Pages : pg'[q].kpage = pg[q].kpage BY <1>3
    <3>3. \A u \in Procs :
            /\ th'[u].frame = th[u].frame
            /\ th[u].pc \in {"init", "map", "unlist"} => th'[u].pc = th[u].pc
      BY <1>1, <1>4
    <3>. QED BY <3>1, <3>2, <3>3, OwnedKept
  <2>2. IsInjective(ordered_list')
    BY DEF FrameInv
  <2>3. ASSUME NEW q \in Pages, Mapped(q)' PROVE fr'[pg'[q].kpage].user = q
    <3>1. \A r \in Pages : pg'[r].kpage = pg[r].kpage BY <1>3, <1>1, <1>2, <1>3
    <3>2. \A g \in Frames : fr'[g].user = fr[g].user OBVIOUS
    <3>. QED BY <2>3, <3>1, <3>2, MapKept
  <2>. QED BY <2>1, <2>2, <2>3 DEF FrameInv
<1>9. SlotsAccounted'
  <2>1. \A q \in Pages : pg'[q].sector_t = pg[q].sector_t BY <1>1, <1>2, <1>3, <1>3
  <2>. QED BY <2>1, SlotsKept
<1>10. (Works(t) /\ Holds(t) /\ GoesOn(t) /\ Pins(t) /\ Faults(t))'
  <2>1. Works(t)'
    BY <1>1, <1>4 DEF Works, IdlePCs, LoadPCs, EvictPCs, HandPCs
  <2>2. Holds(t)'
    BY <1>1, <1>4 DEF Holds, LoadPCs
  <2>3. GoesOn(t)'
    BY <1>1, <1>4 DEF GoesOn, WaitPCs, LoadPCs
  <2>4. Pins(t)'
    BY <1>1, <1>4 DEF Pins, WaitPCs, LoadPCs
  <2>5. Faults(t)'
    BY <1>1, <1>4 DEF Faults
  <2>. QED BY <2>1, <2>2, <2>3, <2>4, <2>5
<1>11. ASSUME NEW u \in Procs \ {t} PROVE LockKept(u) /\ PagesKept(u) /\ HandKept(u)
  <2>1. LockKept(u)
    BY <1>1, <1>2, <1>3 DEF LockKept
  <2>2. PagesKept(u)
    BY <1>1, <1>2, <1>3, <1>4, <1>6, <1>7 DEF PagesKept
  <2>3. HandKept(u)
    BY DEF HandKept
  <2>. QED BY <2>1, <2>2, <2>3
<1>12. PagesOK'
  BY <1>1, <1>2, <1>3, <1>4, <1>6, <1>7 DEF PagesOK, Mapped
<1>13. th'[t].frame \in {th[t].frame, NoFrame} \/ \A u \in Procs : th[u].frame # th'[t].frame
  BY <1>1, <1>2, <1>3, <1>4
<1>. QED BY <1>4, <1>5, <1>8, <1>9, <1>10, <1>11, <1>12, <1>13, StepKeeps

-----------------------------------------------------------------------------
\* At the start every page is absent, every frame is free and nobody is at work.
LEMMA InitInv == Init => IInv
<1>. SUFFICES ASSUME Init PROVE IInv
  OBVIOUS
<1>. USE FramesAssumption DEF Init
<1>1. TypeOK
  <2>1. fr \in [Frames -> FrameRec] BY DEF FrameRec
  <2>2. pg \in [Pages -> PageRec] BY DEF PageRec
  <2>3. th \in [Procs -> ThreadRec] BY DEF ThreadRec, Where
  <2>4. ordered_list \in Seq(Frames) /\ pool \subseteq Frames /\ ops \in 0 .. MaxOps
    OBVIOUS
  <2>5. /\ swap \in [Slots -> Values] /\ file \in [Pages -> Values] /\ last \in [Pages -> Values]
    OBVIOUS
  <2>. QED BY <2>1, <2>2, <2>3, <2>4, <2>5 DEF TypeOK
<1>2. FrameInv
  <2>1. Range(ordered_list) = {} /\ IsInjective(ordered_list)
    BY DEF Range, IsInjective
  <2>. QED BY <2>1 DEF FrameInv, Owned, Mapped, NoFrame, Frames
<1>3. SlotsAccounted
  BY DEF SlotsAccounted
<1>4. Threads
  BY DEF Threads, Works, Holds, GoesOn, Pins, Faults, IdlePCs, LoadPCs, EvictPCs, HandPCs, WaitPCs
<1>5. HandsApart /\ PagesOK /\ FaultsAreLegitimate
  BY DEF HandsApart, PagesOK, Mapped, FaultsAreLegitimate
<1>. QED BY <1>1, <1>2, <1>3, <1>4, <1>5 DEF IInv

\* A step that stops the kernel.
LEMMA PanicKeeps ==
  ASSUME IInv, panic' = TRUE,
         UNCHANGED <<frame_vars, entries, pg, disk_vars, th, mmap_lock, ending, accused>>,
         ops' \in 0 .. MaxOps
  PROVE  IInv'
<1>. USE DEF frame_vars, disk_vars
<1>1. TypeOK' BY DEF IInv, TypeOK
<1>2. SamePages /\ SameFrames BY DEF SamePages, SameFrames
<1>3. IsInjective(ordered_list') BY DEF IInv, FrameInv
<1>. QED BY <1>1, <1>2, <1>3, StillKeeps

\* What a thread at work has: its page, its frame and its victim.
LEMMA AtWork ==
  ASSUME IInv, NEW t \in Procs
  PROVE  /\ th[t].pc \notin IdlePCs => th[t].page \in Pages
         /\ th[t].pc \in HandPCs => th[t].frame \in Frames
         /\ ops < MaxOps /\ ops' = ops + 1 => ops' \in 0 .. MaxOps
         /\ ops' = ops => ops' \in 0 .. MaxOps
BY Types, FramesAssumption DEF IInv, Threads, Works, TypeOK

\* The steps of programs keep the invariant, ...
LEMMA ProgramKeeps ==
  ASSUME IInv, NEW t \in Procs, Program(t)
  PROVE  IInv'
<1>. USE AtWork DEF Runs, At
<1>1. CASE CallExit(t)
  BY <1>1, KillKeeps DEF CallExit
<1>2. ASSUME NEW p \in Pages, NEW v \in Values \cup {Read}, Access(t, p, v) PROVE IInv'
  BY <1>2, AccessKeeps
<1>3. ASSUME NEW p \in Pages, Fault(t, p) PROVE IInv'
  BY <1>3, FaultKeeps
<1>4. ASSUME NEW p \in Pages, GrowStack(t, p) PROVE IInv'
  BY <1>4, GrowStackKeeps DEF GrowStack
<1>5. ASSUME NEW p \in Pages, MMap(t, p) PROVE IInv'
  BY <1>5, MMapKeeps DEF MMap
<1>6. ASSUME NEW p \in Pages, CallMUnmap(t, p) PROVE IInv'
  BY <1>6, MUnmapKeeps DEF CallMUnmap
<1>7. ASSUME NEW p \in Pages, NEW grow \in BOOLEAN, CheckPointer(t, p, grow) PROVE IInv'
  <2>. USE <1>7 DEF CheckPointer
  <2>0. ops' \in 0 .. MaxOps
    OBVIOUS
  <2>1. CASE Mapped(p) /\ GotoWith(t, "prohibit", p, "argument") /\ UNCHANGED end_vars
    BY <2>0, <2>1, CheckMappedKeeps
  <2>2. CASE Kill(t) /\ UNCHANGED <<accused, panic>>
    BY <2>0, <2>2, KillKeeps
  <2>3. CASE panic' = TRUE /\ UNCHANGED <<th, ending, accused>>
    BY <2>0, <2>3, PanicKeeps
  <2>4. CASE ~ Mapped(p) /\ GotoWith(t, "lock", p, "prohibit") /\ UNCHANGED end_vars
    BY <2>0, <2>4, CheckAbsentKeeps
  <2>. QED BY <2>1, <2>2, <2>3, <2>4
<1>. QED BY <1>1, <1>2, <1>3, <1>4, <1>5, <1>6, <1>7 DEF Program

\* ... and so do those of the kernel.
LEMMA KernelKeeps ==
  ASSUME IInv, NEW t \in Procs, Kernel(t)
  PROVE  IInv'
<1>. USE DEF At
<1>0. /\ th[t].pc \notin IdlePCs => th[t].page \in Pages
      /\ th[t].pc \in HandPCs => th[t].frame \in Frames
      /\ ops' = ops => ops' \in 0 .. MaxOps
      /\ \A p \in Pages : pg[p].kpage \in Frames \cup {NoFrame}
      /\ \A f \in Frames : fr[f].user \in Pages \cup {NoPage}
      /\ Threads
  BY AtWork, Types DEF IInv
<1>1. CASE Activate(t)
  <2>. USE <1>1 DEF Activate, end_vars
  <2>1. th[t].page \in Pages
    BY <1>0 DEF IdlePCs
  <2>2. CASE ~ Mapped(th[t].page)
    BY <2>1, <2>2, LockKeeps, Zenon DEF LockPage
  <2>3. CASE Mapped(th[t].page)
    <3>1. Leaving(th[t].page)
      BY <1>0, <2>3 DEF Threads, Faults
    <3>2. PICK u \in Procs : th[u].pc \in {"save", "clear"} /\ Victim(u) = th[t].page
      BY <3>1 DEF Leaving
    <3>3. pg[th[t].page].lock = u
      BY <1>0, <3>2 DEF Threads, Works, EvictPCs
    <3>. QED BY <3>3, FramesAssumption DEF Free
  <2>. QED BY <2>2, <2>3
<1>2. CASE GetPage(t)
  <2>. USE <1>2 DEF GetPage
  <2>1. CASE pool = {} /\ Goto(t, "search") /\ UNCHANGED <<pool, fr>>
    <3>1. list_lock' \in Procs \cup {Nobody} BY DEF IInv, TypeOK
    <3>. QED BY <2>1, <3>1, SearchKeeps
  <2>2. CASE pool # {}
    BY <2>2, TakeKeeps
  <2>. QED BY <2>1, <2>2
<1>3. CASE Search(t)
  BY <1>3, SearchKeeps DEF Search
<1>4. CASE Scan(t)
  <2>. USE <1>4 DEF Scan, end_vars
  <2>1. CASE ordered_list = << >>
    BY <1>0, <2>1, PanicKeeps DEF frame_vars
  <2>2. CASE ordered_list # << >>
    <3>. DEFINE f == Head(ordered_list)
                p == fr[f].user
    <3>1. f \in Range(ordered_list) /\ f \in Frames /\ fr[f].user # NoPage
      <4>1. ordered_list \in Seq(Frames) BY DEF IInv, TypeOK
      <4>2. f \in Range(ordered_list) BY <2>2, <4>1, RotatedList
      <4>3. f \in Frames BY <2>2, <4>1
      <4>. QED BY <4>2, <4>3 DEF IInv, FrameInv, Owned
    <3>2. p \in Pages
      BY <1>0, <3>1
    <3>3. CASE pg' = pg /\ UNCHANGED <<list_lock, th>>
      BY <2>2, <3>2, <3>3, RotateKeeps
    <3>4. CASE pg' = [pg EXCEPT ![p].accessed = FALSE] /\ UNCHANGED <<list_lock, th>>
      BY <2>2, <3>2, <3>4, RotateKeeps
    <3>5. CASE /\ Free(p) /\ ~ fr[f].prohibit_cache /\ pg' = [pg EXCEPT ![p].lock = t]
               /\ list_lock' = Nobody /\ GotoFrame(t, "evict", f)
      BY <2>2, <3>1, <3>2, <3>5, ScanTakeKeeps, Zenon DEF LockPage
    <3>. QED BY <2>2, <3>3, <3>4, <3>5
  <2>. QED BY <2>1, <2>2
<1>5. CASE Evict(t)
  BY <1>5, EvictKeeps, Zenon DEF Evict, Victim, ClosePage
<1>6. CASE Save(t)
  <2>. USE <1>6 DEF Save, end_vars, disk_vars
  <2>1. CASE panic' = TRUE /\ UNCHANGED <<th, pg, used, swap>>
    BY <1>0, <2>1, PanicKeeps
  <2>2. CASE Goto(t, "clear") /\ UNCHANGED <<pg, used, swap, panic>>
    BY <2>2, SaveKeepKeeps
  <2>3. CASE SwapWrite(Victim(t), fr[th[t].frame].data) /\ Goto(t, "clear") /\ UNCHANGED panic
    <3>1. CASE used = Slots
      BY <2>3, <3>1, SaveKeepKeeps DEF SwapWrite
    <3>2. CASE used # Slots
      <4>1. Min(Slots \ used) \in Slots \ used
        BY <3>2, Types, LeastElement DEF IInv, TypeOK
      <4>. QED BY <2>3, <3>2, <4>1, SaveSlotKeeps DEF SwapWrite, GiveSlot
    <3>. QED BY <3>1, <3>2
  <2>. QED BY <2>1, <2>2, <2>3 DEF Victim
<1>7. CASE ClearPage(t)
  BY <1>7, ClearKeeps, Zenon DEF ClearPage, Victim, ClearEntry
<1>8. CASE Unlist(t)
  <2>1. th[t].frame \in Frames
    BY <1>0, <1>8 DEF Unlist, HandPCs, EvictPCs
  <2>2. EmptyFrame(th[t].frame) /\ LockPage(Victim(t), Nobody)
    BY <1>8 DEF Unlist, FreeFrame, EmptyFrame, LockPage, Victim
  <2>. QED BY <1>8, <2>1, <2>2, UnlistKeeps DEF Unlist, FreeFrame
<1>9. CASE InitSingle(t)
  <2>1. th[t].frame \in Frames /\ th[t].page \in Pages
    BY <1>0, <1>9 DEF InitSingle, HandPCs, IdlePCs
  <2>2. InitFrame(th[t].frame, th[t].page)
    BY <1>9 DEF InitSingle, InitFrame
  <2>. QED BY <1>9, <2>1, <2>2, InitKeeps DEF InitSingle
<1>10. CASE SetPage(t)
  <2>1. th[t].frame \in Frames /\ th[t].page \in Pages
    BY <1>0, <1>10 DEF SetPage, HandPCs, IdlePCs
  <2>2. SetEntry(th[t].page, th[t].frame)
    BY <1>10 DEF SetPage, SetEntry
  <2>. QED BY <1>10, <2>1, <2>2, SetPageKeeps DEF SetPage
<1>11. CASE Fill(t)
  BY <1>11, FillKeeps
<1>12. CASE Activated(t)
  <2>1. th[t].frame \in Frames /\ th[t].page \in Pages
    BY <1>0, <1>12 DEF Activated, HandPCs, IdlePCs
  <2>. QED BY <1>12, <2>1, ActivatedKeeps DEF Activated, LeavePage
<1>13. CASE Prohibit(t)
  <2>1. th[t].page \in Pages
    BY <1>0, <1>13 DEF Prohibit, IdlePCs
  <2>2. PICK n \in {"writeback", "argument"} : GotoWith(t, "plock", th[t].page, n)
    BY <1>13 DEF Prohibit
  <2>. QED BY <1>13, <2>1, <2>2, ProhibitKeeps DEF Prohibit, ProhibitPage
<1>14. CASE ProhibitLocked(t)
  <2>. USE <1>14 DEF ProhibitLocked, Free
  <2>1. th[t].page \in Pages
    BY <1>0 DEF IdlePCs
  <2>2. CASE Mapped(th[t].page)
    <3>1. pg[th[t].page].kpage \in Frames
      BY <1>0, <2>1, <2>2 DEF Mapped
    <3>. QED BY <2>1, <2>2, <3>1, PinKeeps DEF ProhibitFrame
  <2>3. CASE ~ Mapped(th[t].page)
    BY <2>1, <2>3, LockKeeps DEF frame_vars, LockPage
  <2>. QED BY <2>2, <2>3
<1>15. CASE Argument(t)
  <2>. USE <1>15 DEF Argument
  <2>1. CASE th[t].page \in ArgPages
    BY <1>0, <2>1, ToPermitKeeps, KillKeeps DEF CheckToPermit, end_vars
  <2>2. CASE th[t].page \notin ArgPages
    BY <2>2, ArgumentKeeps
  <2>. QED BY <2>1, <2>2
<1>16. ASSUME NEW v \in Values \cup {Read}, Transfer(t, v) PROVE IInv'
  <2>. USE <1>16 DEF Transfer
  <2>1. CASE Mapped(th[t].page)
    BY <2>1, TransferKeeps
  <2>2. CASE ~ Mapped(th[t].page)
    BY <2>2, TransferFaultKeeps
  <2>. QED BY <2>1, <2>2
<1>17. CASE Release(t)
  BY <1>0, <1>17, ToPermitKeeps, KillKeeps DEF Release, CheckToPermit, end_vars
<1>18. CASE Permit(t)
  <2>. USE <1>18 DEF Permit, Free
  <2>1. th[t].page \in Pages
    BY <1>0 DEF IdlePCs
  <2>2. CASE Mapped(th[t].page)
    <3>1. pg[th[t].page].kpage \in Frames
      BY <1>0, <2>1, <2>2 DEF Mapped
    <3>2. ProhibitPage(th[t].page, FALSE) /\ ProhibitFrame(pg[th[t].page].kpage, FALSE)
      BY <2>2 DEF ProhibitPage, ProhibitFrame
    <3>. QED BY <2>1, <3>1, <3>2, PermitMappedKeeps
  <2>3. CASE ~ Mapped(th[t].page)
    BY <2>1, <2>3, PermitAbsentKeeps DEF frame_vars, ProhibitPage
  <2>. QED BY <2>2, <2>3
<1>19. CASE Discard(t)
  <2>. USE <1>19 DEF Discard
  <2>1. CASE /\ th[t].page \in Sync /\ GotoWith(t, "prohibit", th[t].page, "writeback")
             /\ pg' = [pg EXCEPT ![th[t].page].dirty = FALSE]
             /\ fr' = IF Mapped(th[t].page) THEN [fr EXCEPT ![pg[th[t].page].kpage].kdirty = FALSE]
                     ELSE fr
    BY <2>1, DiscardDirtyKeeps, Zenon DEF ResetDirty
  <2>2. CASE Goto(t, "destroy") /\ UNCHANGED <<pg, fr>>
    BY <2>2, DiscardCleanKeeps DEF frame_vars
  <2>. QED BY <2>1, <2>2
<1>20. CASE WriteBack(t)
  BY <1>20, WriteBackKeeps
<1>21. CASE DestroyPage(t)
  <2>1. th[t].page \in Pages
    BY <1>0, <1>21 DEF DestroyPage, IdlePCs
  <2>. QED BY <1>21, <2>1, DestroyPageKeeps DEF DestroyPage, Free, TakeBack
<1>22. CASE FreePage(t)
  <2>. USE <1>22 DEF FreePage
  <2>1. th[t].page \in Pages
    BY <1>0 DEF IdlePCs
  <2>2. mmap_lock' \in Procs \cup {Nobody}
    BY DEF IInv, TypeOK
  <2>3. PICK l \in {"exit", "user"} : Goto(t, l)
    OBVIOUS
  <2>4. CASE Mapped(th[t].page)
    <3>1. pg[th[t].page].kpage \in Frames
      BY <1>0, <2>1, <2>4 DEF Mapped
    <3>2. FreeFrame(pg[th[t].page].kpage)
      BY <2>4
    <3>3. EmptyFrame(pg[th[t].page].kpage) /\ DropPage(th[t].page)
      BY <3>2 DEF FreeFrame, EmptyFrame, DropPage
    <3>. QED BY <2>1, <2>2, <2>3, <3>1, <3>2, <3>3, FreeMappedKeeps DEF FreeFrame
  <2>5. CASE ~ Mapped(th[t].page)
    BY <2>1, <2>2, <2>3, <2>5, FreeAbsentKeeps DEF DropPage
  <2>. QED BY <2>4, <2>5
<1>23. CASE Exit(t)
  <2>. USE <1>23 DEF Exit
  <2>0. entries \subseteq Pages
    BY DEF IInv, TypeOK
  <2>1. ASSUME NEW p \in entries, OwnerOf[p] = t, MUnmap(t, p) PROVE IInv'
    BY <1>0, <2>0, <2>1, MUnmapKeeps DEF Owns
  <2>2. CASE UNCHANGED <<frame_vars, entries, pg, disk_vars, mmap_lock, end_vars>>
    <3>1. ASSUME NEW p \in entries, OwnerOf[p] = t, GotoWith(t, "destroy", p, "user") PROVE IInv'
      BY <2>0, <2>2, <3>1, ExitDestroyKeeps DEF Owns
    <3>2. CASE Goto(t, "dead")
      BY <2>2, <3>2, DeadKeeps
    <3>3. CASE \E p \in entries : OwnerOf[p] = t /\ MUnmap(t, p)
      BY <2>1, <3>3
    <3>. QED BY <3>1, <3>2, <3>3
  <2>. QED BY <2>1, <2>2
<1>. QED BY <1>1, <1>2, <1>3, <1>4, <1>5, <1>6, <1>7, <1>8, <1>9, <1>10, <1>11, <1>12,
  <1>13, <1>14, <1>15, <1>16, <1>17, <1>18, <1>19, <1>20, <1>21, <1>22, <1>23 DEF Kernel

\* A step that changes nothing.
LEMMA StutterKeeps == IInv /\ UNCHANGED vars => IInv'
<1>. SUFFICES ASSUME IInv, UNCHANGED vars PROVE IInv'
  OBVIOUS
<1>. USE DEF vars, frame_vars, disk_vars, end_vars
<1>1. TypeOK' BY DEF IInv, TypeOK
<1>2. SamePages /\ SameFrames BY DEF SamePages, SameFrames
<1>3. IsInjective(ordered_list') BY DEF IInv, FrameInv
<1>. QED BY <1>1, <1>2, <1>3, StillKeeps

\* The invariant holds in every state.
LEMMA Invariance == Spec => []IInv
<1>1. IInv /\ [Next]_vars => IInv'
  BY ProgramKeeps, KernelKeeps, StutterKeeps DEF Next
<1>. QED BY <1>1, InitInv, PTL DEF Spec

\* Frames and swap slots have one owner each, with any number of processes,
\* pages, frames and slots (frame.c:59, 189; swap.c:29, 66).
THEOREM MemoryAccountedHolds == Spec => []MemoryAccounted
<1>1. IInv => MemoryAccounted
  BY FrameInvSuffices DEF IInv, MemoryAccounted
<1>. QED BY <1>1, Invariance, PTL

\* The page of the buffer of a system call stays where it is while the kernel
\* works on it, whoever evicts meanwhile (paging.c:229).
THEOREM PinnedDuringCallHolds == Spec => []PinnedDuringCall
<1>1. IInv => PinnedDuringCall
  BY DEF IInv, PinnedDuringCall, Threads, Pins, Mapped, Free
<1>. QED BY <1>1, Invariance, PTL

\* No process is ended for a fault that raced with an eviction of its page
\* (exception.c:214).
THEOREM FaultsAreLegitimateHolds == Spec => []FaultsAreLegitimate
<1>1. IInv => FaultsAreLegitimate
  BY DEF IInv
<1>. QED BY <1>1, Invariance, PTL
=============================================================================
