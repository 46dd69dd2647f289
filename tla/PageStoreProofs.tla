--------------------------- MODULE PageStoreProofs ---------------------------
(***************************************************************************)
(* Paging implements the page store, as long as the swap has room for all  *)
(* pages that can go there, for every number of processes, pages, frames   *)
(* and slots.                                                              *)
(*                                                                         *)
(* The argument follows what a page holds, on its way from a frame to the  *)
(* swap and back (Carries, Backed), over the invariant of FramesProofs:    *)
(* where that is on the way, only the thread that holds the page's lock    *)
(* can change it.  So the contents of a page stay what they were in every  *)
(* step but those that PageStore has too (ContentsStay).                   *)
(***************************************************************************)
EXTENDS FramesProofs, FiniteSetTheorems

\* The result of swap_write is stored unchecked, so a swap that is full loses a
\* page (MCFrames_full.cfg); pages of mappings never go to swap.
SwapSuffices == IsFiniteSet(Pages) /\ Cardinality(Pages \ Sync) <= NumSlots

\* The pages whose last writes are never undone.
Kept(p) == p \in Pages \ (Sync \cup ArgPages)

\* What is in the frame of a thread, and of its victim: zeros until the page is
\* filled; from Save on, what has been kept of a victim that nobody can reach.
\* A thread that writes back works for a mapping.
Carries(t) ==
  LET f == th[t].frame
      v == Victim(t) IN
  /\ th[t].pc \in {"init", "map", "fill"} => fr[f].data = Zero
  /\ th[t].pc \in {"save", "clear"} => ~ pg[v].user_ok
  /\ th[t].pc = "clear" /\ Kept(v) =>
       fr[f].data = IF pg[v].sector_t # NoSlot THEN swap[pg[v].sector_t] ELSE Fresh(v)
  /\ th[t].then = "writeback" \/ th[t].pc = "writeback" => th[t].page \in Sync

\* A page that is not dirty still has what it was filled with, and can be filled
\* with it again.
Backed(p) ==
  Kept(p) /\ Mapped(p) /\ ~ IsDirty(p) /\ ~ Filling(p) => fr[pg[p].kpage].data = Fresh(p)

DataInv ==
  /\ \A t \in Procs : Carries(t)
  /\ \A p \in Pages : Backed(p) /\ (pg[p].sector_t # NoSlot => p \notin Sync)

\* What a step of thread t can change of frames, pages and devices, as far as
\* DataInv and the contents of pages depend on it.  Writes says that t writes to
\* its page p.
Writes(t, p) ==
  /\ p \in entries /\ OwnerOf[p] = t /\ pg[p].kpage \in Frames /\ pg'[p].dirty
  /\ \/ th[t].pc = "user" /\ pg[p].user_ok
     \/ th[t].pc = "transfer" /\ p = th[t].page

FrameFoot(t) ==
  \A f \in Frames :
    /\ fr'[f].data # fr[f].data =>
         \/ f \in pool
         \/ th[t].pc = "fill" /\ f = th[t].frame
         \/ \E p \in Pages : Writes(t, p) /\ f = pg[p].kpage
    /\ fr'[f].user # fr[f].user =>
         \/ th[t].pc \in {"unlist", "init"} /\ f = th[t].frame
         \/ th[t].pc = "free" /\ f = pg[th[t].page].kpage
    /\ fr[f].kdirty /\ ~ fr'[f].kdirty =>
         \/ th[t].pc = "init" /\ f = th[t].frame
         \/ th[t].pc = "discard" /\ th[t].page \in Sync /\ f = pg[th[t].page].kpage

PageFoot(t) ==
  \A p \in Pages :
    /\ pg'[p].kpage # pg[p].kpage =>
         \/ th[t].pc \in {"map", "free"} /\ p = th[t].page
         \/ th[t].pc = "clear" /\ p = Victim(t)
    /\ pg'[p].sector_t # pg[p].sector_t =>
         \/ th[t].pc = "done" /\ p = th[t].page
         \/ th[t].pc = "destroy" /\ p = th[t].page /\ pg[p].lock = Nobody
         \/ th[t].pc = "save" /\ p = Victim(t)
    /\ pg'[p].user_ok /\ ~ pg[p].user_ok => th[t].pc = "map" /\ p = th[t].page
    /\ pg[p].dirty /\ ~ pg'[p].dirty =>
         \/ th[t].pc = "map" /\ p = th[t].page
         \/ th[t].pc = "discard" /\ p = th[t].page /\ p \in Sync

DiskFoot(t) ==
  /\ \A s \in Slots : swap'[s] # swap[s] => s \notin used
  /\ \A p \in Pages : file'[p] # file[p] => th[t].pc = "writeback" /\ p = th[t].page

OnlyMoves(t) == \A u \in Procs \ {t} : th'[u] = th[u]

Foot(t) == FrameFoot(t) /\ PageFoot(t) /\ DiskFoot(t) /\ OnlyMoves(t)

\* What a step leaves alone, it leaves alone.
LEMMA FramesAlone == ASSUME NEW t, fr' = fr PROVE FrameFoot(t)
BY DEF FrameFoot

LEMMA PagesAlone == ASSUME NEW t, pg' = pg PROVE PageFoot(t)
BY DEF PageFoot

LEMMA DisksAlone == ASSUME NEW t, swap' = swap, file' = file PROVE DiskFoot(t)
BY DEF DiskFoot

\* Updates of pages that change none of this, ...
LEMMA QuietPages ==
  ASSUME pg \in [Pages -> PageRec], NEW t, NEW p \in Pages,
         \/ \E l : pg' = [pg EXCEPT ![p].lock = l]
         \/ \E b : pg' = [pg EXCEPT ![p].accessed = b]
         \/ \E b : pg' = [pg EXCEPT ![p].prohibit = b]
         \/ pg' = [pg EXCEPT ![p].user_ok = FALSE]
  PROVE  PageFoot(t)
<1>1. \A q \in Pages : /\ pg'[q].kpage = pg[q].kpage /\ pg'[q].sector_t = pg[q].sector_t
                       /\ pg'[q].user_ok => pg[q].user_ok
                       /\ pg'[q].dirty = pg[q].dirty
  BY DEF PageRec
<1>. QED BY <1>1 DEF PageFoot

\* ... and of frames.
LEMMA QuietFrames ==
  ASSUME fr \in [Frames -> FrameRec], NEW t, NEW f \in Frames,
         \E b : fr' = [fr EXCEPT ![f].prohibit_cache = b]
  PROVE  FrameFoot(t)
<1>1. \A g \in Frames : /\ fr'[g].data = fr[g].data /\ fr'[g].user = fr[g].user
                        /\ fr'[g].kdirty = fr[g].kdirty
  BY DEF FrameRec
<1>. QED BY <1>1 DEF FrameFoot

\* An access of the program or of the kernel for it.
LEMMA TouchFoot ==
  ASSUME TypeOK, NEW t \in Procs, NEW p \in Pages, NEW v \in Values \cup {Read},
         Touch(p, v), p \in entries, OwnerOf[p] = t, Mapped(p),
         \/ th[t].pc = "user" /\ pg[p].user_ok
         \/ th[t].pc = "transfer" /\ p = th[t].page
  PROVE  /\ FrameFoot(t) /\ PageFoot(t) /\ DiskFoot(t)
         /\ \A q \in Pages : pg'[q].kpage = pg[q].kpage /\ pg'[q].sector_t = pg[q].sector_t
         /\ v = Read => fr' = fr /\ last' = last
         /\ v # Read => /\ last' = [last EXCEPT ![p] = v] /\ fr'[pg[p].kpage].data = v
                        /\ \A f \in Frames \ {pg[p].kpage} : fr'[f].data = fr[f].data
<1>1. pg \in [Pages -> PageRec] /\ fr \in [Frames -> FrameRec]
  BY DEF TypeOK
<1>2. PICK d : d = (pg[p].dirty \/ v # Read)
  OBVIOUS
<1>3. pg' = [pg EXCEPT ![p].accessed = TRUE, ![p].dirty = d]
  BY <1>2 DEF Touch
<1>4. \A q \in Pages : /\ pg'[q].kpage = pg[q].kpage /\ pg'[q].sector_t = pg[q].sector_t
                       /\ pg'[q].user_ok = pg[q].user_ok
                       /\ q # p => pg'[q].dirty = pg[q].dirty
  BY <1>1, <1>3 DEF PageRec
<1>5. pg'[p].dirty = d
  BY <1>1, <1>3 DEF PageRec
<1>6. pg[p].kpage \in Frames
  BY Types DEF Mapped
<1>7. PageFoot(t)
  <2>1. pg[p].dirty => pg'[p].dirty
    BY <1>2, <1>5
  <2>. QED BY <1>4, <2>1 DEF PageFoot
<1>8. CASE v = Read
  <2>1. fr' = fr /\ last' = last
    BY <1>8 DEF Touch
  <2>. QED BY <1>4, <1>7, <1>8, <2>1, FramesAlone, DisksAlone DEF Touch
<1>9. CASE v # Read
  <2>1. fr' = [fr EXCEPT ![pg[p].kpage].data = v] /\ last' = [last EXCEPT ![p] = v]
    BY <1>9 DEF Touch
  <2>2. fr'[pg[p].kpage].data = v /\ \A f \in Frames \ {pg[p].kpage} : fr'[f].data = fr[f].data
    BY <1>1, <1>6, <2>1 DEF FrameRec
  <2>3. \A f \in Frames : fr'[f].user = fr[f].user /\ fr'[f].kdirty = fr[f].kdirty
    BY <1>1, <1>6, <2>1 DEF FrameRec
  <2>4. Writes(t, p)
    BY <1>2, <1>5, <1>6, <1>9 DEF Writes
  <2>5. FrameFoot(t)
    BY <2>2, <2>3, <2>4 DEF FrameFoot
  <2>. QED BY <1>4, <1>7, <1>9, <2>1, <2>2, <2>5, DisksAlone DEF Touch
<1>. QED BY <1>8, <1>9

\* A step of a program.
LEMMA ProgramFoot ==
  ASSUME IInv, NEW t \in Procs, Program(t)
  PROVE  Foot(t)
<1>0. TypeOK /\ th \in [Procs -> ThreadRec] /\ pg \in [Pages -> PageRec]
  BY DEF IInv, TypeOK
<1>. USE DEF Foot, OnlyMoves, frame_vars, disk_vars
<1>1. ASSUME UNCHANGED <<frame_vars, pg, disk_vars>>, OnlyMoves(t) PROVE Foot(t)
  BY <1>1, FramesAlone, PagesAlone, DisksAlone
<1>2. OnlyMoves(t)
  BY <1>0 DEF Program, CallExit, Kill, Goto, GotoWith, Access, Fault, GrowStack, MMap, CallMUnmap,
     MUnmap, CheckPointer
<1>3. CASE CallExit(t)
  BY <1>1, <1>2, <1>3 DEF CallExit
<1>4. ASSUME NEW p \in Pages, NEW v \in Values \cup {Read}, Access(t, p, v) PROVE Foot(t)
  BY <1>0, <1>2, <1>4, TouchFoot DEF Access, Runs, At, Owns
<1>5. ASSUME NEW p \in Pages, Fault(t, p) PROVE Foot(t)
  BY <1>1, <1>2, <1>5 DEF Fault
<1>6. ASSUME NEW p \in Pages, Create(t, p) PROVE FrameFoot(t) /\ PageFoot(t) /\ DiskFoot(t)
  <2>1. pg[p].sector_t = NoSlot
    BY <1>6 DEF IInv, PagesOK, Create
  <2>2. pg' = [pg EXCEPT ![p].prohibit = FALSE, ![p].sector_t = NoSlot]
    BY <1>6 DEF Create
  <2>3. \A q \in Pages : /\ pg'[q].kpage = pg[q].kpage /\ pg'[q].sector_t = pg[q].sector_t
                         /\ pg'[q].user_ok = pg[q].user_ok /\ pg'[q].dirty = pg[q].dirty
    BY <1>0, <2>1, <2>2 DEF PageRec
  <2>4. PageFoot(t)
    BY <2>3 DEF PageFoot
  <2>. QED BY <1>6, <2>4, FramesAlone, DisksAlone DEF Create
<1>7. ASSUME NEW p \in Pages, GrowStack(t, p) \/ MMap(t, p) PROVE Foot(t)
  BY <1>2, <1>6, <1>7 DEF GrowStack, MMap
<1>8. ASSUME NEW p \in Pages, CallMUnmap(t, p) PROVE Foot(t)
  BY <1>1, <1>2, <1>8 DEF CallMUnmap, MUnmap
<1>9. ASSUME NEW p \in Pages, NEW grow \in BOOLEAN, CheckPointer(t, p, grow) PROVE Foot(t)
  BY <1>1, <1>2, <1>9 DEF CheckPointer
<1>. QED BY <1>3, <1>4, <1>5, <1>7, <1>8, <1>9 DEF Program

\* A thread moves alone.
LEMMA KernelMoves ==
  ASSUME TypeOK, NEW t \in Procs, Kernel(t)
  PROVE  OnlyMoves(t)
<1>. USE DEF OnlyMoves, Goto, GotoWith, GotoFrame, Kill
<1>0. th \in [Procs -> ThreadRec]
  BY DEF TypeOK
<1>1. CASE Activate(t) \/ GetPage(t) \/ Search(t) \/ Scan(t) \/ Evict(t) \/ Save(t)
  BY <1>0, <1>1 DEF Activate, GetPage, Search, Scan, Evict, Save
<1>2. CASE ClearPage(t) \/ Unlist(t) \/ InitSingle(t) \/ SetPage(t) \/ Fill(t) \/ Activated(t)
  BY <1>0, <1>2 DEF ClearPage, Unlist, InitSingle, SetPage, Fill, Activated
<1>3. CASE Prohibit(t) \/ ProhibitLocked(t) \/ Argument(t) \/ Release(t) \/ Permit(t)
  BY <1>0, <1>3 DEF Prohibit, ProhibitLocked, Argument, Release, Permit, CheckToPermit
<1>4. CASE (\E v \in Values \cup {Read} : Transfer(t, v)) \/ Discard(t) \/ WriteBack(t)
  BY <1>0, <1>4 DEF Transfer, Discard, WriteBack
<1>5. CASE DestroyPage(t) \/ FreePage(t) \/ Exit(t)
  BY <1>0, <1>5 DEF DestroyPage, FreePage, Exit, MUnmap
<1>. QED BY <1>1, <1>2, <1>3, <1>4, <1>5 DEF Kernel

\* A step of the kernel.
LEMMA KernelFoot ==
  ASSUME IInv, NEW t \in Procs, Kernel(t)
  PROVE  Foot(t)
<1>0. /\ TypeOK /\ fr \in [Frames -> FrameRec] /\ pg \in [Pages -> PageRec]
      /\ \A p \in Pages : pg[p].kpage \in Frames \cup {NoFrame}
      /\ OnlyMoves(t) /\ Works(t)
  BY Types, KernelMoves DEF IInv, TypeOK, Threads
<1>00. /\ th[t].pc \notin IdlePCs =>
            /\ th[t].page \in Pages /\ th[t].page \in entries /\ OwnerOf[th[t].page] = t
       /\ th[t].pc \in HandPCs => th[t].frame \in Frames
       /\ th[t].pc \in EvictPCs => Victim(t) \in Pages
  BY <1>0, AtWork DEF Works
<1>. USE DEF Foot, frame_vars, disk_vars, At
<1>1. CASE Activate(t)
  <2>1. th[t].page \in Pages
    BY <1>00, <1>1 DEF Activate, IdlePCs
  <2>2. PageFoot(t)
    BY <1>0, <1>1, <2>1, QuietPages, PagesAlone DEF Activate
  <2>. QED BY <1>0, <1>1, <2>2, FramesAlone, DisksAlone DEF Activate
<1>2. CASE GetPage(t)
  <2>1. FrameFoot(t)
    <3>1. CASE pool = {}
      BY <1>2, <3>1, FramesAlone DEF GetPage
    <3>2. CASE pool # {}
      <4>1. Min(pool) \in pool /\ Min(pool) \in Frames
        <5>1. pool \in SUBSET Nat /\ pool \subseteq Frames
          BY <1>0, Types DEF TypeOK
        <5>. QED BY <3>2, <5>1, LeastElement
      <4>2. fr' = [fr EXCEPT ![Min(pool)].data = Zero]
        BY <1>2, <3>2 DEF GetPage
      <4>3. \A g \in Frames : /\ fr'[g].user = fr[g].user /\ fr'[g].kdirty = fr[g].kdirty
                              /\ g # Min(pool) => fr'[g].data = fr[g].data
        BY <1>0, <4>1, <4>2 DEF FrameRec
      <4>. QED BY <4>1, <4>3 DEF FrameFoot
    <3>. QED BY <3>1, <3>2
  <2>. QED BY <1>0, <1>2, <2>1, PagesAlone, DisksAlone DEF GetPage
<1>3. CASE Search(t)
  BY <1>0, <1>3, FramesAlone, PagesAlone, DisksAlone DEF Search
<1>4. CASE Scan(t)
  <2>1. PageFoot(t)
    <3>1. CASE ordered_list = << >>
      BY <1>4, <3>1, PagesAlone DEF Scan
    <3>2. CASE ordered_list # << >>
      <4>. DEFINE p == fr[Head(ordered_list)].user
      <4>1. p \in Pages
        <5>1. Head(ordered_list) \in Range(ordered_list) /\ Head(ordered_list) \in Frames
          <6>1. ordered_list \in Seq(Frames)
            BY <1>0 DEF TypeOK
          <6>. QED BY <3>2, <6>1, RotatedList
        <5>2. Owned(Head(ordered_list)) /\ p \in Pages \cup {NoPage}
          BY <1>0, <5>1, Types DEF IInv, FrameInv
        <5>. QED BY <5>1, <5>2 DEF Owned
      <4>2. \/ pg' = pg \/ pg' = [pg EXCEPT ![p].accessed = FALSE] \/ pg' = [pg EXCEPT ![p].lock = t]
        BY <1>4, <3>2 DEF Scan
      <4>. HIDE DEF p
      <4>. QED BY <1>0, <4>1, <4>2, QuietPages, PagesAlone
    <3>. QED BY <3>1, <3>2
  <2>. QED BY <1>0, <1>4, <2>1, FramesAlone, DisksAlone DEF Scan
<1>5. CASE Evict(t)
  <2>1. Victim(t) \in Pages
    BY <1>00, <1>5 DEF Evict, EvictPCs
  <2>2. PageFoot(t)
    BY <1>0, <1>5, <2>1, QuietPages DEF Evict, Victim
  <2>. QED BY <1>0, <1>5, <2>2, FramesAlone, DisksAlone DEF Evict
<1>6. CASE Save(t)
  <2>. DEFINE p == Victim(t)
  <2>0. p \in Pages
    BY <1>00, <1>6 DEF Save, EvictPCs
  <2>1. fr' = fr /\ file' = file /\ th[t].pc = "save"
    BY <1>6 DEF Save
  <2>2. \/ pg' = pg /\ swap' = swap
        \/ SwapWrite(p, fr[th[t].frame].data)
    BY <1>6 DEF Save, Victim
  <2>3. CASE pg' = pg /\ swap' = swap
    BY <1>0, <2>1, <2>3, FramesAlone, PagesAlone, DisksAlone
  <2>4. CASE SwapWrite(p, fr[th[t].frame].data)
    <3>. DEFINE s == Min(Slots \ used)
    <3>1. PICK z : pg' = [pg EXCEPT ![p].sector_t = z]
      BY <2>4 DEF SwapWrite
    <3>2. \A q \in Pages : /\ pg'[q].kpage = pg[q].kpage /\ pg'[q].user_ok = pg[q].user_ok
                           /\ q # p => pg'[q].sector_t = pg[q].sector_t
                           /\ pg'[q].dirty = pg[q].dirty
      BY <1>0, <2>0, <3>1 DEF PageRec
    <3>3. PageFoot(t)
      BY <2>1, <3>2 DEF PageFoot
    <3>4. CASE used = Slots
      BY <1>0, <2>1, <2>4, <3>3, <3>4, FramesAlone, DisksAlone DEF SwapWrite
    <3>5. CASE used # Slots
      <4>1. s \in Slots \ used
        <5>1. Slots \ used \in SUBSET Nat /\ Slots \ used # {}
          BY <1>0, <3>5, Types DEF TypeOK
        <5>. QED BY <5>1, LeastElement
      <4>2. swap' = [swap EXCEPT ![s] = fr[th[t].frame].data] /\ swap \in [Slots -> Values]
        BY <1>0, <2>4, <3>5 DEF SwapWrite, TypeOK
      <4>. HIDE DEF s
      <4>3. \A x \in Slots : swap'[x] # swap[x] => x \notin used
        BY <4>1, <4>2
      <4>4. DiskFoot(t)
        BY <2>1, <4>3 DEF DiskFoot
      <4>. QED BY <1>0, <2>1, <3>3, <4>4, FramesAlone
    <3>. QED BY <3>4, <3>5
  <2>. QED BY <2>2, <2>3, <2>4
<1>7. CASE ClearPage(t)
  <2>1. Victim(t) \in Pages
    BY <1>00, <1>7 DEF ClearPage, EvictPCs
  <2>2. pg' = [pg EXCEPT ![Victim(t)].kpage = NoFrame] /\ th[t].pc = "clear"
    BY <1>7 DEF ClearPage, Victim
  <2>3. \A q \in Pages : /\ q # Victim(t) => pg'[q].kpage = pg[q].kpage
                         /\ pg'[q].sector_t = pg[q].sector_t
                         /\ pg'[q].user_ok = pg[q].user_ok /\ pg'[q].dirty = pg[q].dirty
    BY <1>0, <2>1, <2>2 DEF PageRec
  <2>4. PageFoot(t)
    BY <2>2, <2>3 DEF PageFoot
  <2>. QED BY <1>0, <1>7, <2>4, FramesAlone, DisksAlone DEF ClearPage
<1>8. CASE Unlist(t)
  <2>1. Victim(t) \in Pages /\ th[t].frame \in Frames /\ th[t].pc = "unlist"
    BY <1>00, <1>8 DEF Unlist, EvictPCs, HandPCs
  <2>2. PageFoot(t)
    BY <1>0, <1>8, <2>1, QuietPages DEF Unlist, Victim
  <2>3. fr' = [fr EXCEPT ![th[t].frame].user = NoPage]
    BY <1>8 DEF Unlist, FreeFrame
  <2>4. \A g \in Frames : /\ fr'[g].data = fr[g].data /\ fr'[g].kdirty = fr[g].kdirty
                          /\ g # th[t].frame => fr'[g].user = fr[g].user
    BY <1>0, <2>1, <2>3 DEF FrameRec
  <2>5. FrameFoot(t)
    BY <2>1, <2>4 DEF FrameFoot
  <2>. QED BY <1>0, <1>8, <2>2, <2>5, DisksAlone DEF Unlist
<1>9. CASE InitSingle(t)
  <2>1. th[t].frame \in Frames /\ th[t].pc = "init"
    BY <1>00, <1>9 DEF InitSingle, HandPCs
  <2>2. \A g \in Frames : /\ fr'[g].data = fr[g].data
                          /\ g # th[t].frame => fr'[g] = fr[g]
    BY <1>0, <1>9, <2>1 DEF InitSingle, FrameRec
  <2>3. FrameFoot(t)
    BY <2>1, <2>2 DEF FrameFoot
  <2>. QED BY <1>0, <1>9, <2>3, PagesAlone, DisksAlone DEF InitSingle
<1>10. CASE SetPage(t)
  <2>1. th[t].page \in Pages /\ th[t].pc = "map"
    BY <1>00, <1>10 DEF SetPage, IdlePCs
  <2>2. \A q \in Pages : /\ q # th[t].page => pg'[q] = pg[q]
                         /\ pg'[q].sector_t = pg[q].sector_t
    BY <1>0, <1>10, <2>1 DEF SetPage, PageRec
  <2>3. PageFoot(t)
    BY <2>1, <2>2 DEF PageFoot
  <2>. QED BY <1>0, <1>10, <2>3, FramesAlone, DisksAlone DEF SetPage
<1>11. CASE Fill(t)
  <2>1. th[t].page \in Pages /\ th[t].frame \in Frames /\ th[t].pc = "fill"
    BY <1>00, <1>11 DEF Fill, IdlePCs, HandPCs
  <2>2. PageFoot(t)
    BY <1>0, <1>11, <2>1, QuietPages, PagesAlone DEF Fill
  <2>3. \A g \in Frames : /\ g # th[t].frame => fr'[g] = fr[g]
                          /\ fr'[g].user = fr[g].user /\ (fr[g].kdirty => fr'[g].kdirty)
    <3>. DEFINE f == th[t].frame
                x == swap[pg[th[t].page].sector_t]
                y == file[th[t].page]
    <3>1. \/ fr' = [fr EXCEPT ![f].data = x, ![f].kdirty = TRUE]
          \/ fr' = [fr EXCEPT ![f].data = y]
          \/ fr' = fr
      BY <1>11 DEF Fill
    <3>2. f \in Frames
      BY <2>1
    <3>. HIDE DEF f, x, y
    <3>3. CASE fr' = [fr EXCEPT ![f].data = x, ![f].kdirty = TRUE]
      <4>1. \A g \in Frames : /\ g # f => fr'[g] = fr[g]
                              /\ fr'[g].user = fr[g].user /\ (fr[g].kdirty => fr'[g].kdirty)
        BY <1>0, <3>2, <3>3 DEF FrameRec
      <4>. QED BY <4>1 DEF f
    <3>4. CASE fr' = [fr EXCEPT ![f].data = y]
      <4>1. \A g \in Frames : /\ g # f => fr'[g] = fr[g]
                              /\ fr'[g].user = fr[g].user /\ (fr[g].kdirty => fr'[g].kdirty)
        BY <1>0, <3>2, <3>4 DEF FrameRec
      <4>. QED BY <4>1 DEF f
    <3>. QED BY <3>1, <3>3, <3>4
  <2>4. FrameFoot(t)
    BY <2>1, <2>3 DEF FrameFoot
  <2>. QED BY <1>0, <1>11, <2>2, <2>4, DisksAlone DEF Fill
<1>12. CASE Activated(t)
  <2>1. th[t].page \in Pages /\ th[t].pc = "done"
    BY <1>00, <1>12 DEF Activated, IdlePCs
  <2>2. pg' = [pg EXCEPT ![th[t].page].sector_t = NoSlot, ![th[t].page].lock = Nobody]
    BY <1>12 DEF Activated
  <2>3. \A q \in Pages : /\ q # th[t].page => pg'[q] = pg[q]
                         /\ pg'[q].kpage = pg[q].kpage /\ pg'[q].user_ok = pg[q].user_ok
                         /\ pg'[q].dirty = pg[q].dirty
    BY <1>0, <2>1, <2>2 DEF PageRec
  <2>4. PageFoot(t)
    BY <2>1, <2>3 DEF PageFoot
  <2>. QED BY <1>0, <1>12, <2>4, FramesAlone, DisksAlone DEF Activated
<1>13. CASE Prohibit(t) \/ ProhibitLocked(t) \/ Permit(t)
  <2>1. th[t].page \in Pages
    BY <1>00, <1>13 DEF Prohibit, ProhibitLocked, Permit, IdlePCs
  <2>2. PageFoot(t)
    BY <1>0, <1>13, <2>1, QuietPages, PagesAlone DEF Prohibit, ProhibitLocked, Permit
  <2>3. FrameFoot(t)
    BY <1>0, <1>13, <2>1, QuietFrames, FramesAlone DEF Prohibit, ProhibitLocked, Permit, Mapped
  <2>. QED BY <1>0, <1>13, <2>2, <2>3, DisksAlone DEF Prohibit, ProhibitLocked, Permit
<1>14. CASE Argument(t) \/ Release(t)
  BY <1>0, <1>14, FramesAlone, PagesAlone, DisksAlone DEF Argument, Release, CheckToPermit
<1>15. ASSUME NEW v \in Values \cup {Read}, Transfer(t, v) PROVE Foot(t)
  <2>1. th[t].pc = "transfer" /\ th[t].page \in Pages /\ th[t].page \in entries
        /\ OwnerOf[th[t].page] = t
    BY <1>00, <1>15 DEF Transfer, IdlePCs
  <2>2. CASE Mapped(th[t].page)
    BY <1>0, <1>15, <2>1, <2>2, TouchFoot DEF Transfer
  <2>3. CASE ~ Mapped(th[t].page)
    BY <1>0, <1>15, <2>3, FramesAlone, PagesAlone, DisksAlone DEF Transfer
  <2>. QED BY <2>2, <2>3
<1>16. CASE Discard(t)
  <2>1. th[t].page \in Pages /\ th[t].pc = "discard"
    BY <1>00, <1>16 DEF Discard, IdlePCs
  <2>2. CASE UNCHANGED <<pg, fr>>
    BY <1>0, <1>16, <2>2, FramesAlone, PagesAlone, DisksAlone DEF Discard
  <2>3. CASE th[t].page \in Sync /\ ~ UNCHANGED <<pg, fr>>
    <3>1. /\ pg' = [pg EXCEPT ![th[t].page].dirty = FALSE]
          /\ fr' = IF Mapped(th[t].page)
                   THEN [fr EXCEPT ![pg[th[t].page].kpage].kdirty = FALSE] ELSE fr
      BY <1>16, <2>3 DEF Discard
    <3>2. \A q \in Pages : /\ q # th[t].page => pg'[q] = pg[q]
                           /\ pg'[q].kpage = pg[q].kpage /\ pg'[q].sector_t = pg[q].sector_t
                           /\ pg'[q].user_ok = pg[q].user_ok
      BY <1>0, <2>1, <3>1 DEF PageRec
    <3>3. PageFoot(t)
      BY <2>1, <2>3, <3>2 DEF PageFoot
    <3>4. \A g \in Frames : /\ g # pg[th[t].page].kpage => fr'[g] = fr[g]
                            /\ fr'[g].data = fr[g].data /\ fr'[g].user = fr[g].user
      BY <1>0, <2>1, <3>1 DEF FrameRec, Mapped
    <3>5. FrameFoot(t)
      BY <2>1, <2>3, <3>4 DEF FrameFoot
    <3>. QED BY <1>0, <1>16, <3>3, <3>5, DisksAlone DEF Discard
  <2>. QED BY <1>16, <2>2, <2>3 DEF Discard
<1>17. CASE WriteBack(t)
  <2>1. th[t].page \in Pages /\ th[t].pc = "writeback"
    BY <1>00, <1>17 DEF WriteBack, IdlePCs
  <2>2. PageFoot(t)
    BY <1>0, <1>17, <2>1, QuietPages DEF WriteBack
  <2>3. file \in [Pages -> Values] /\ \E v : file' = [file EXCEPT ![th[t].page] = v]
    BY <1>0, <1>17 DEF WriteBack, TypeOK
  <2>4. \A q \in Pages : file'[q] # file[q] => q = th[t].page
    BY <2>1, <2>3
  <2>5. DiskFoot(t)
    BY <1>17, <2>1, <2>4 DEF WriteBack, DiskFoot
  <2>. QED BY <1>0, <1>17, <2>2, <2>5, FramesAlone DEF WriteBack
<1>18. CASE DestroyPage(t)
  <2>1. th[t].page \in Pages /\ th[t].pc = "destroy" /\ pg[th[t].page].lock = Nobody
    BY <1>00, <1>18 DEF DestroyPage, IdlePCs, Free
  <2>2. pg' = [pg EXCEPT ![th[t].page].lock = t, ![th[t].page].sector_t = NoSlot]
    BY <1>18 DEF DestroyPage
  <2>3. \A q \in Pages : /\ q # th[t].page => pg'[q] = pg[q]
                         /\ pg'[q].kpage = pg[q].kpage /\ pg'[q].user_ok = pg[q].user_ok
                         /\ pg'[q].dirty = pg[q].dirty
    BY <1>0, <2>1, <2>2 DEF PageRec
  <2>4. PageFoot(t)
    BY <2>1, <2>3 DEF PageFoot
  <2>. QED BY <1>0, <1>18, <2>4, FramesAlone, DisksAlone DEF DestroyPage
<1>19. CASE FreePage(t)
  <2>1. th[t].page \in Pages /\ th[t].pc = "free"
    BY <1>00, <1>19 DEF FreePage, IdlePCs
  <2>2. pg' = [pg EXCEPT ![th[t].page].kpage = NoFrame, ![th[t].page].lock = Nobody]
    BY <1>19 DEF FreePage
  <2>3. \A q \in Pages : /\ q # th[t].page => pg'[q] = pg[q]
                         /\ pg'[q].sector_t = pg[q].sector_t /\ pg'[q].user_ok = pg[q].user_ok
                         /\ pg'[q].dirty = pg[q].dirty
    BY <1>0, <2>1, <2>2 DEF PageRec
  <2>4. PageFoot(t)
    BY <2>1, <2>3 DEF PageFoot
  <2>5. FrameFoot(t)
    <3>1. CASE Mapped(th[t].page)
      <4>1. pg[th[t].page].kpage \in Frames
        BY <1>0, <2>1, <3>1 DEF Mapped
      <4>2. fr' = [fr EXCEPT ![pg[th[t].page].kpage].user = NoPage]
        BY <1>19, <3>1 DEF FreePage, FreeFrame
      <4>3. \A g \in Frames : /\ fr'[g].data = fr[g].data /\ fr'[g].kdirty = fr[g].kdirty
                              /\ g # pg[th[t].page].kpage => fr'[g].user = fr[g].user
        BY <1>0, <4>1, <4>2 DEF FrameRec
      <4>. QED BY <2>1, <4>3 DEF FrameFoot
    <3>2. CASE ~ Mapped(th[t].page)
      BY <1>19, <3>2, FramesAlone DEF FreePage
    <3>. QED BY <3>1, <3>2
  <2>. QED BY <1>0, <1>19, <2>4, <2>5, DisksAlone DEF FreePage
<1>20. CASE Exit(t)
  BY <1>0, <1>20, FramesAlone, PagesAlone, DisksAlone DEF Exit, MUnmap
<1>. QED BY <1>1, <1>2, <1>3, <1>4, <1>5, <1>6, <1>7, <1>8, <1>9, <1>10, <1>11, <1>12,
            <1>13, <1>14, <1>15, <1>16, <1>17, <1>18, <1>19, <1>20 DEF Kernel

\* The frame of a page that is written to is that page's.
LEMMA WrittenFrame ==
  ASSUME IInv, NEW t \in Procs, NEW p \in Pages, Writes(t, p)
  PROVE  fr[pg[p].kpage].user = p
BY Types DEF IInv, FrameInv, Writes, Mapped

\* What is known of a frame in the hands of a thread: it is not in the pool, no other
\* thread has it, and its page is locked or the thread's own.
LEMMA HandFrame ==
  ASSUME IInv, NEW u \in Procs, th[u].pc \in HandPCs
  PROVE  /\ th[u].frame \in Frames \ pool /\ th[u].frame # NoFrame
         /\ \A t \in Procs : th[t].frame = th[u].frame => t = u
         /\ th[u].pc \in EvictPCs =>
              Victim(u) \in Pages \ {NoPage} /\ pg[Victim(u)].lock = u
         /\ th[u].pc \in {"evict", "save", "clear"} => pg[Victim(u)].kpage = th[u].frame
         /\ th[u].pc = "init" => Victim(u) = NoPage
         /\ th[u].pc \in {"map", "fill", "done"} =>
              Victim(u) = th[u].page /\ th[u].page \in Pages \ {NoPage}
         /\ th[u].pc \in {"fill", "done"} => pg[th[u].page].kpage = th[u].frame
         /\ th[u].pc \notin EvictPCs => OwnerOf[th[u].page] = u
<1>1. th[u].frame \in Frames /\ th[u].frame # NoFrame
  BY AtWork, Types DEF IInv
<1>2. th[u].frame \notin pool
  BY <1>1 DEF IInv, FrameInv, Owned
<1>3. Works(u) /\ Holds(u) /\ th[u].pc \notin IdlePCs /\ th[u].page \in Pages
  BY AtWork DEF IInv, Threads, HandPCs, EvictPCs, IdlePCs
<1>4. th[u].pc \in {"fill", "done"} => fr[th[u].frame].user = th[u].page
  BY <1>1, <1>3 DEF IInv, FrameInv, Holds, Mapped
<1>. QED BY <1>1, <1>2, <1>3, <1>4, FramesAssumption
         DEF IInv, HandsApart, Works, Holds, Victim, HandPCs, EvictPCs

\* What the other threads have in their frames stays as it is.
LEMMA OtherThreads ==
  ASSUME IInv, DataInv, NEW t \in Procs, Foot(t), NEW u \in Procs, u # t
  PROVE  Carries(u)'
<1>0. /\ th'[u] = th[u] /\ Carries(u) /\ Carries(t)
      /\ Works(t) /\ Holds(t) /\ Pins(t)
      /\ (th[t].pc \notin IdlePCs => th[t].page \in Pages /\ OwnerOf[th[t].page] = t)
      /\ NoPage \notin Pages
  BY AtWork, FramesAssumption DEF Foot, OnlyMoves, DataInv, IInv, Threads, Works
<1>. DEFINE f == th[u].frame
            v == Victim(u)
<1>1. CASE th[u].pc \in {"init", "map", "fill"}
  <2>1. /\ f \in Frames \ pool /\ f # th[t].frame /\ fr[f].data = Zero
        /\ fr[f].user = NoPage \/ (fr[f].user \in Pages /\ OwnerOf[fr[f].user] = u)
    BY <1>0, <1>1, HandFrame DEF HandPCs, EvictPCs, Carries, Victim
  <2>2. ASSUME NEW p \in Pages, Writes(t, p), f = pg[p].kpage PROVE FALSE
    BY <1>0, <2>1, <2>2, WrittenFrame DEF Writes
  <2>3. fr'[f].data = Zero
    BY <2>1, <2>2 DEF Foot, FrameFoot
  <2>. QED BY <1>0, <1>1, <2>3 DEF Carries
<1>2. CASE th[u].pc \in {"save", "clear"}
  <2>1. /\ f \in Frames \ pool /\ f # th[t].frame /\ v \in Pages /\ v # NoPage
        /\ pg[v].lock = u /\ pg[v].kpage = f /\ ~ pg[v].user_ok /\ v = fr[f].user
    BY <1>0, <1>2, HandFrame DEF HandPCs, EvictPCs, Carries, Victim
  <2>2. \A pc \in LoadPCs \cup {"fill", "done", "free"} : th[t].pc = pc => th[t].page # v
    BY <1>0, <2>1 DEF Works
  <2>3. fr'[f].user = fr[f].user
    <3>1. CASE th[t].pc = "free" /\ f = pg[th[t].page].kpage
      <4>1. th[t].page \in Pages /\ Mapped(th[t].page)
        BY <1>0, <2>1, <3>1, Types DEF IdlePCs, Mapped, IInv
      <4>2. fr[f].user = th[t].page
        BY <3>1, <4>1 DEF IInv, FrameInv
      <4>. QED BY <2>1, <2>2, <3>1, <4>2
    <3>. QED BY <2>1, <3>1 DEF Foot, FrameFoot
  <2>4. Victim(u)' = v
    BY <1>0, <2>1, <2>3 DEF Victim
  <2>5. ~ pg'[v].user_ok
    BY <2>1, <2>2 DEF Foot, PageFoot, LoadPCs
  <2>6. CASE th[u].pc = "clear" /\ Kept(v)
    <3>1. fr'[f].data = fr[f].data
      <4>1. ASSUME NEW p \in Pages, Writes(t, p), f = pg[p].kpage PROVE FALSE
        <5>1. p = v
          BY <2>1, <4>1, WrittenFrame
        <5>2. th[t].pc = "transfer" /\ v = th[t].page
          BY <2>1, <4>1, <5>1 DEF Writes
        <5>3. pg[v].lock = Nobody
          BY <1>0, <2>6, <5>2 DEF Kept, Pins
        <5>. QED BY <2>1, <5>3, FramesAssumption
      <4>. QED BY <2>1, <4>1 DEF Foot, FrameFoot
    <3>2. pg'[v].sector_t = pg[v].sector_t
      <4>1. ASSUME th[t].pc = "save", v = Victim(t) PROVE FALSE
        BY <2>1, <4>1, HandFrame DEF HandPCs, EvictPCs
      <4>2. pg[v].lock # Nobody
        BY <2>1, FramesAssumption
      <4>. QED BY <2>1, <2>2, <4>1, <4>2 DEF Foot, PageFoot
    <3>3. pg[v].sector_t # NoSlot => swap'[pg[v].sector_t] = swap[pg[v].sector_t]
      <4>1. ASSUME pg[v].sector_t # NoSlot PROVE pg[v].sector_t \in used \cap Slots
        BY <2>1, <4>1, Types DEF IInv, SlotsAccounted
      <4>. QED BY <4>1 DEF Foot, DiskFoot
    <3>4. Fresh(v)' = Fresh(v)
      <4>1. file'[v] = file[v]
        BY <1>0, <2>1, <2>6 DEF Foot, DiskFoot, Carries, Kept
      <4>. QED BY <2>4, <4>1 DEF Fresh
    <3>5. fr[f].data = IF pg[v].sector_t # NoSlot THEN swap[pg[v].sector_t] ELSE Fresh(v)
      BY <1>0, <2>6 DEF Carries
    <3>6. fr'[f].data = IF pg'[v].sector_t # NoSlot THEN swap'[pg'[v].sector_t] ELSE Fresh(v)'
      BY <3>1, <3>2, <3>3, <3>4, <3>5
    <3>. QED BY <1>0, <1>2, <2>4, <2>5, <2>6, <3>6 DEF Carries
  <2>. QED BY <1>0, <1>2, <2>4, <2>5, <2>6 DEF Carries
<1>. QED BY <1>0, <1>1, <1>2 DEF Carries

\* Where a step takes a thread.
LEMMA Moved ==
  ASSUME th \in [Procs -> ThreadRec], NEW t \in Procs
  PROVE  /\ \A l : Goto(t, l) =>
              /\ th'[t].pc = l /\ th'[t].page = th[t].page /\ th'[t].frame = th[t].frame
              /\ th'[t].then = th[t].then
         /\ \A l, p, n : GotoWith(t, l, p, n) =>
              th'[t].pc = l /\ th'[t].page = p /\ th'[t].frame = th[t].frame /\ th'[t].then = n
         /\ \A l, f : GotoFrame(t, l, f) =>
              /\ th'[t].pc = l /\ th'[t].page = th[t].page /\ th'[t].frame = f
              /\ th'[t].then = th[t].then
<1>1. ASSUME NEW l, Goto(t, l)
      PROVE  /\ th'[t].pc = l /\ th'[t].page = th[t].page /\ th'[t].frame = th[t].frame
             /\ th'[t].then = th[t].then
  BY <1>1 DEF Goto, ThreadRec
<1>2. ASSUME NEW l, NEW p, NEW n, GotoWith(t, l, p, n)
      PROVE  /\ th'[t].pc = l /\ th'[t].page = p /\ th'[t].frame = th[t].frame
             /\ th'[t].then = n
  BY <1>2 DEF GotoWith, ThreadRec
<1>3. ASSUME NEW l, NEW f, GotoFrame(t, l, f)
      PROVE  /\ th'[t].pc = l /\ th'[t].page = th[t].page /\ th'[t].frame = f
             /\ th'[t].then = th[t].then
  BY <1>3 DEF GotoFrame, ThreadRec
<1>. QED BY <1>1, <1>2, <1>3

\* Which handler runs says where its thread is, ...
LEMMA ActsAt ==
  ASSUME NEW t \in Procs, Kernel(t)
  PROVE  /\ th[t].pc = "map" => SetPage(t)
         /\ th[t].pc = "fill" => Fill(t)
         /\ th[t].pc = "clear" => ClearPage(t)
         /\ th[t].pc = "destroy" => DestroyPage(t)
         /\ th[t].pc = "free" => FreePage(t)
         /\ th[t].pc = "save" => Save(t)
         /\ th[t].pc = "done" => Activated(t)
         /\ th[t].pc = "writeback" => WriteBack(t)
         /\ th[t].pc # "user"
<1>. USE DEF At
<1>1. /\ Activate(t) => th[t].pc = "lock"
      /\ GetPage(t) => th[t].pc = "alloc"
      /\ Search(t) => th[t].pc = "search"
      /\ Scan(t) => th[t].pc = "scan"
      /\ Evict(t) => th[t].pc = "evict"
      /\ Save(t) => th[t].pc = "save"
      /\ ClearPage(t) => th[t].pc = "clear"
      /\ Unlist(t) => th[t].pc = "unlist"
  BY DEF Activate, GetPage, Search, Scan, Evict, Save, ClearPage, Unlist
<1>2. /\ InitSingle(t) => th[t].pc = "init"
      /\ SetPage(t) => th[t].pc = "map"
      /\ Fill(t) => th[t].pc = "fill"
      /\ Activated(t) => th[t].pc = "done"
      /\ Prohibit(t) => th[t].pc = "prohibit"
      /\ ProhibitLocked(t) => th[t].pc = "plock"
      /\ Argument(t) => th[t].pc = "argument"
      /\ Release(t) => th[t].pc = "release"
  BY DEF InitSingle, SetPage, Fill, Activated, Prohibit, ProhibitLocked, Argument, Release
<1>3. /\ Permit(t) => th[t].pc = "permit"
      /\ Discard(t) => th[t].pc = "discard"
      /\ WriteBack(t) => th[t].pc = "writeback"
      /\ DestroyPage(t) => th[t].pc = "destroy"
      /\ FreePage(t) => th[t].pc = "free"
      /\ Exit(t) => th[t].pc = "exit"
  BY DEF Permit, Discard, WriteBack, DestroyPage, FreePage, Exit
<1>4. (\E v \in Values \cup {Read} : Transfer(t, v)) => th[t].pc = "transfer"
  BY DEF Transfer
<1>. QED BY <1>1, <1>2, <1>3, <1>4 DEF Kernel

\* ... and where a thread gets to says which handler has run.
LEMMA Turns ==
  ASSUME IInv, NEW t \in Procs, Program(t) \/ Kernel(t)
  PROVE  /\ th'[t].pc = "fill" => Kernel(t) /\ SetPage(t)
         /\ th'[t].pc = "free" => Kernel(t) /\ DestroyPage(t)
         /\ th'[t].pc = "init" => Kernel(t) /\ GetPage(t)
         /\ th'[t].pc = "map" => Kernel(t) /\ InitSingle(t)
         /\ th'[t].pc = "save" => Kernel(t) /\ (Evict(t) \/ (Save(t) /\ UNCHANGED <<th, pg>>))
         /\ th'[t].pc = "clear" => Kernel(t) /\ Save(t)
<1>. USE DEF Kill, At
<1>0. th \in [Procs -> ThreadRec] /\ GoesOn(t)
  BY DEF IInv, TypeOK, Threads
<1>m. /\ \A l : Goto(t, l) => th'[t].pc = l
      /\ \A l, p, n : GotoWith(t, l, p, n) => th'[t].pc = l
      /\ \A l, f : GotoFrame(t, l, f) => th'[t].pc = l
  BY <1>0, Moved
<1>. DEFINE Other == th'[t].pc \notin {"fill", "free", "init", "map", "save", "clear"}
<1>1. CASE Program(t)
  <2>0. th[t].pc = "user"
    BY <1>1 DEF Program, CallExit, Access, Fault, GrowStack, MMap, CallMUnmap, CheckPointer, Runs
  <2>1. CallExit(t) => Other
    BY <1>0, <1>m DEF CallExit
  <2>2. ASSUME NEW p \in Pages, Fault(t, p) \/ GrowStack(t, p) \/ CallMUnmap(t, p) PROVE Other
    BY <1>0, <1>m, <2>2 DEF Fault, GrowStack, CallMUnmap, MUnmap
  <2>3. ASSUME NEW p \in Pages, NEW grow \in BOOLEAN, CheckPointer(t, p, grow) PROVE Other
    BY <1>0, <1>m, <2>0, <2>3 DEF CheckPointer
  <2>4. ASSUME NEW p \in Pages, MMap(t, p) \/ \E v : Access(t, p, v) PROVE Other
    BY <2>0, <2>4 DEF MMap, Access
  <2>. QED BY <1>1, <2>1, <2>2, <2>3, <2>4 DEF Program
<1>2. CASE Kernel(t)
  <2>1. /\ Activate(t) => Other
        /\ Search(t) => Other
        /\ Scan(t) => Other
        /\ ClearPage(t) => Other
        /\ Unlist(t) => Other
    <3>1. Activate(t) => Other
      BY <1>0, <1>m DEF Activate
    <3>2. Search(t) => Other
      BY <1>0, <1>m DEF Search
    <3>3. Scan(t) => Other
      BY <1>0, <1>m DEF Scan
    <3>. QED BY <1>0, <1>m, <3>1, <3>2, <3>3 DEF ClearPage, Unlist
  <2>2. /\ Fill(t) => Other
        /\ Activated(t) => Other
        /\ Prohibit(t) => Other
        /\ ProhibitLocked(t) => Other
    <3>1. Fill(t) => Other
      BY <1>0, <1>m DEF Fill
    <3>2. Activated(t) => Other
      BY <1>0, <1>m DEF Activated, GoesOn, WaitPCs
    <3>3. Prohibit(t) => Other
      BY <1>0, <1>m DEF Prohibit
    <3>. QED BY <1>0, <1>m, <3>1, <3>2, <3>3 DEF ProhibitLocked, GoesOn
  <2>3. /\ Argument(t) => Other
        /\ Release(t) => Other
        /\ Permit(t) => Other
        /\ Discard(t) => Other
        /\ WriteBack(t) => Other
    <3>1. Argument(t) => Other
      BY <1>0, <1>m DEF Argument, CheckToPermit
    <3>2. Release(t) => Other
      BY <1>0, <1>m DEF Release, CheckToPermit
    <3>3. Permit(t) => Other
      BY <1>0, <1>m DEF Permit, GoesOn
    <3>. QED BY <1>0, <1>m, <3>1, <3>2, <3>3 DEF Discard, WriteBack
  <2>4. /\ (\E v \in Values \cup {Read} : Transfer(t, v)) => Other
        /\ FreePage(t) => Other
        /\ Exit(t) => Other
    <3>1. (\E v \in Values \cup {Read} : Transfer(t, v)) => Other
      BY <1>0, <1>m DEF Transfer
    <3>2. FreePage(t) => Other
      BY <1>0, <1>m DEF FreePage
    <3>. QED BY <1>0, <1>m, <3>1, <3>2 DEF Exit, MUnmap
  <2>5. /\ GetPage(t) => Other \/ th'[t].pc = "init"
        /\ Evict(t) => th'[t].pc = "save"
        /\ Save(t) => th'[t].pc = "clear" \/ (th'[t].pc = "save" /\ UNCHANGED <<th, pg>>)
        /\ InitSingle(t) => th'[t].pc = "map"
        /\ SetPage(t) => th'[t].pc = "fill"
        /\ DestroyPage(t) => th'[t].pc = "free"
    BY <1>0, <1>m DEF GetPage, Evict, Save, InitSingle, SetPage, DestroyPage
  <2>. QED BY <1>2, <2>1, <2>2, <2>3, <2>4, <2>5 DEF Kernel
<1>. QED BY <1>1, <1>2

\* A step of a thread.
Steps(t) == Program(t) \/ Kernel(t)

\* What a step can change, for both kinds of steps.
LEMMA FootOf ==
  ASSUME IInv, NEW t \in Procs, Steps(t)
  PROVE  Foot(t)
BY ProgramFoot, KernelFoot DEF Steps

\* Only the kernel moves a thread that is not in its program.
LEMMA WorksAt ==
  ASSUME IInv, NEW t \in Procs, th[t].pc # "user", Steps(t)
  PROVE  Kernel(t)
<1>1. Program(t) => th[t].pc = "user"
  BY DEF Program, CallExit, Access, Fault, GrowStack, MMap, CallMUnmap, CheckPointer, Runs, At
<1>. QED BY <1>1 DEF Steps

\* A page gets a frame to be filled, and loses it to an eviction or its end.
LEMMA Remapped ==
  ASSUME IInv, NEW t \in Procs, Steps(t), NEW p \in Pages, pg'[p].kpage # pg[p].kpage
  PROVE  \/ /\ th[t].pc = "map" /\ p = th[t].page /\ ~ Mapped(p) /\ Filling(p)'
            /\ pg'[p].kpage = th[t].frame
         \/ /\ th[t].pc = "clear" /\ p = Victim(t) /\ pg'[p].kpage = NoFrame
         \/ /\ th[t].pc = "free" /\ p = th[t].page /\ pg'[p].kpage = NoFrame
<1>0. /\ th \in [Procs -> ThreadRec] /\ pg \in [Pages -> PageRec]
      /\ PageFoot(t) /\ Holds(t)
  BY FootOf DEF IInv, TypeOK, Threads, Foot
<1>1. CASE th[t].pc = "map" /\ p = th[t].page
  <2>1. SetPage(t)
    BY <1>1, WorksAt, ActsAt
  <2>2. th'[t].pc = "fill" /\ th'[t].page = p
    BY <1>0, <1>1, <2>1, Moved DEF SetPage
  <2>3. pg'[p].kpage = th[t].frame
    BY <1>0, <1>1, <2>1 DEF SetPage, PageRec
  <2>4. Filling(p)'
    BY <2>2 DEF Filling
  <2>. QED BY <1>0, <1>1, <2>3, <2>4 DEF Holds, LoadPCs, Mapped
<1>2. CASE th[t].pc = "clear" /\ p = Victim(t)
  <2>1. ClearPage(t)
    BY <1>2, WorksAt, ActsAt
  <2>2. pg'[p].kpage = NoFrame
    BY <1>0, <1>2, <2>1 DEF ClearPage, PageRec, Victim
  <2>. QED BY <1>2, <2>2
<1>3. CASE th[t].pc = "free" /\ p = th[t].page
  <2>1. FreePage(t)
    BY <1>3, WorksAt, ActsAt
  <2>2. pg'[p].kpage = NoFrame
    BY <1>0, <1>3, <2>1 DEF FreePage, PageRec
  <2>. QED BY <1>3, <2>2
<1>. QED BY <1>0, <1>1, <1>2, <1>3 DEF PageFoot

\* What a page is filled with; from the swap, it is dirty at once.
LEMMA Filled ==
  ASSUME IInv, NEW t \in Procs, Fill(t), Carries(t)
  PROVE  LET p == th[t].page
             f == th[t].frame IN
         /\ p \in Pages /\ f \in Frames /\ pg[p].kpage = f
         /\ pg'[p].kpage = f /\ pg'[p].sector_t = pg[p].sector_t
         /\ fr'[f].data = IF pg[p].sector_t # NoSlot THEN swap[pg[p].sector_t] ELSE Fresh(p)
         /\ pg[p].sector_t # NoSlot => fr'[f].kdirty
         /\ UNCHANGED <<swap, file>>
<1>. DEFINE p == th[t].page
            f == th[t].frame
<1>0. /\ fr \in [Frames -> FrameRec] /\ pg \in [Pages -> PageRec]
      /\ th[t].pc = "fill" /\ f \in Frames /\ p \in Pages /\ pg[p].kpage = f
  BY HandFrame DEF IInv, TypeOK, Fill, At, HandPCs, EvictPCs
<1>1. fr[f].data = Zero
  BY <1>0 DEF Carries
<1>2. pg'[p].kpage = f /\ pg'[p].sector_t = pg[p].sector_t
  BY <1>0 DEF Fill, PageRec
<1>3. CASE pg[p].sector_t # NoSlot
  <2>1. fr' = [fr EXCEPT ![f].data = swap[pg[p].sector_t], ![f].kdirty = TRUE]
    BY <1>3 DEF Fill
  <2>2. fr'[f].data = swap[pg[p].sector_t] /\ fr'[f].kdirty
    BY <1>0, <2>1 DEF FrameRec
  <2>. QED BY <1>0, <1>2, <1>3, <2>2 DEF Fill, disk_vars
<1>4. CASE pg[p].sector_t = NoSlot /\ p \in FilePages
  <2>1. fr' = [fr EXCEPT ![f].data = file[p]]
    BY <1>4 DEF Fill
  <2>2. fr'[f].data = file[p]
    BY <1>0, <2>1 DEF FrameRec
  <2>. QED BY <1>0, <1>2, <1>4, <2>2 DEF Fill, disk_vars, Fresh
<1>5. CASE pg[p].sector_t = NoSlot /\ p \notin FilePages
  <2>1. fr' = fr
    BY <1>5 DEF Fill
  <2>. QED BY <1>0, <1>1, <1>2, <1>5, <2>1 DEF Fill, disk_vars, Fresh
<1>. QED BY <1>3, <1>4, <1>5

\* Nobody but its own thread fills, loads or destroys a page.
LEMMA OwnPage ==
  ASSUME IInv, NEW t \in Procs, NEW u \in Procs, th[t].pc \notin IdlePCs,
         th[u].pc \notin IdlePCs, th[t].page = th[u].page
  PROVE  t = u
BY DEF IInv, Threads, Works

\* A page stays as good as its file as long as it is not dirty.
LEMMA OtherPages ==
  ASSUME IInv, DataInv, NEW t \in Procs, Steps(t), NEW p \in Pages
  PROVE  Backed(p)'
<1>. DEFINE k == pg[p].kpage
<1>0. /\ Foot(t) /\ Carries(t) /\ Backed(p) /\ Holds(t)
      /\ fr \in [Frames -> FrameRec] /\ NoPage \notin Pages
      /\ \A q \in Pages : Mapped(q) => pg[q].kpage \in Frames /\ fr[pg[q].kpage].user = q
      /\ (th[t].pc \notin IdlePCs => th[t].page \in Pages)
  BY FootOf, AtWork, Types, FramesAssumption
     DEF DataInv, IInv, TypeOK, Threads, FrameInv, Mapped
<1>. SUFFICES ASSUME Kept(p), pg'[p].kpage # NoFrame, ~ Filling(p)', ~ pg'[p].dirty,
                     ~ fr'[pg'[p].kpage].kdirty
              PROVE  fr'[pg'[p].kpage].data = Fresh(p)'
  BY DEF Backed, Mapped, IsDirty
<1>1. pg'[p].kpage = k /\ Mapped(p) /\ k \in Frames /\ fr[k].user = p
  BY <1>0, Remapped DEF Mapped
<1>2. Fresh(p)' = Fresh(p)
  <2>1. file'[p] = file[p]
    BY <1>0 DEF Foot, DiskFoot, Carries, Kept
  <2>. QED BY <2>1 DEF Fresh
<1>3. th[t].pc # "map" \/ p # th[t].page
  BY <1>0, <1>1 DEF Holds, LoadPCs, Mapped
<1>4. ~ pg[p].dirty
  BY <1>0, <1>3 DEF Foot, PageFoot, Kept
<1>5. ~ fr[k].kdirty
  <2>1. ASSUME th[t].pc = "init", k = th[t].frame PROVE FALSE
    BY <1>0, <1>1, <2>1, HandFrame DEF HandPCs, Victim
  <2>2. ASSUME th[t].pc = "discard", th[t].page \in Sync, k = pg[th[t].page].kpage PROVE FALSE
    <3>1. th[t].page \in Pages /\ Mapped(th[t].page)
      BY <1>0, <1>1, <2>2 DEF IdlePCs, Mapped
    <3>2. th[t].page = p
      BY <1>0, <1>1, <2>2, <3>1
    <3>. QED BY <2>2, <3>2 DEF Kept
  <2>. QED BY <1>0, <1>1, <2>1, <2>2 DEF Foot, FrameFoot
<1>6. CASE Filling(p)
  <2>1. PICK u \in Procs : th[u].pc = "fill" /\ th[u].page = p
    BY <1>6 DEF Filling
  <2>2. u = t
    BY <1>0, <2>1 DEF Foot, OnlyMoves, Filling
  <2>3. Fill(t) /\ p = th[t].page
    BY <2>1, <2>2, WorksAt, ActsAt
  <2>4. fr'[k].data = Fresh(p)
    BY <1>0, <1>1, <2>3, Filled
  <2>. QED BY <1>1, <1>2, <2>4
<1>7. CASE ~ Filling(p)
  <2>1. fr[k].data = Fresh(p)
    BY <1>0, <1>1, <1>4, <1>5, <1>7 DEF Backed, IsDirty
  <2>2. k \notin pool
    BY <1>0, <1>1 DEF IInv, FrameInv, Owned
  <2>3. ASSUME th[t].pc = "fill", k = th[t].frame PROVE FALSE
    BY <1>1, <1>7, <2>3, HandFrame DEF HandPCs, Victim, Filling
  <2>4. ASSUME NEW q \in Pages, Writes(t, q), k = pg[q].kpage PROVE FALSE
    <3>1. q = p
      BY <1>1, <2>4, WrittenFrame
    <3>. QED BY <2>4, <3>1 DEF Writes
  <2>5. fr'[k].data = fr[k].data
    BY <1>0, <1>1, <2>2, <2>3, <2>4 DEF Foot, FrameFoot
  <2>. QED BY <1>1, <1>2, <2>1, <2>5
<1>. QED BY <1>6, <1>7

\* Pages of mappings never go to the swap.
LEMMA OtherSlots ==
  ASSUME IInv, DataInv, NEW t \in Procs, Steps(t), NEW p \in Pages, pg'[p].sector_t # NoSlot
  PROVE  p \notin Sync
<1>0. Foot(t) /\ pg \in [Pages -> PageRec] /\ (pg[p].sector_t # NoSlot => p \notin Sync)
  BY FootOf DEF DataInv, IInv, TypeOK
<1>1. CASE th[t].pc = "done" /\ p = th[t].page
  <2>1. Activated(t)
    BY <1>1, WorksAt, ActsAt
  <2>. QED BY <1>0, <1>1, <2>1 DEF Activated, PageRec
<1>2. CASE th[t].pc = "destroy" /\ p = th[t].page
  <2>1. DestroyPage(t)
    BY <1>2, WorksAt, ActsAt
  <2>. QED BY <1>0, <1>2, <2>1 DEF DestroyPage, PageRec
<1>3. CASE th[t].pc = "save" /\ p = Victim(t)
  <2>1. Save(t)
    BY <1>3, WorksAt, ActsAt
  <2>. QED BY <1>0, <1>3, <2>1 DEF Save, Victim
<1>. QED BY <1>0, <1>1, <1>2, <1>3 DEF Foot, PageFoot

\* The swap is never full when a page has to go there.
LEMMA SwapHasRoom ==
  ASSUME SwapSuffices, IInv, DataInv, NEW p \in Pages \ Sync, pg[p].sector_t = NoSlot
  PROVE  used # Slots
<1>. DEFINE S == Pages \ Sync
            out == {q \in Pages : pg[q].sector_t # NoSlot}
            g == [q \in out |-> pg[q].sector_t]
<1>1. IsFiniteSet(S) /\ Cardinality(S) \in Nat /\ NumSlots \in Nat /\ Cardinality(S) <= NumSlots
  <2>1. IsFiniteSet(S)
    BY FS_Subset DEF SwapSuffices
  <2>. QED BY <2>1, FS_CardinalityType, FramesAssumption DEF SwapSuffices
<1>2. IsFiniteSet(S \ {p}) /\ Cardinality(S \ {p}) = Cardinality(S) - 1
  BY <1>1, FS_RemoveElement
<1>3. out \in SUBSET (S \ {p})
  BY DEF DataInv
<1>4. IsFiniteSet(out) /\ Cardinality(out) <= Cardinality(S) - 1
  BY <1>2, <1>3, FS_Subset
<1>5. used = {pg[q].sector_t : q \in out}
  BY DEF IInv, SlotsAccounted
<1>6. g \in Surjection(out, used)
  BY <1>5 DEF Surjection
<1>. HIDE DEF g, out, S
<1>7. Cardinality(used) <= Cardinality(out)
  BY <1>4, <1>6, FS_Surjection
<1>8. Cardinality(Slots) = NumSlots
  <2>1. Cardinality(1 .. NumSlots) = IF 1 > NumSlots THEN 0 ELSE NumSlots - 1 + 1
    BY <1>1, FS_Interval
  <2>. QED BY <1>1, <2>1 DEF Slots
<1>9. Cardinality(out) \in Nat
  BY <1>4, FS_CardinalityType
<1>10. Cardinality(used) <= NumSlots - 1 => used # Slots
  BY <1>1, <1>8
<1>11. Cardinality(used) \in Int
  <2>1. IsFiniteSet(used)
    BY <1>4, <1>6, FS_Surjection
  <2>. QED BY <2>1, FS_CardinalityType
<1>. QED BY <1>1, <1>4, <1>7, <1>9, <1>10, <1>11

\* A thread writes back for a mapping.
LEMMA ForMapping ==
  ASSUME IInv, NEW t \in Procs, Steps(t), Carries(t)
  PROVE  th'[t].then = "writeback" \/ th'[t].pc = "writeback" => th'[t].page \in Sync
<1>. USE DEF Kill, At
<1>. DEFINE Q == th'[t].then = "writeback" \/ th'[t].pc = "writeback" => th'[t].page \in Sync
<1>0. /\ th \in [Procs -> ThreadRec]
      /\ th[t].then = "writeback" \/ th[t].pc = "writeback" => th[t].page \in Sync
  BY DEF IInv, TypeOK, Carries
<1>m. /\ \A l : Goto(t, l) => th'[t].pc = l /\ th'[t].page = th[t].page /\ th'[t].then = th[t].then
      /\ \A l, p, n : GotoWith(t, l, p, n) =>
            th'[t].pc = l /\ th'[t].page = p /\ th'[t].then = n
      /\ \A l, f : GotoFrame(t, l, f) =>
            th'[t].pc = l /\ th'[t].page = th[t].page /\ th'[t].then = th[t].then
  BY <1>0, Moved
<1>1. CASE Program(t)
  <2>1. CallExit(t) => Q
    BY <1>0, <1>m DEF CallExit
  <2>2. ASSUME NEW p \in Pages, Fault(t, p) \/ GrowStack(t, p) \/ CallMUnmap(t, p) PROVE Q
    BY <1>0, <1>m, <2>2 DEF Fault, GrowStack, CallMUnmap, MUnmap
  <2>3. ASSUME NEW p \in Pages, NEW grow \in BOOLEAN, CheckPointer(t, p, grow) PROVE Q
    BY <1>0, <1>m, <2>3 DEF CheckPointer
  <2>4. ASSUME NEW p \in Pages, MMap(t, p) \/ \E v : Access(t, p, v) PROVE Q
    BY <1>0, <2>4 DEF MMap, Access
  <2>. QED BY <1>1, <2>1, <2>2, <2>3, <2>4 DEF Program
<1>2. CASE Kernel(t)
  <2>1. /\ Activate(t) => Q
        /\ Search(t) => Q
        /\ Scan(t) => Q
        /\ ClearPage(t) => Q
        /\ Unlist(t) => Q
    BY <1>0, <1>m DEF Activate, Search, Scan, ClearPage, Unlist
  <2>2. /\ Fill(t) => Q
        /\ Activated(t) => Q
        /\ Prohibit(t) => Q
        /\ ProhibitLocked(t) => Q
    BY <1>0, <1>m DEF Fill, Activated, Prohibit, ProhibitLocked
  <2>3. /\ Argument(t) => Q
        /\ Release(t) => Q
        /\ Permit(t) => Q
        /\ Discard(t) => Q
        /\ WriteBack(t) => Q
    BY <1>0, <1>m DEF Argument, Release, Permit, Discard, WriteBack, CheckToPermit
  <2>4. /\ (\E v \in Values \cup {Read} : Transfer(t, v)) => Q
        /\ FreePage(t) => Q
        /\ Exit(t) => Q
    BY <1>0, <1>m DEF Transfer, FreePage, Exit, MUnmap
  <2>5. /\ GetPage(t) => Q
        /\ Evict(t) => Q
        /\ Save(t) => Q
        /\ InitSingle(t) => Q
        /\ SetPage(t) => Q
        /\ DestroyPage(t) => Q
    BY <1>0, <1>m DEF GetPage, Evict, Save, InitSingle, SetPage, DestroyPage
  <2>. QED BY <1>2, <2>1, <2>2, <2>3, <2>4, <2>5 DEF Kernel
<1>. QED BY <1>1, <1>2 DEF Steps

\* What a thread has kept of its victim.
LEMMA SaveCarries ==
  ASSUME SwapSuffices, IInv, DataInv, NEW t \in Procs, Save(t), Kept(Victim(t))
  PROVE  LET v == Victim(t)
             s == pg'[v].sector_t IN
         fr[th[t].frame].data = IF s # NoSlot THEN swap'[s] ELSE Fresh(v)
<1>. DEFINE f == th[t].frame
            v == Victim(t)
<1>0. /\ th[t].pc = "save" /\ v \in Pages \ Sync /\ pg[v].lock = t /\ pg[v].kpage = f
      /\ f \in Frames /\ f # NoFrame /\ Backed(v) /\ v = fr[f].user
      /\ pg \in [Pages -> PageRec] /\ swap \in [Slots -> Values] /\ used \subseteq Slots
  BY HandFrame DEF Save, At, HandPCs, EvictPCs, DataInv, Kept, IInv, TypeOK, Victim
<1>1. ~ Moving(v) /\ ~ Filling(v)
  <2>1. ASSUME NEW u \in Procs, th[u].pc \in {"fill", "done"}, th[u].page = v PROVE FALSE
    BY <1>0, <2>1 DEF IInv, Threads, Works
  <2>2. ASSUME NEW u \in Procs, th[u].pc = "clear", Victim(u) = v PROVE FALSE
    BY <1>0, <2>2, HandFrame DEF HandPCs, EvictPCs
  <2>. QED BY <2>1, <2>2 DEF Moving, Filling
<1>2. pg[v].sector_t = NoSlot
  BY <1>0, <1>1 DEF IInv, PagesOK, Mapped
<1>3. CASE IsDirty(v)
  <2>. DEFINE s == Min(Slots \ used)
  <2>1. used # Slots
    BY <1>0, <1>2, SwapHasRoom
  <2>2. s \in Slots
    <3>1. Slots \ used \in SUBSET Nat /\ Slots \ used # {}
      BY <1>0, <2>1, Types DEF IInv
    <3>. QED BY <3>1, LeastElement
  <2>3. pg' = [pg EXCEPT ![v].sector_t = s] /\ swap' = [swap EXCEPT ![s] = fr[f].data]
    BY <1>0, <1>3, <2>1 DEF Save, SwapWrite
  <2>. HIDE DEF s
  <2>4. pg'[v].sector_t = s /\ swap'[s] = fr[f].data
    BY <1>0, <2>2, <2>3 DEF PageRec
  <2>. QED BY <2>2, <2>4, Types DEF IInv
<1>4. CASE ~ IsDirty(v)
  <2>1. pg' = pg
    BY <1>0, <1>4 DEF Save
  <2>2. fr[f].data = Fresh(v)
    BY <1>0, <1>1, <1>4 DEF Backed, Mapped
  <2>. QED BY <1>2, <2>1, <2>2
<1>. QED BY <1>3, <1>4

\* What a thread has in its own frame.
LEMMA OwnFrame ==
  ASSUME SwapSuffices, IInv, DataInv, NEW t \in Procs, Steps(t)
  PROVE  Carries(t)'
<1>0. /\ th \in [Procs -> ThreadRec] /\ fr \in [Frames -> FrameRec] /\ pg \in [Pages -> PageRec]
      /\ Carries(t)
  BY DEF IInv, TypeOK, DataInv
<1>w. th'[t].then = "writeback" \/ th'[t].pc = "writeback" => th'[t].page \in Sync
  BY <1>0, ForMapping
<1>1. CASE th'[t].pc = "init"
  <2>1. GetPage(t)
    BY <1>1, Turns DEF Steps
  <2>2. pool # {} => Min(pool) \in Frames
    <3>1. pool \in SUBSET Nat /\ pool \subseteq Frames
      BY Types DEF IInv, TypeOK
    <3>. QED BY <3>1, LeastElement
  <2>. DEFINE m == Min(pool)
  <2>3. pool # {} /\ fr' = [fr EXCEPT ![m].data = Zero] /\ GotoFrame(t, "init", m)
    <3>1. pool # {}
      BY <1>0, <1>1, <2>1, Moved DEF GetPage
    <3>. QED BY <2>1, <3>1 DEF GetPage
  <2>4. m \in Frames
    BY <2>2, <2>3
  <2>. HIDE DEF m
  <2>5. fr'[m].data = Zero /\ th'[t].frame = m
    BY <1>0, <2>3, <2>4, Moved DEF FrameRec
  <2>. QED BY <1>0, <1>1, <2>5, <1>w DEF Carries
<1>2. CASE th'[t].pc = "map"
  <2>1. InitSingle(t)
    BY <1>2, Turns DEF Steps
  <2>2. th'[t].frame = th[t].frame /\ th[t].pc = "init" /\ th[t].frame \in Frames
    BY <1>0, <2>1, Moved, AtWork DEF InitSingle, At, HandPCs
  <2>3. fr'[th[t].frame].data = fr[th[t].frame].data
    BY <1>0, <2>1, <2>2 DEF InitSingle, FrameRec
  <2>4. fr'[th'[t].frame].data = Zero
    BY <1>0, <2>2, <2>3 DEF Carries
  <2>. QED BY <1>2, <2>4, <1>w DEF Carries
<1>3. CASE th'[t].pc = "fill"
  <2>1. SetPage(t)
    BY <1>3, Turns DEF Steps
  <2>2. th'[t].frame = th[t].frame /\ th[t].pc = "map" /\ fr' = fr
    BY <1>0, <2>1, Moved DEF SetPage, At, frame_vars
  <2>3. fr'[th'[t].frame].data = Zero
    BY <1>0, <2>2 DEF Carries
  <2>. QED BY <1>3, <2>3, <1>w DEF Carries
<1>4. CASE th'[t].pc = "save"
  <2>1. th'[t].frame = th[t].frame /\ fr' = fr
    <3>1. CASE Evict(t)
      BY <1>0, <3>1, Moved DEF Evict, frame_vars
    <3>2. CASE Save(t) /\ UNCHANGED <<th, pg>>
      BY <3>2 DEF Save, frame_vars
    <3>. QED BY <1>4, <3>1, <3>2, Turns DEF Steps
  <2>2. Victim(t)' = Victim(t)
    BY <2>1 DEF Victim
  <2>3. ~ pg'[Victim(t)].user_ok
    <3>1. CASE Evict(t)
      <4>1. Victim(t) \in Pages
        BY <3>1, HandFrame DEF Evict, At, HandPCs, EvictPCs
      <4>. QED BY <1>0, <3>1, <4>1 DEF Evict, Victim, PageRec
    <3>2. CASE Save(t) /\ UNCHANGED <<th, pg>>
      BY <1>0, <3>2 DEF Save, At, Carries
    <3>. QED BY <1>4, <3>1, <3>2, Turns DEF Steps
  <2>. QED BY <1>4, <2>2, <2>3, <1>w DEF Carries
<1>5. CASE th'[t].pc = "clear"
  <2>0. Save(t) /\ th[t].pc = "save" /\ Foot(t)
    BY <1>5, Turns, FootOf DEF Steps, Save, At
  <2>1. th'[t].frame = th[t].frame /\ fr' = fr /\ file' = file
    <3>1. Goto(t, "clear") \/ th' = th
      BY <2>0 DEF Save
    <3>. QED BY <1>0, <2>0, <3>1, Moved DEF Save, frame_vars
  <2>2. Victim(t)' = Victim(t) /\ Victim(t) \in Pages
    BY <2>0, <2>1, HandFrame DEF Victim, HandPCs, EvictPCs
  <2>3. ~ pg'[Victim(t)].user_ok
    BY <1>0, <2>0, <2>2 DEF Carries, Foot, PageFoot
  <2>4. PICK v \in Pages : v = Victim(t)
    BY <2>2
  <2>5. Kept(v) => fr[th[t].frame].data = IF pg'[v].sector_t # NoSlot
                                          THEN swap'[pg'[v].sector_t] ELSE Fresh(v)
    BY <2>0, <2>4, SaveCarries
  <2>6. Fresh(v)' = Fresh(v)
    BY <2>1 DEF Fresh
  <2>7. Kept(v) => fr'[th'[t].frame].data = IF pg'[v].sector_t # NoSlot
                                            THEN swap'[pg'[v].sector_t] ELSE Fresh(v)'
    BY <2>1, <2>5, <2>6
  <2>8. Victim(t)' = v /\ Kept(v)' = Kept(v) /\ ~ pg'[v].user_ok
    BY <2>2, <2>3, <2>4 DEF Kept
  <2>. QED BY <1>5, <2>7, <2>8, <1>w DEF Carries
<1>. QED BY <1>1, <1>2, <1>3, <1>4, <1>5, <1>w DEF Carries

\* The invariant of the contents is kept, ...
LEMMA DataKept ==
  ASSUME SwapSuffices, IInv, DataInv, NEW t \in Procs, Steps(t)
  PROVE  DataInv'
<1>1. ASSUME NEW u \in Procs PROVE Carries(u)'
  BY FootOf, OtherThreads, OwnFrame
<1>2. ASSUME NEW p \in Pages PROVE Backed(p)' /\ (pg'[p].sector_t # NoSlot => p \notin Sync)
  BY OtherPages, OtherSlots
<1>. QED BY <1>1, <1>2 DEF DataInv

\* ... and holds in every state.
LEMMA DataInvariance ==
  ASSUME SwapSuffices
  PROVE  Spec => []DataInv
<1>1. Init => DataInv
  BY DEF Init, DataInv, Carries, Backed, Mapped
<1>2. IInv /\ DataInv /\ [Next]_vars => DataInv'
  <2>1. ASSUME IInv, DataInv, UNCHANGED vars PROVE DataInv'
    BY <2>1 DEF vars, frame_vars, disk_vars, end_vars, DataInv, Carries, Backed, Mapped, Kept, IsDirty,
       Filling, Fresh, Victim
  <2>. QED BY <2>1, DataKept DEF Next, Steps
<1>. QED BY <1>1, <1>2, Invariance, PTL DEF Spec

-----------------------------------------------------------------------------
\* What a page holds.

\* The page a thread works on, and its victim, are alive.
LEMMA OwnLive ==
  ASSUME IInv, NEW t \in Procs, th[t].pc \notin IdlePCs \cup {"free"}
  PROVE  /\ th[t].page \in Live \cap Pages
         /\ th[t].pc # "fill" => ~ Filling(th[t].page)
<1>1. th[t].page \in entries \cap Pages
  BY AtWork DEF IInv, Threads, Works
<1>2. \A u \in Procs : th[u].page = th[t].page /\ th[u].pc \notin IdlePCs => u = t
  BY OwnPage
<1>. QED BY <1>1, <1>2 DEF Live, Filling, IdlePCs

\* The page that is evicted exists, and has its frame until it is cleared.
LEMMA VictimLive ==
  ASSUME IInv, NEW t \in Procs, th[t].pc \in {"evict", "save", "clear"}
  PROVE  /\ Victim(t) \in Live \cap Pages /\ Mapped(Victim(t)) /\ ~ Filling(Victim(t))
         /\ pg[Victim(t)].kpage = th[t].frame
<1>1. /\ Victim(t) \in Pages /\ pg[Victim(t)].lock = t /\ Mapped(Victim(t))
      /\ pg[Victim(t)].kpage = th[t].frame
  BY HandFrame DEF HandPCs, EvictPCs, Mapped
<1>2. Victim(t) \in entries
  BY <1>1 DEF IInv, PagesOK
<1>3. ASSUME NEW u \in Procs, th[u].pc \in {"fill", "free"}, th[u].page = Victim(t) PROVE FALSE
  BY <1>1, <1>3 DEF IInv, Threads, Works
<1>. QED BY <1>1, <1>2, <1>3 DEF Live, Filling

\* A page holds what it held, wherever that is now, unless it is written to,
\* unmapped or evicted.
LEMMA ContentsStay ==
  ASSUME IInv, DataInv, NEW t \in Procs, Steps(t), NEW q \in Pages,
         q \in Live' => q \in Live \/ q \notin entries,
         q \in Live => q \in Live',
         ~ (th[t].pc = "clear" /\ q = Victim(t)),
         Writes(t, q) => fr'[pg[q].kpage].data = fr[pg[q].kpage].data
  PROVE  Contents(q)' = Contents(q)
<1>. DEFINE k == pg[q].kpage
            A == q \in Live /\ Mapped(q) /\ ~ Filling(q)
            B == q \in Live' /\ pg'[q].kpage # NoFrame /\ ~ Filling(q)'
            s == pg[q].sector_t
<1>0. /\ Foot(t) /\ th \in [Procs -> ThreadRec] /\ pg \in [Pages -> PageRec]
      /\ Holds(t) /\ NoPage \notin Pages
      /\ \A p \in Pages : Mapped(p) => pg[p].kpage \in Frames /\ fr[pg[p].kpage].user = p
      /\ (q \notin entries => ~ Mapped(q))
  BY FootOf, Types, FramesAssumption DEF IInv, TypeOK, Threads, FrameInv, Mapped, PagesOK
<1>1. Filling(q)' => Filling(q) \/ ~ Mapped(q)
  <2>1. ASSUME th'[t].pc = "fill", th'[t].page = q PROVE ~ Mapped(q)
    <3>1. SetPage(t)
      BY <2>1, Turns DEF Steps
    <3>2. th[t].pc = "map" /\ th[t].page = q
      BY <1>0, <2>1, <3>1, Moved DEF SetPage, At
    <3>. QED BY <1>0, <3>2 DEF Holds, LoadPCs, Mapped
  <2>. QED BY <1>0, <2>1 DEF Filling, Foot, OnlyMoves
<1>2. CASE A
  <2>1. pg'[q].kpage = k
    <3>1. ~ (th[t].pc = "free" /\ q = th[t].page)
      BY <1>2 DEF Live
    <3>. QED BY <1>2, <3>1, Remapped
  <2>2. k \in Frames /\ fr[k].user = q /\ k \notin pool
    BY <1>0, <1>2 DEF IInv, FrameInv, Owned
  <2>3. B
    BY <1>1, <1>2, <2>1 DEF Mapped
  <2>4. ASSUME th[t].pc = "fill", k = th[t].frame PROVE FALSE
    BY <1>2, <2>2, <2>4, HandFrame DEF HandPCs, Victim, Filling
  <2>5. ASSUME NEW p \in Pages, Writes(t, p), k = pg[p].kpage PROVE p = q
    BY <2>2, <2>5, WrittenFrame
  <2>6. fr'[k].data = fr[k].data
    BY <1>0, <2>2, <2>4, <2>5 DEF Foot, FrameFoot
  <2>7. Contents(q) = fr[k].data
    BY <1>2 DEF Contents
  <2>8. Contents(q)' = fr'[k].data
    BY <2>1, <2>3 DEF Contents, Mapped
  <2>. QED BY <2>6, <2>7, <2>8
<1>3. CASE ~ A /\ th[t].pc = "fill" /\ q = th[t].page
  <2>1. Fill(t) /\ Carries(t)
    BY <1>3, WorksAt, ActsAt DEF DataInv
  <2>2. /\ pg'[q].sector_t = s /\ swap' = swap /\ file' = file /\ pg'[q].kpage = k
        /\ fr'[k].data = IF s # NoSlot THEN swap[s] ELSE Fresh(q)
    BY <1>3, <2>1, Filled
  <2>3. Fresh(q)' = Fresh(q)
    BY <2>2 DEF Fresh
  <2>4. Contents(q) = IF s # NoSlot THEN swap[s] ELSE Fresh(q)
    BY <1>3 DEF Contents
  <2>5. Contents(q)' = IF s # NoSlot THEN swap[s] ELSE Fresh(q)
    BY <2>2, <2>3 DEF Contents
  <2>. QED BY <2>4, <2>5
<1>4. CASE ~ A /\ ~ (th[t].pc = "fill" /\ q = th[t].page)
  <2>1. Filling(q) => Filling(q)'
    BY <1>0, <1>4 DEF Filling, Foot, OnlyMoves
  <2>2. ~ B
    BY <1>0, <1>4, <2>1, Remapped DEF Mapped
  <2>3. pg'[q].sector_t = s
    <3>1. ASSUME th[t].pc = "done", q = th[t].page PROVE FALSE
      BY <1>4, <3>1, OwnLive, HandFrame DEF IdlePCs, HandPCs, Mapped
    <3>2. ASSUME th[t].pc = "destroy", q = th[t].page PROVE FALSE
      <4>1. q \in Live /\ DestroyPage(t)
        BY <3>2, OwnLive, WorksAt, ActsAt DEF IdlePCs
      <4>2. th'[t].pc = "free" /\ th'[t].page = q
        BY <1>0, <3>2, <4>1, Moved DEF DestroyPage
      <4>. QED BY <4>1, <4>2 DEF Live
    <3>3. ASSUME th[t].pc = "save", q = Victim(t) PROVE FALSE
      BY <1>4, <3>3, VictimLive
    <3>. QED BY <1>0, <3>1, <3>2, <3>3 DEF Foot, PageFoot
  <2>4. s # NoSlot => swap'[s] = swap[s]
    <3>1. s # NoSlot => s \in used \cap Slots
      BY Types DEF IInv, SlotsAccounted
    <3>. QED BY <1>0, <3>1 DEF Foot, DiskFoot
  <2>5. Fresh(q)' = Fresh(q)
    <3>1. ASSUME th[t].pc = "writeback", q = th[t].page PROVE FALSE
      <4>1. WriteBack(t)
        BY <3>1, WorksAt, ActsAt
      <4>. QED BY <1>4, <3>1, <4>1, OwnLive DEF WriteBack, IdlePCs
    <3>2. file'[q] = file[q]
      BY <1>0, <3>1 DEF Foot, DiskFoot
    <3>. QED BY <3>2 DEF Fresh
  <2>6. Contents(q) = IF s # NoSlot THEN swap[s] ELSE Fresh(q)
    BY <1>4 DEF Contents
  <2>7. Contents(q)' = IF pg'[q].sector_t # NoSlot THEN swap'[pg'[q].sector_t] ELSE Fresh(q)'
    BY <2>2 DEF Contents, Mapped
  <2>. QED BY <2>3, <2>4, <2>5, <2>6, <2>7
<1>. QED BY <1>2, <1>3, <1>4

-----------------------------------------------------------------------------
\* Every step is one of the page store, or changes nothing there.
Mem == [p \in Pages |-> Contents(p)]

\* The memory of the store, when no page has changed.
LEMMA MemStays ==
  ASSUME \A q \in Pages : Contents(q)' = Contents(q)
  PROVE  Mem' = Mem
BY DEF Mem

\* One page has changed.
LEMMA MemPut ==
  ASSUME NEW p \in Pages, NEW v, Contents(p)' = v,
         \A q \in Pages \ {p} : Contents(q)' = Contents(q)
  PROVE  Mem' = [Mem EXCEPT ![p] = v]
BY DEF Mem

\* Pages come to life and die with entries and in supp_pagedir_destroy_page only.
LEMMA LiveStays ==
  ASSUME TypeOK, NEW t \in Procs, OnlyMoves(t), entries' = entries, th[t].pc # "free",
         th'[t].pc # "free"
  PROVE  Live' = Live
BY DEF Live, OnlyMoves

\* A write, of the program or of the kernel for it.
LEMMA WriteSteps ==
  ASSUME IInv, DataInv, NEW t \in Procs, Steps(t), NEW p \in Pages, NEW v \in Values \cup {Read},
         Touch(p, v), Mapped(p), p \in entries, OwnerOf[p] = t, Live' = Live,
         \/ th[t].pc = "user" /\ pg[p].user_ok
         \/ th[t].pc = "transfer" /\ p = th[t].page
  PROVE  \/ v = Read /\ UNCHANGED <<Live, Mem, last, file>>
         \/ v \in Values /\ Store!SWrite(p, v)
<1>0. /\ TypeOK
      /\ \A q \in Pages : pg'[q].kpage = pg[q].kpage /\ pg'[q].sector_t = pg[q].sector_t
      /\ v = Read => fr' = fr /\ last' = last
      /\ v # Read => /\ last' = [last EXCEPT ![p] = v] /\ fr'[pg[p].kpage].data = v
                     /\ \A f \in Frames \ {pg[p].kpage} : fr'[f].data = fr[f].data
  BY TouchFoot DEF IInv
<1>1. \A q \in Pages : Mapped(q) => pg[q].kpage \in Frames /\ fr[pg[q].kpage].user = q
  BY <1>0, Types DEF IInv, FrameInv, Mapped
<1>2. file' = file
  BY DEF Touch
<1>3. th[t].pc # "clear"
  OBVIOUS
<1>4. CASE v = Read
  <2>1. ASSUME NEW q \in Pages PROVE Contents(q)' = Contents(q)
    BY <1>0, <1>3, <1>4, ContentsStay
  <2>. QED BY <1>0, <1>2, <1>4, <2>1, MemStays
<1>5. CASE v # Read
  <2>1. ASSUME NEW q \in Pages \ {p} PROVE Contents(q)' = Contents(q)
    <3>1. Writes(t, q) => fr'[pg[q].kpage].data = fr[pg[q].kpage].data
      BY <1>0, <1>1, <1>5 DEF Writes, Mapped
    <3>. QED BY <1>3, <3>1, ContentsStay
  <2>2. p \in Live
    <3>1. ASSUME NEW u \in Procs, th[u].pc = "free", th[u].page = p PROVE FALSE
      BY <3>1 DEF IInv, Threads, Works, IdlePCs
    <3>. QED BY <3>1 DEF Live
  <2>3. ~ Filling(p)'
    <3>1. ASSUME NEW u \in Procs, th[u].pc = "fill", th[u].page = p PROVE FALSE
      BY <3>1 DEF IInv, Threads, Works, IdlePCs
    <3>2. th'[t].pc # "fill"
      <4>1. th'[t].pc = "fill" => th[t].pc = "map"
        BY Turns DEF Steps, SetPage, At
      <4>. QED BY <4>1
    <3>3. OnlyMoves(t)
      BY FootOf DEF Foot
    <3>. QED BY <3>1, <3>2, <3>3 DEF Filling, OnlyMoves
  <2>4. Contents(p)' = v
    BY <1>0, <1>5, <2>2, <2>3 DEF Contents, Mapped
  <2>5. Mem' = [Mem EXCEPT ![p] = v]
    BY <2>1, <2>4, MemPut
  <2>. QED BY <1>0, <1>2, <1>5, <2>2, <2>5 DEF Store!SWrite, Mem
<1>. QED BY <1>4, <1>5

\* What a program does.
LEMMA ProgramStore ==
  ASSUME IInv, DataInv, NEW t \in Procs, Program(t)
  PROVE  Store!SNext \/ UNCHANGED <<Live, Mem, last, file>>
<1>0. /\ Steps(t) /\ OnlyMoves(t) /\ th[t].pc = "user" /\ th'[t].pc # "free" /\ TypeOK
      /\ \A q \in Pages : Writes(t, q) => Mapped(q)
  <2>1. th[t].pc = "user"
    BY DEF Program, CallExit, Access, Fault, GrowStack, MMap, CallMUnmap, CheckPointer, Runs, At
  <2>2. th'[t].pc = "free" => th[t].pc = "destroy"
    BY Turns DEF DestroyPage, At
  <2>. QED BY <2>1, <2>2, FootOf, Types DEF Steps, Foot, IInv, Writes, Mapped
<1>1. ASSUME entries' = entries, fr' = fr, UNCHANGED <<last, file>>
      PROVE  UNCHANGED <<Live, Mem, last, file>>
  <2>1. Live' = Live
    BY <1>0, <1>1, LiveStays
  <2>2. ASSUME NEW q \in Pages PROVE Contents(q)' = Contents(q)
    BY <1>0, <1>1, <2>1, ContentsStay
  <2>. QED BY <1>1, <2>1, <2>2, MemStays
<1>2. CASE CallExit(t)
  BY <1>1, <1>2 DEF CallExit, frame_vars, disk_vars
<1>3. ASSUME NEW p \in Pages, NEW v \in Values \cup {Read}, Access(t, p, v)
      PROVE  Store!SNext \/ UNCHANGED <<Live, Mem, last, file>>
  <2>1. Live' = Live
    BY <1>0, <1>3, LiveStays DEF Access
  <2>2. \/ v = Read /\ UNCHANGED <<Live, Mem, last, file>>
        \/ v \in Values /\ Store!SWrite(p, v)
    BY <1>0, <1>3, <2>1, WriteSteps DEF Access, Owns
  <2>. QED BY <2>2 DEF Store!SNext
<1>4. ASSUME NEW p \in Pages, Fault(t, p) \/ CallMUnmap(t, p)
      PROVE  UNCHANGED <<Live, Mem, last, file>>
  BY <1>1, <1>4 DEF Fault, CallMUnmap, MUnmap, frame_vars, disk_vars
<1>5. ASSUME NEW p \in Pages, Create(t, p) PROVE Store!SMap(p)
  <2>1. p \notin entries /\ entries' = entries \cup {p} /\ fr' = fr /\ UNCHANGED <<last, file>>
    BY <1>5 DEF Create, frame_vars, disk_vars
  <2>2. ASSUME NEW u \in Procs PROVE ~ (th[u].pc = "free" /\ th[u].page = p)
    BY <2>1, <2>2 DEF IInv, Threads, Works, IdlePCs
  <2>3. \A q : (\A u \in Procs : ~ (th'[u].pc = "free" /\ th'[u].page = q))
               <=> (\A u \in Procs : ~ (th[u].pc = "free" /\ th[u].page = q))
    BY <1>0 DEF OnlyMoves
  <2>4. Live' = Live \cup {p} /\ p \notin Live
    BY <2>1, <2>2, <2>3 DEF Live
  <2>5. ASSUME NEW q \in Pages PROVE Contents(q)' = Contents(q)
    BY <1>0, <2>1, <2>4, ContentsStay
  <2>. QED BY <2>1, <2>4, <2>5, MemStays DEF Store!SMap, Mem
<1>6. ASSUME NEW p \in Pages, GrowStack(t, p) \/ MMap(t, p) PROVE Store!SMap(p)
  BY <1>5, <1>6 DEF GrowStack, MMap
<1>7. ASSUME NEW p \in Pages, NEW grow \in BOOLEAN, CheckPointer(t, p, grow)
      PROVE  UNCHANGED <<Live, Mem, last, file>>
  BY <1>1, <1>7 DEF CheckPointer, frame_vars, disk_vars
<1>. QED BY <1>2, <1>3, <1>4, <1>6, <1>7 DEF Program, Store!SNext

\* The store does not see what the kernel does otherwise, ...
LEMMA QuietStore ==
  ASSUME IInv, DataInv, NEW t \in Procs, Kernel(t),
         th[t].pc \notin {"clear", "destroy", "free"},
         entries' = entries, UNCHANGED <<last, file>>, th[t].pc = "transfer" => fr' = fr
  PROVE  UNCHANGED <<Live, Mem, last, file>>
<1>0. /\ Steps(t) /\ OnlyMoves(t) /\ TypeOK /\ th[t].pc # "user"
      /\ th'[t].pc # "free"
  <2>1. Steps(t) /\ th[t].pc # "user"
    BY ActsAt DEF Steps
  <2>2. th'[t].pc = "free" => th[t].pc = "destroy"
    BY <2>1, Turns DEF Steps, DestroyPage, At
  <2>. QED BY <2>1, <2>2, FootOf DEF Foot, IInv
<1>1. Live' = Live
  BY <1>0, LiveStays
<1>2. ASSUME NEW q \in Pages PROVE Contents(q)' = Contents(q)
  <2>1. Writes(t, q) => fr'[pg[q].kpage].data = fr[pg[q].kpage].data
    BY <1>0 DEF Writes
  <2>. QED BY <1>0, <1>1, <2>1, ContentsStay
<1>. QED BY <1>1, <1>2, MemStays

\* ... a page that is evicted loses its last writes only where they are not
\* sure to stay, ...
LEMMA ClearStore ==
  ASSUME IInv, DataInv, NEW t \in Procs, ClearPage(t), Kernel(t)
  PROVE  Store!SNext \/ UNCHANGED <<Live, Mem, last, file>>
<1>. DEFINE v == Victim(t)
            s == pg[v].sector_t
            c == IF s # NoSlot THEN swap[s] ELSE Fresh(v)
<1>0. /\ TypeOK /\ pg \in [Pages -> PageRec] /\ th \in [Procs -> ThreadRec] /\ Carries(t)
      /\ th[t].pc = "clear" /\ Steps(t) /\ OnlyMoves(t)
      /\ UNCHANGED <<fr, entries, swap, file, last>>
      /\ pg' = [pg EXCEPT ![v].kpage = NoFrame] /\ Goto(t, "unlist")
  BY FootOf DEF IInv, TypeOK, DataInv, ClearPage, At, Steps, Foot, frame_vars, disk_vars, Victim
<1>1. /\ v \in Live \cap Pages /\ Mapped(v) /\ ~ Filling(v)
      /\ pg[v].kpage = th[t].frame
  BY <1>0, VictimLive
<1>2. PICK w \in Pages : w = v
  BY <1>1
<1>3. Live' = Live
  <2>1. th'[t].pc # "free"
    BY <1>0, Moved
  <2>. QED BY <1>0, <2>1, LiveStays
<1>4. ASSUME NEW q \in Pages \ {w} PROVE Contents(q)' = Contents(q)
  <2>1. q # v
    BY <1>2
  <2>. QED BY <1>0, <1>3, <2>1, ContentsStay
<1>5. PICK d : d = c
  OBVIOUS
<1>6. Contents(w) = fr[th[t].frame].data
  BY <1>1, <1>2 DEF Contents
<1>7. Contents(w)' = d
  <2>1. pg'[w].kpage = NoFrame /\ pg'[w].sector_t = s
    BY <1>0, <1>2 DEF PageRec
  <2>2. Fresh(w)' = Fresh(v)
    BY <1>0, <1>2 DEF Fresh
  <2>3. Contents(w)' = IF pg'[w].sector_t # NoSlot THEN swap'[pg'[w].sector_t] ELSE Fresh(w)'
    BY <2>1 DEF Contents, Mapped
  <2>. QED BY <1>0, <1>5, <2>1, <2>2, <2>3
<1>8. CASE Kept(w)
  <2>1. Contents(w)' = Contents(w)
    BY <1>0, <1>2, <1>5, <1>6, <1>7, <1>8 DEF Carries
  <2>2. Mem' = Mem
    BY <1>4, <2>1, MemStays
  <2>. QED BY <1>0, <1>3, <2>2
<1>9. CASE ~ Kept(w)
  <2>1. Mem' = [Mem EXCEPT ![w] = d]
    BY <1>4, <1>7, MemPut
  <2>2. d \in Values
    <3>1. s \in Slots \cup {NoSlot}
      BY <1>0, <1>1, Types
    <3>2. swap \in [Slots -> Values] /\ file \in [Pages -> Values] /\ Zero \in Values
      BY <1>0, FramesAssumption DEF TypeOK
    <3>. QED BY <1>1, <1>5, <3>1, <3>2 DEF Fresh
  <2>3. w \in Sync \cup ArgPages
    BY <1>9 DEF Kept
  <2>4. Store!SLose(w, d)
    BY <1>0, <1>3, <2>1, <2>3 DEF Store!SLose, Mem
  <2>. QED BY <2>2, <2>4 DEF Store!SNext
<1>. QED BY <1>8, <1>9

\* ... a mapping is written back from its page, ...
LEMMA WriteBackStore ==
  ASSUME IInv, DataInv, NEW t \in Procs, WriteBack(t), Kernel(t)
  PROVE  Store!SNext
<1>0. /\ TypeOK /\ Steps(t) /\ OnlyMoves(t) /\ th \in [Procs -> ThreadRec] /\ Carries(t)
      /\ th[t].pc = "writeback" /\ Mapped(th[t].page)
      /\ file' = [file EXCEPT ![th[t].page] = fr[pg[th[t].page].kpage].data]
      /\ UNCHANGED <<fr, entries, last>> /\ GotoWith(t, "permit", th[t].page, "destroy")
  BY FootOf DEF IInv, TypeOK, DataInv, WriteBack, At, Steps, Foot, frame_vars
<1>1. th[t].page \in Live \cap Pages /\ ~ Filling(th[t].page) /\ th[t].page \in Sync
  BY <1>0, OwnLive DEF IdlePCs, Carries
<1>2. Live' = Live
  <2>1. th'[t].pc # "free"
    BY <1>0, Moved
  <2>. QED BY <1>0, <2>1, LiveStays
<1>3. ASSUME NEW q \in Pages PROVE Contents(q)' = Contents(q)
  BY <1>0, <1>2, ContentsStay
<1>4. Contents(th[t].page) = fr[pg[th[t].page].kpage].data
  BY <1>0, <1>1 DEF Contents
<1>5. Store!SWriteBack(th[t].page)
  BY <1>0, <1>1, <1>2, <1>3, <1>4, MemStays DEF Store!SWriteBack, Mem
<1>. QED BY <1>1, <1>5 DEF Store!SNext

\* ... and a page that is destroyed is gone at once.
LEMMA DestroyStore ==
  ASSUME IInv, DataInv, NEW t \in Procs, DestroyPage(t), Kernel(t)
  PROVE  Store!SNext
<1>0. /\ TypeOK /\ Steps(t) /\ OnlyMoves(t) /\ th \in [Procs -> ThreadRec]
      /\ pg \in [Pages -> PageRec] /\ th[t].pc = "destroy"
      /\ pg' = [pg EXCEPT ![th[t].page].lock = t, ![th[t].page].sector_t = NoSlot]
      /\ last' = [last EXCEPT ![th[t].page] = Fresh(th[t].page)]
      /\ UNCHANGED <<fr, entries, file>> /\ Goto(t, "free")
  BY FootOf DEF IInv, TypeOK, DestroyPage, At, Steps, Foot, frame_vars
<1>1. PICK p \in Pages : p = th[t].page
  BY <1>0, OwnLive DEF IdlePCs
<1>2. p \in Live
  BY <1>0, <1>1, OwnLive DEF IdlePCs
<1>3. th'[t].pc = "free" /\ th'[t].page = p
  BY <1>0, <1>1, Moved
<1>4. Live' = Live \ {p}
  <2>1. ASSUME NEW q, q # p
        PROVE  (\A u \in Procs : ~ (th'[u].pc = "free" /\ th'[u].page = q))
               <=> (\A u \in Procs : ~ (th[u].pc = "free" /\ th[u].page = q))
    BY <1>0, <1>3, <2>1 DEF OnlyMoves
  <2>2. p \notin Live'
    BY <1>3 DEF Live
  <2>. QED BY <1>0, <2>1, <2>2 DEF Live
<1>5. ASSUME NEW q \in Pages \ {p} PROVE Contents(q)' = Contents(q)
  BY <1>0, <1>4, ContentsStay
<1>6. PICK d : d = Fresh(p)
  OBVIOUS
<1>7. Contents(p)' = d
  <2>1. pg'[p].sector_t = NoSlot
    BY <1>0, <1>1 DEF PageRec
  <2>2. Fresh(p)' = Fresh(p)
    BY <1>0 DEF Fresh
  <2>3. Contents(p)' = Fresh(p)'
    BY <1>4, <2>1 DEF Contents
  <2>. QED BY <1>6, <2>2, <2>3
<1>8. Mem' = [Mem EXCEPT ![p] = d]
  BY <1>5, <1>7, MemPut
<1>9. Store!Initial(p) = d
  BY <1>6 DEF Store!Initial, Fresh
<1>10. Store!SUnmap(p)
  BY <1>0, <1>1, <1>2, <1>4, <1>6, <1>8, <1>9 DEF Store!SUnmap, Mem
<1>. QED BY <1>10 DEF Store!SNext

\* When its frame is given back, nothing is left of it.
LEMMA FreeStore ==
  ASSUME IInv, DataInv, NEW t \in Procs, FreePage(t), Kernel(t)
  PROVE  UNCHANGED <<Live, Mem, last, file>>
<1>0. /\ Steps(t) /\ OnlyMoves(t) /\ th \in [Procs -> ThreadRec] /\ th[t].pc = "free"
      /\ entries' = entries \ {th[t].page} /\ UNCHANGED <<last, file>>
      /\ \E l \in {"exit", "user"} : Goto(t, l)
  BY FootOf DEF IInv, TypeOK, FreePage, At, Steps, Foot, disk_vars
<1>1. th'[t].pc # "free"
  BY <1>0, Moved
<1>2. Live' = Live
  <2>1. ASSUME NEW q, q # th[t].page
        PROVE  (\A u \in Procs : ~ (th'[u].pc = "free" /\ th'[u].page = q))
               <=> (\A u \in Procs : ~ (th[u].pc = "free" /\ th[u].page = q))
    BY <1>0, <1>1, <2>1 DEF OnlyMoves
  <2>2. th[t].page \notin Live /\ th[t].page \notin Live'
    BY <1>0 DEF Live
  <2>. QED BY <1>0, <2>1, <2>2 DEF Live
<1>3. ASSUME NEW q \in Pages PROVE Contents(q)' = Contents(q)
  BY <1>0, <1>2, ContentsStay DEF Writes
<1>. QED BY <1>0, <1>2, <1>3, MemStays

\* The steps of the kernel, together.
LEMMA KernelStore ==
  ASSUME IInv, DataInv, NEW t \in Procs, Kernel(t)
  PROVE  Store!SNext \/ UNCHANGED <<Live, Mem, last, file>>
<1>. USE DEF frame_vars, disk_vars
<1>1. CASE ClearPage(t)
  BY <1>1, ClearStore
<1>2. CASE WriteBack(t)
  BY <1>2, WriteBackStore
<1>3. CASE DestroyPage(t)
  BY <1>3, DestroyStore
<1>4. CASE FreePage(t)
  BY <1>4, FreeStore
<1>5. ASSUME NEW v \in Values \cup {Read}, Transfer(t, v)
      PROVE  Store!SNext \/ UNCHANGED <<Live, Mem, last, file>>
  <2>0. /\ th[t].pc = "transfer" /\ entries' = entries /\ Steps(t)
        /\ th[t].page \in Live \cap Pages /\ OwnerOf[th[t].page] = t /\ th[t].page \in entries
    BY <1>5, OwnLive DEF Transfer, At, Steps, IdlePCs, IInv, Threads, Works
  <2>1. CASE Mapped(th[t].page)
    <3>1. Live' = Live
      <4>1. th'[t].pc # "free"
        BY <1>5, <2>0, <2>1, Moved DEF Transfer, IInv, TypeOK
      <4>. QED BY <2>0, <4>1, FootOf, LiveStays DEF Foot, IInv
    <3>2. Touch(th[t].page, v)
      BY <1>5, <2>1 DEF Transfer
    <3>3. PICK p \in Pages : p = th[t].page
      BY <2>0
    <3>4. \/ v = Read /\ UNCHANGED <<Live, Mem, last, file>>
          \/ v \in Values /\ Store!SWrite(p, v)
      BY <2>0, <2>1, <3>1, <3>2, <3>3, WriteSteps
    <3>. QED BY <3>4 DEF Store!SNext
  <2>2. CASE ~ Mapped(th[t].page)
    BY <1>5, <2>0, <2>2, QuietStore DEF Transfer
  <2>. QED BY <2>1, <2>2
<1>. DEFINE Q == UNCHANGED <<Live, Mem, last, file>>
            R == /\ th[t].pc \notin {"clear", "destroy", "free", "transfer"}
                 /\ entries' = entries /\ UNCHANGED <<last, file>>
<1>6. R => Q
  BY QuietStore
<1>. HIDE DEF Q
<1>7. /\ Activate(t) => R
      /\ GetPage(t) => R
      /\ Search(t) => R
      /\ Scan(t) => R
      /\ Evict(t) => R
      /\ Save(t) => R
  BY DEF At, Activate, GetPage, Search, Scan, Evict, Save
<1>8. /\ Unlist(t) => R
      /\ InitSingle(t) => R
      /\ SetPage(t) => R
      /\ Fill(t) => R
      /\ Activated(t) => R
  BY DEF At, Unlist, InitSingle, SetPage, Fill, Activated
<1>9. /\ Prohibit(t) => R
      /\ ProhibitLocked(t) => R
      /\ Argument(t) => R
      /\ Release(t) => R
  BY DEF At, Prohibit, ProhibitLocked, Argument, Release, CheckToPermit
<1>10. /\ Permit(t) => R
       /\ Discard(t) => R
       /\ Exit(t) => R
  BY DEF At, Permit, Discard, Exit, MUnmap
<1>. QED BY <1>1, <1>2, <1>3, <1>4, <1>5, <1>6, <1>7, <1>8, <1>9, <1>10 DEF Kernel, Q

\* Paging implements the page store: through eviction by any process, swap and
\* reload, a page that is no mapping and shares nothing with the arguments of a
\* system call never loses a write, as long as the swap has room
\* (frame.c:139, paging.c:110, swap.c:29).
THEOREM PagingImplementsStore ==
  ASSUME SwapSuffices PROVE Spec => ImplementsPageStore
<1>1. Init => Store!SInit
  <2>. SUFFICES ASSUME Init PROVE Store!SInit
    OBVIOUS
  <2>1. Live \subseteq Pages /\ file = [p \in Pages |-> Zero] /\ last = file
    BY FramesAssumption DEF Init, Live
  <2>2. ASSUME NEW p \in Pages PROVE Contents(p) = Zero /\ Store!Initial(p) = Zero
    BY <2>1 DEF Init, Contents, Mapped, Fresh, Store!Initial
  <2>3. file \in [Pages -> Values]
    BY <2>1, FramesAssumption
  <2>4. Mem = [p \in Pages |-> Store!Initial(p)] /\ last = Mem
    BY <2>1, <2>2 DEF Mem
  <2>. QED BY <2>1, <2>3, <2>4 DEF Store!SInit, Mem
<1>2. IInv /\ DataInv /\ [Next]_vars => [Store!SNext]_(Store!svars)
  <2>1. ASSUME IInv, DataInv, NEW t \in Procs, Program(t) \/ Kernel(t)
        PROVE  Store!SNext \/ UNCHANGED Store!svars
    BY <2>1, ProgramStore, KernelStore DEF Store!svars, Mem
  <2>2. ASSUME UNCHANGED vars PROVE UNCHANGED Store!svars
    <3>1. UNCHANGED <<fr, pg, entries, swap, file, last, th>>
      BY <2>2 DEF vars, frame_vars, disk_vars
    <3>2. Live' = Live
      BY <3>1 DEF Live
    <3>3. ASSUME NEW q \in Pages PROVE Contents(q)' = Contents(q)
      BY <3>1, <3>2 DEF Contents, Mapped, Filling, Fresh
    <3>. QED BY <3>1, <3>2, <3>3, MemStays DEF Store!svars, Mem
  <2>. QED BY <2>1, <2>2 DEF Next
<1>. QED BY <1>1, <1>2, Invariance, DataInvariance, PTL DEF Spec, ImplementsPageStore, Store!SSpec
==============================================================================
