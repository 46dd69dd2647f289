------------------------------- MODULE Frames -------------------------------
(* Paging of Project 4: vm/frame.c, vm/paging.c, vm/swap.c, userprog/mmap.c,    *)
(* the page fault handler of userprog/exception.c and the way a system call     *)
(* pins the page of its argument (check_pointer of userprog/syscall.c).         *)
(*                                                                              *)
(* A process is one thread.  A step ends where another thread can get in with a *)
(* visible effect: at a lock, at a disk transfer, and where a page becomes      *)
(* reachable or unreachable.  lock[p] is the lock in the supp_pagedir_entry of  *)
(* page p; a thread that would wait for a lock is one whose step is not enabled.*)
(* swap_write and the read of swap_read are one step each, since s_map->lock is *)
(* a leaf lock and nobody else can reach the slot or the frame meanwhile.       *)
(* The page tables are abstracted to, for each page, the frame it is mapped to, *)
(* the user bit, the dirty bit of the user mapping, and one accessed bit for    *)
(* both mappings; the dirty bit of the kernel's mapping belongs to the frame.   *)
EXTENDS Naturals, Sequences, FiniteSets, SequencesExt, FiniteSetsExt

CONSTANTS Procs,        \* the user processes
          Nobody,       \* holder of a free lock
          Pages,        \* user pages, the upages of all processes together
          NoPage,
          OwnerOf,      \* OwnerOf[p]: the process whose page p is
          Sync,         \* pages mapped by mmap_sys for the program
          Exec,         \* pages mapped by load_segment: PAL_DONT_SYNC_ON_DISK
          Stack,        \* anonymous pages near the stack pointer
          ArgPages,     \* pages that also hold the arguments of system calls
          InitPages,    \* pages that exist at the start
          NumFrames,    \* frames in the user pool
          NumSlots,     \* pages that fit on the swap device
          Values, Zero, \* contents of a page, all zeros being one
          Read,         \* an access that writes nothing
          MaxOps        \* bound: accesses and calls of all processes

FilePages == Sync \cup Exec
Frames == 1 .. NumFrames
NoFrame == 0
Slots == 1 .. NumSlots
NoSlot == 0           \* BLOCK_SECTOR_T_ERROR

ASSUME FramesAssumption ==
    /\ IsFiniteSet(Procs) /\ Nobody \notin Procs
    /\ NoPage \notin Pages
    /\ OwnerOf \in [Pages -> Procs]
    /\ Sync \subseteq Pages /\ Exec \subseteq Pages \ Sync
    /\ Stack \subseteq Pages \ (Sync \cup Exec)
    /\ ArgPages \subseteq Pages /\ InitPages \subseteq Pages
    /\ NumFrames \in Nat /\ NumSlots \in Nat /\ MaxOps \in Nat
    /\ Zero \in Values /\ Read \notin Values

VARIABLES
    \* frame.c
    fr,               \* struct frame with its contents: [user, prohibit_cache,
                      \* data, kdirty (dirty bit of the kernel's mapping)]
    ordered_list,     \* frame_map->ordered_list
    list_lock,        \* frame_map->list_lock
    pool,             \* free frames of palloc's user pool
    \* paging.c and the page tables
    entries,          \* the pages that have a supp_pagedir_entry
    pg,               \* that entry and the page's PTE: [lock, prohibit
                      \* (PAL_PROHIBIT_CACHE), sector_t, kpage, user_ok (PTE_U),
                      \* accessed, dirty]
    \* the devices
    used,             \* slots marked in s_map->map
    swap,             \* slot -> what is in it
    file,             \* page of FilePages -> its part of the file
    last,             \* page -> what its owner wrote there last (ghost)
    \* threads
    th,               \* [pc, page it works for, frame in its hands, then: where
                      \* it goes on when the page is there]
    mmap_lock,
    ending,           \* threads in thread_exit
    accused,          \* threads ended by exit(-1, "access problems")
    panic,            \* an ASSERT or PANIC stopped the kernel
    ops

frame_vars == <<fr, ordered_list, list_lock, pool>>
disk_vars  == <<used, swap, file, last>>
end_vars   == <<ending, accused, panic>>
vars == <<frame_vars, entries, pg, disk_vars, th, mmap_lock, end_vars, ops>>

Where == {"user", "lock", "alloc", "search", "scan", "evict", "save", "clear",
          "unlist", "init", "map", "fill", "done", "prohibit", "plock",
          "argument", "transfer", "release", "permit", "discard", "writeback",
          "destroy", "free", "exit", "dead"}

FrameRec == [user : Pages \cup {NoPage}, prohibit_cache : BOOLEAN, data : Values,
             kdirty : BOOLEAN]
PageRec == [lock : Procs \cup {Nobody}, prohibit : BOOLEAN, sector_t : Slots \cup {NoSlot},
            kpage : Frames \cup {NoFrame}, user_ok : BOOLEAN, accessed : BOOLEAN,
            dirty : BOOLEAN]
ThreadRec == [pc : Where, page : Pages \cup {NoPage}, frame : Frames \cup {NoFrame},
              then : Where]

Init ==
    /\ fr = [f \in Frames |-> [user |-> NoPage, prohibit_cache |-> FALSE, data |-> Zero,
                               kdirty |-> FALSE]]
    /\ ordered_list = << >> /\ list_lock = Nobody /\ pool = Frames
    /\ entries = InitPages
    /\ pg = [p \in Pages |-> [lock |-> Nobody, prohibit |-> FALSE, sector_t |-> NoSlot,
                              kpage |-> NoFrame, user_ok |-> FALSE, accessed |-> FALSE,
                              dirty |-> FALSE]]
    /\ used = {} /\ swap = [s \in Slots |-> Zero] /\ file = [p \in Pages |-> Zero]
    /\ last = file
    /\ th = [t \in Procs |-> [pc |-> "user", page |-> NoPage, frame |-> NoFrame,
                              then |-> "user"]]
    /\ mmap_lock = Nobody
    /\ ending = {} /\ accused = {} /\ panic = FALSE
    /\ ops = 0

At(t, l) == th[t].pc = l /\ ~panic
Goto(t, l) == th' = [th EXCEPT ![t].pc = l]
GotoWith(t, l, p, next) == th' = [th EXCEPT ![t] = [@ EXCEPT !.pc = l, !.page = p,
                                                             !.then = next]]
GotoFrame(t, l, f) == th' = [th EXCEPT ![t] = [@ EXCEPT !.pc = l, !.frame = f]]

Free(p) == pg[p].lock = Nobody
Mapped(p) == pg[p].kpage # NoFrame

\* pagedir_is_dirty of the user mapping, or of the kernel's mapping of its frame
IsDirty(p) == pg[p].dirty \/ (Mapped(p) /\ fr[pg[p].kpage].kdirty)

\* The processor's part in an access to a mapped page.
Touch(p, v) ==
    /\ pg' = [pg EXCEPT ![p].accessed = TRUE, ![p].dirty = @ \/ v # Read]
    /\ fr' = IF v = Read THEN fr ELSE [fr EXCEPT ![pg[p].kpage].data = v]
    /\ last' = IF v = Read THEN last ELSE [last EXCEPT ![p] = v]
    /\ UNCHANGED <<ordered_list, list_lock, pool, used, swap, file>>

\* exit(-1, ...): the process goes on in thread_exit.
Kill(t) == Goto(t, "exit") /\ ending' = ending \cup {t}

-----------------------------------------------------------------------------
(* What a program does; MaxOps bounds all of it but the faults *)

Runs(t) == At(t, "user") /\ ops < MaxOps /\ ops' = ops + 1
Owns(t, p) == OwnerOf[p] = t /\ p \in entries

Access(t, p, v) ==
    /\ Runs(t) /\ Owns(t, p)
    /\ Mapped(p) /\ pg[p].user_ok
    /\ Touch(p, v)
    /\ UNCHANGED <<entries, th, mmap_lock, end_vars>>

\* page_fault, for a page that has an entry
Fault(t, p) ==
    /\ At(t, "user") /\ Owns(t, p)
    /\ ~(Mapped(p) /\ pg[p].user_ok)
    /\ GotoWith(t, "lock", p, "user")
    /\ UNCHANGED <<frame_vars, entries, pg, disk_vars, mmap_lock, end_vars, ops>>

\* supp_pagedir_virtual_create; what supp_pagedir_set_readfile adds is FilePages.
Create(t, p) ==
    /\ OwnerOf[p] = t /\ p \notin entries
    /\ entries' = entries \cup {p}
    /\ pg' = [pg EXCEPT ![p].prohibit = FALSE, ![p].sector_t = NoSlot]
    /\ UNCHANGED <<frame_vars, disk_vars, mmap_lock, end_vars>>

\* page_fault and stack_resized, for a page that has no entry
GrowStack(t, p) ==
    /\ Runs(t) /\ p \in Stack
    /\ Create(t, p)
    /\ GotoWith(t, "lock", p, "user")

\* mmap_sys, of a file of one page
MMap(t, p) ==
    /\ Runs(t) /\ p \in Sync
    /\ mmap_lock = Nobody
    /\ Create(t, p)
    /\ UNCHANGED th

\* munmap_sys, up to mmap_discard
MUnmap(t, p) ==
    /\ mmap_lock = Nobody /\ mmap_lock' = t
    /\ GotoWith(t, "discard", p, "user")
    /\ UNCHANGED <<frame_vars, entries, pg, disk_vars, end_vars>>

CallMUnmap(t, p) == Runs(t) /\ Owns(t, p) /\ p \in Sync /\ MUnmap(t, p)

\* A system call with a pointer into page p: check_pointer, up to
\* supp_pagedir_set_prohibit.  grow says whether the call passes grow = true.
CheckPointer(t, p, grow) ==
    /\ Runs(t) /\ Owns(t, p)
    /\ \/ /\ Mapped(p)
          /\ GotoWith(t, "prohibit", p, "argument")
          /\ UNCHANGED end_vars
       \/ /\ ~Mapped(p) /\ ~grow
          /\ Kill(t)
          /\ UNCHANGED <<accused, panic>>
       \/ \* stack_resized creates an entry that exists: PANIC
          /\ ~Mapped(p) /\ grow /\ p \in Stack
          /\ panic' = TRUE
          /\ UNCHANGED <<th, ending, accused>>
       \/ /\ ~Mapped(p) /\ grow /\ p \notin Stack
          /\ GotoWith(t, "lock", p, "prohibit")
          /\ UNCHANGED end_vars
    /\ UNCHANGED <<frame_vars, entries, pg, disk_vars, mmap_lock>>

CallExit(t) ==
    /\ Runs(t)
    /\ Kill(t)
    /\ UNCHANGED <<frame_vars, entries, pg, disk_vars, mmap_lock, accused, panic>>

-----------------------------------------------------------------------------
(* paging_activate and frame_get_page *)

\* paging_activate: a page that is mapped was accessed against its rights.
Activate(t) ==
    LET p == th[t].page IN
    /\ At(t, "lock") /\ Free(p)
    /\ \/ /\ ~Mapped(p)
          /\ pg' = [pg EXCEPT ![p].lock = t]
          /\ Goto(t, "alloc")
          /\ UNCHANGED <<ending, accused>>
       \/ /\ Mapped(p)
          /\ Kill(t)
          /\ accused' = accused \cup {t}
          /\ UNCHANGED pg
    /\ UNCHANGED <<frame_vars, entries, disk_vars, mmap_lock, panic, ops>>

\* palloc_get_page in frame_get_page; every page has PAL_ZERO
GetPage(t) ==
    /\ At(t, "alloc")
    /\ \/ /\ pool = {}
          /\ Goto(t, "search")
          /\ UNCHANGED <<pool, fr>>
       \/ /\ pool # {}
          /\ pool' = pool \ {Min(pool)}
          /\ fr' = [fr EXCEPT ![Min(pool)].data = Zero]
          /\ GotoFrame(t, "init", Min(pool))
    /\ UNCHANGED <<ordered_list, list_lock, entries, pg, disk_vars, mmap_lock, end_vars, ops>>

\* frame_second_chance_algorithm takes list_lock and keeps it while it searches.
Search(t) ==
    /\ At(t, "search") /\ list_lock = Nobody
    /\ list_lock' = t
    /\ Goto(t, "scan")
    /\ UNCHANGED <<fr, ordered_list, pool, entries, pg, disk_vars, mmap_lock, end_vars, ops>>

Rotate(s) == Append(Tail(s), Head(s))

\* Mutant: a page that gets a second chance is closed to its program.
ScanClosing(t) ==
    LET f == Head(ordered_list)
        p == fr[f].user IN
    /\ At(t, "scan") /\ ordered_list # << >>
    /\ ordered_list' = Rotate(ordered_list)
    /\ IF ~Free(p) \/ fr[f].prohibit_cache THEN UNCHANGED <<list_lock, pg, th>>
       ELSE IF pg[p].accessed
       THEN /\ pg' = [pg EXCEPT ![p].accessed = FALSE, ![p].user_ok = FALSE]
            /\ UNCHANGED <<list_lock, th>>
       ELSE /\ pg' = [pg EXCEPT ![p].lock = t]
            /\ list_lock' = Nobody
            /\ GotoFrame(t, "evict", f)
    /\ UNCHANGED <<fr, pool, entries, disk_vars, mmap_lock, end_vars, ops>>

\* Mutant: a page that was accessed keeps its accessed bit.
ScanForever(t) ==
    LET f == Head(ordered_list)
        p == fr[f].user IN
    /\ At(t, "scan") /\ ordered_list # << >>
    /\ ordered_list' = Rotate(ordered_list)
    /\ IF ~Free(p) \/ fr[f].prohibit_cache \/ pg[p].accessed
       THEN UNCHANGED <<list_lock, pg, th>>
       ELSE /\ pg' = [pg EXCEPT ![p].lock = t]
            /\ list_lock' = Nobody
            /\ GotoFrame(t, "evict", f)
    /\ UNCHANGED <<fr, pool, entries, disk_vars, mmap_lock, end_vars, ops>>

\* One round of its loop: get_next_frame_to_test, then what the frame's page says.
Scan(t) ==
    LET f == Head(ordered_list)
        p == fr[f].user IN
    /\ At(t, "scan")
    /\ \/ \* list_remove of the end of an empty list
          /\ ordered_list = << >>
          /\ panic' = TRUE
          /\ UNCHANGED <<ordered_list, list_lock, pg, th>>
       \/ /\ ordered_list # << >>
          /\ ordered_list' = Rotate(ordered_list)
          /\ \/ /\ ~Free(p) \/ fr[f].prohibit_cache
                /\ UNCHANGED <<list_lock, pg, th>>
             \/ /\ Free(p) /\ ~fr[f].prohibit_cache /\ pg[p].accessed
                /\ pg' = [pg EXCEPT ![p].accessed = FALSE]
                /\ UNCHANGED <<list_lock, th>>
             \/ /\ Free(p) /\ ~fr[f].prohibit_cache /\ ~pg[p].accessed
                /\ pg' = [pg EXCEPT ![p].lock = t]
                /\ list_lock' = Nobody
                /\ GotoFrame(t, "evict", f)
          /\ UNCHANGED panic
    /\ UNCHANGED <<fr, pool, entries, disk_vars, mmap_lock, ending, accused, ops>>

\* pageir_set_kernel_access: the program cannot reach the page any more.
Evict(t) ==
    /\ At(t, "evict")
    /\ pg' = [pg EXCEPT ![fr[th[t].frame].user].user_ok = FALSE]
    /\ Goto(t, "save")
    /\ UNCHANGED <<frame_vars, entries, disk_vars, mmap_lock, end_vars, ops>>

\* swap_write: the first free slot, or BLOCK_SECTOR_T_ERROR
SwapWrite(p, v) ==
    LET s == Min(Slots \ used) IN
    IF used = Slots
    THEN /\ pg' = [pg EXCEPT ![p].sector_t = NoSlot]
         /\ UNCHANGED <<used, swap>>
    ELSE /\ pg' = [pg EXCEPT ![p].sector_t = s]
         /\ used' = used \cup {s}
         /\ swap' = [swap EXCEPT ![s] = v]

\* What is kept of the page.  mmap_discard of a dirty page calls
\* supp_pagedir_set_prohibit, which looks the page up in the caller's table and
\* asserts that it is there and that the caller does not hold its lock.
Save(t) ==
    LET f == th[t].frame
        p == fr[f].user IN
    /\ At(t, "save")
    /\ \/ /\ p \in Sync /\ IsDirty(p)
          /\ panic' = TRUE
          /\ UNCHANGED <<th, pg, used, swap>>
       \/ /\ p \notin Sync /\ IsDirty(p)
          /\ SwapWrite(p, fr[f].data)
          /\ Goto(t, "clear")
          /\ UNCHANGED panic
       \/ /\ ~IsDirty(p)
          /\ Goto(t, "clear")
          /\ UNCHANGED <<pg, used, swap, panic>>
    /\ UNCHANGED <<frame_vars, entries, file, last, mmap_lock, ending, accused, ops>>

\* pagedir_clear_page: only PTE_P is reset.
ClearPage(t) ==
    /\ At(t, "clear")
    /\ pg' = [pg EXCEPT ![fr[th[t].frame].user].kpage = NoFrame]
    /\ Goto(t, "unlist")
    /\ UNCHANGED <<frame_vars, entries, disk_vars, mmap_lock, end_vars, ops>>

\* Mutant: the frame stays in the list.
FreeFrameListed(f) ==
    /\ list_lock = Nobody
    /\ fr' = [fr EXCEPT ![f].user = NoPage]
    /\ pool' = pool \cup {f}
    /\ UNCHANGED <<ordered_list, list_lock>>

\* frame_free_page_no_lock
FreeFrame(f) ==
    /\ list_lock = Nobody
    /\ ordered_list' = RemoveFirst(ordered_list, f)
    /\ fr' = [fr EXCEPT ![f].user = NoPage]
    /\ pool' = pool \cup {f}
    /\ UNCHANGED list_lock

\* The victim's frame is free and its lock is given back; frame_get_page tries again.
Unlist(t) ==
    /\ At(t, "unlist")
    /\ FreeFrame(th[t].frame)
    /\ pg' = [pg EXCEPT ![fr[th[t].frame].user].lock = Nobody]
    /\ GotoFrame(t, "alloc", NoFrame)
    /\ UNCHANGED <<entries, disk_vars, mmap_lock, end_vars, ops>>

\* frame_init_single
InitSingle(t) ==
    LET f == th[t].frame
        p == th[t].page IN
    /\ At(t, "init") /\ list_lock = Nobody
    /\ fr' = [fr EXCEPT ![f] = [@ EXCEPT !.user = p, !.kdirty = FALSE,
                                         !.prohibit_cache = pg[p].prohibit]]
    /\ ordered_list' = Append(ordered_list, f)
    /\ Goto(t, "map")
    /\ UNCHANGED <<list_lock, pool, entries, pg, disk_vars, mmap_lock, end_vars, ops>>

\* pagedir_set_page in supp_pagedir_really_create: a fresh page table entry
SetPage(t) ==
    LET p == th[t].page IN
    /\ At(t, "map")
    /\ pg' = [pg EXCEPT ![p] = [@ EXCEPT !.kpage = th[t].frame, !.user_ok = TRUE,
                                         !.accessed = FALSE, !.dirty = FALSE]]
    /\ Goto(t, "fill")
    /\ UNCHANGED <<frame_vars, entries, disk_vars, mmap_lock, end_vars, ops>>

\* Mutant: after swap_read the bits of the kernel's mapping are reset as well.
FillClean(t) ==
    LET p == th[t].page
        f == th[t].frame IN
    /\ At(t, "fill")
    /\ fr' = [fr EXCEPT ![f].data = IF pg[p].sector_t # NoSlot THEN swap[pg[p].sector_t]
                                    ELSE IF p \in FilePages THEN file[p] ELSE @]
    /\ Goto(t, "done")
    /\ UNCHANGED <<ordered_list, list_lock, pool, entries, pg, disk_vars, mmap_lock, end_vars,
                   ops>>

\* The end of paging_activate_no_lock, up to the transfer.  swap_read writes
\* through the kernel's mapping, whose bits stay set; after a file was read they
\* are reset.
Fill(t) ==
    LET p == th[t].page
        f == th[t].frame IN
    /\ At(t, "fill")
    /\ \/ /\ pg[p].sector_t # NoSlot
          /\ fr' = [fr EXCEPT ![f].data = swap[pg[p].sector_t], ![f].kdirty = TRUE]
          /\ pg' = [pg EXCEPT ![p].accessed = TRUE]
       \/ /\ pg[p].sector_t = NoSlot /\ p \in FilePages
          /\ fr' = [fr EXCEPT ![f].data = file[p]]
          /\ UNCHANGED pg
       \/ /\ pg[p].sector_t = NoSlot /\ p \notin FilePages
          /\ UNCHANGED <<fr, pg>>
    /\ Goto(t, "done")
    /\ UNCHANGED <<ordered_list, list_lock, pool, entries, disk_vars, mmap_lock, end_vars,
                   ops>>

\* Mutant: swap_read leaves the slot marked.
ActivatedMarked(t) ==
    LET p == th[t].page IN
    /\ At(t, "done")
    /\ pg' = [pg EXCEPT ![p].sector_t = NoSlot, ![p].lock = Nobody]
    /\ GotoFrame(t, th[t].then, NoFrame)
    /\ UNCHANGED <<frame_vars, entries, disk_vars, mmap_lock, end_vars, ops>>

\* bitmap_set at the end of swap_read; then the entry's lock is given back.
Activated(t) ==
    LET p == th[t].page IN
    /\ At(t, "done")
    /\ used' = used \ {pg[p].sector_t}
    /\ pg' = [pg EXCEPT ![p].sector_t = NoSlot, ![p].lock = Nobody]
    /\ GotoFrame(t, th[t].then, NoFrame)
    /\ UNCHANGED <<frame_vars, entries, swap, file, last, mmap_lock, end_vars, ops>>

-----------------------------------------------------------------------------
(* supp_pagedir_set_prohibit, and the system call that has its buffer there *)

\* Mutant: the flag is left to the frame, which the page may not have.
ProhibitFrameOnly(t) ==
    /\ At(t, "prohibit")
    /\ GotoWith(t, "plock", th[t].page,
                IF th[t].then = "writeback" THEN "writeback" ELSE "argument")
    /\ UNCHANGED <<frame_vars, entries, pg, disk_vars, mmap_lock, end_vars, ops>>

\* set_prohibit(p, true): the flag is set before the lock is taken.
Prohibit(t) ==
    LET p == th[t].page IN
    /\ At(t, "prohibit")
    /\ pg' = [pg EXCEPT ![p].prohibit = TRUE]
    /\ GotoWith(t, "plock", p, IF th[t].then = "writeback" THEN "writeback" ELSE "argument")
    /\ UNCHANGED <<frame_vars, entries, disk_vars, mmap_lock, end_vars, ops>>

\* A page that has been evicted meanwhile is brought back.
ProhibitLocked(t) ==
    LET p == th[t].page IN
    /\ At(t, "plock") /\ Free(p)
    /\ \/ /\ Mapped(p)
          /\ fr' = [fr EXCEPT ![pg[p].kpage].prohibit_cache = TRUE]
          /\ Goto(t, th[t].then)
          /\ UNCHANGED pg
       \/ /\ ~Mapped(p)
          /\ pg' = [pg EXCEPT ![p].lock = t]
          /\ Goto(t, "alloc")
          /\ UNCHANGED fr
    /\ UNCHANGED <<ordered_list, list_lock, pool, entries, disk_vars, mmap_lock, end_vars,
                   ops>>

\* set_prohibit(p, false)
Permit(t) ==
    LET p == th[t].page IN
    /\ At(t, "permit") /\ Free(p)
    /\ pg' = [pg EXCEPT ![p].prohibit = FALSE]
    /\ fr' = IF Mapped(p) THEN [fr EXCEPT ![pg[p].kpage].prohibit_cache = FALSE] ELSE fr
    /\ Goto(t, th[t].then)
    /\ UNCHANGED <<ordered_list, list_lock, pool, entries, disk_vars, mmap_lock, end_vars,
                   ops>>

\* check_pointer with grow = false and prohibit = false
CheckToPermit(t, next) ==
    /\ \/ /\ Mapped(th[t].page)
          /\ GotoWith(t, "permit", th[t].page, next)
          /\ UNCHANGED ending
       \/ /\ ~Mapped(th[t].page)
          /\ Kill(t)
    /\ UNCHANGED <<frame_vars, entries, pg, disk_vars, mmap_lock, accused, panic, ops>>

\* Whatever order the arguments are evaluated in (gcc goes from right to left),
\* one of them is checked after the buffer, with prohibit = false; where the two
\* are in one page, that undoes the pinning.
Argument(t) ==
    /\ At(t, "argument")
    /\ \/ /\ th[t].page \in ArgPages
          /\ CheckToPermit(t, "transfer")
       \/ /\ th[t].page \notin ArgPages
          /\ Goto(t, "transfer")
          /\ UNCHANGED <<frame_vars, entries, pg, disk_vars, mmap_lock, end_vars, ops>>

\* The call reads or writes its buffer from the kernel, where PTE_U does not matter.
Transfer(t, v) ==
    LET p == th[t].page IN
    /\ At(t, "transfer")
    /\ \/ /\ Mapped(p)
          /\ Touch(p, v)
          /\ Goto(t, "release")
       \/ /\ ~Mapped(p)
          /\ GotoWith(t, "lock", p, "transfer")
          /\ UNCHANGED <<frame_vars, pg, disk_vars>>
    /\ UNCHANGED <<entries, mmap_lock, end_vars, ops>>

\* The call is done: its pointers are checked once more.
Release(t) == At(t, "release") /\ CheckToPermit(t, "user")

-----------------------------------------------------------------------------
(* munmap_sys and supp_pagedir_destroy *)

\* mmap_discard, called by the owner: the dirty bits are reset before the page
\* is pinned, and without its lock.
Discard(t) ==
    LET p == th[t].page IN
    /\ At(t, "discard")
    /\ \/ /\ p \in Sync /\ IsDirty(p)
          /\ pg' = [pg EXCEPT ![p].dirty = FALSE]
          /\ fr' = IF Mapped(p) THEN [fr EXCEPT ![pg[p].kpage].kdirty = FALSE] ELSE fr
          /\ GotoWith(t, "prohibit", p, "writeback")
       \/ /\ p \in Exec \/ ~IsDirty(p)
          /\ Goto(t, "destroy")
          /\ UNCHANGED <<pg, fr>>
    /\ UNCHANGED <<ordered_list, list_lock, pool, entries, disk_vars, mmap_lock, end_vars,
                   ops>>

\* write_sys from the page, which is pinned
WriteBack(t) ==
    LET p == th[t].page IN
    /\ At(t, "writeback") /\ Mapped(p)
    /\ file' = [file EXCEPT ![p] = fr[pg[p].kpage].data]
    /\ pg' = [pg EXCEPT ![p].accessed = TRUE]
    /\ GotoWith(t, "permit", p, "destroy")
    /\ UNCHANGED <<frame_vars, entries, used, swap, last, mmap_lock, end_vars, ops>>

\* What a page holds before anything is written to it.
Fresh(p) == IF p \in FilePages THEN file[p] ELSE Zero

\* supp_pagedir_destroy_page, up to swap_read(..., NULL)
DestroyPage(t) ==
    LET p == th[t].page IN
    /\ At(t, "destroy") /\ Free(p)
    /\ pg' = [pg EXCEPT ![p].lock = t, ![p].sector_t = NoSlot]
    /\ used' = used \ {pg[p].sector_t}
    /\ last' = [last EXCEPT ![p] = Fresh(p)]
    /\ Goto(t, "free")
    /\ UNCHANGED <<frame_vars, entries, swap, file, mmap_lock, end_vars, ops>>

\* The rest of it, with the end of munmap_sys for a mapping.
FreePage(t) ==
    LET p == th[t].page IN
    /\ At(t, "free")
    /\ IF Mapped(p) THEN FreeFrame(pg[p].kpage) ELSE UNCHANGED frame_vars
    /\ entries' = entries \ {p}
    /\ pg' = [pg EXCEPT ![p].kpage = NoFrame, ![p].lock = Nobody]
    /\ mmap_lock' = IF mmap_lock = t THEN Nobody ELSE mmap_lock
    /\ Goto(t, IF t \in ending THEN "exit" ELSE "user")
    /\ UNCHANGED <<disk_vars, end_vars, ops>>

\* thread_exit: the mappings first, then process_exit with the other pages
Exit(t) ==
    LET own == {p \in entries : OwnerOf[p] = t} IN
    /\ At(t, "exit")
    /\ \/ \E p \in own \cap FilePages : MUnmap(t, p)
       \/ /\ own \cap FilePages = {}
          /\ \/ \E p \in own : GotoWith(t, "destroy", p, "user")
             \/ own = {} /\ Goto(t, "dead")
          /\ UNCHANGED <<frame_vars, entries, pg, disk_vars, mmap_lock, end_vars>>
    /\ UNCHANGED ops

-----------------------------------------------------------------------------
Program(t) ==
    \/ CallExit(t)
    \/ \E p \in Pages :
          \/ \E v \in Values \cup {Read} : Access(t, p, v)
          \/ Fault(t, p) \/ GrowStack(t, p) \/ MMap(t, p) \/ CallMUnmap(t, p)
          \/ \E grow \in BOOLEAN : CheckPointer(t, p, grow)

Kernel(t) ==
    \/ Activate(t) \/ GetPage(t) \/ Search(t) \/ Scan(t) \/ Evict(t) \/ Save(t)
    \/ ClearPage(t) \/ Unlist(t) \/ InitSingle(t) \/ SetPage(t) \/ Fill(t)
    \/ Activated(t) \/ Prohibit(t) \/ ProhibitLocked(t) \/ Argument(t)
    \/ \E v \in Values \cup {Read} : Transfer(t, v)
    \/ Release(t) \/ Permit(t) \/ Discard(t) \/ WriteBack(t) \/ DestroyPage(t)
    \/ FreePage(t) \/ Exit(t)

Next == \E t \in Procs : Program(t) \/ Kernel(t)

Spec == Init /\ [][Next]_vars

\* A thread inside the kernel goes on: the ready list is round-robin with a time
\* slice, and transfers end.  Programs need not do anything.
Fairness == \A t \in Procs : WF_vars(Kernel(t))

FairSpec == Spec /\ Fairness

-----------------------------------------------------------------------------
\* Every variable has its type.
TypeOK ==
    /\ fr \in [Frames -> FrameRec] /\ ordered_list \in Seq(Frames) /\ pool \subseteq Frames
    /\ list_lock \in Procs \cup {Nobody} /\ mmap_lock \in Procs \cup {Nobody}
    /\ entries \subseteq Pages /\ pg \in [Pages -> PageRec]
    /\ used \subseteq Slots /\ swap \in [Slots -> Values] /\ file \in [Pages -> Values]
    /\ last \in [Pages -> Values]
    /\ th \in [Procs -> ThreadRec]
    /\ ending \subseteq Procs /\ accused \subseteq ending
    /\ panic \in BOOLEAN /\ ops \in 0 .. MaxOps

\* Page p has a frame whose contents have not been brought in yet.
Filling(p) == \E t \in Procs : th[t].pc = "fill" /\ th[t].page = p

\* The pages that exist and that nobody is destroying.
Live == {p \in entries : \A t \in Procs : ~(th[t].pc = "free" /\ th[t].page = p)}

\* What the owner of a page would find in it.
Contents(p) ==
    IF p \in Live /\ Mapped(p) /\ ~Filling(p) THEN fr[pg[p].kpage].data
    ELSE IF pg[p].sector_t # NoSlot THEN swap[pg[p].sector_t]
    ELSE Fresh(p)

Store == INSTANCE PageStore WITH live <- Live, mem <- [p \in Pages |-> Contents(p)],
                                 Volatile <- Sync \cup ArgPages

\* Paging implements the page store: through eviction by any process, swap and
\* reload, an anonymous or executable page never loses a write of its program or
\* of a system call that pinned it (frame.c:139, paging.c:110).
ImplementsPageStore == Store!SSpec

\* A frame has one owner at a time: the pool, the thread that has just taken it,
\* or the page that its struct frame names, and that page is mapped to it or
\* about to be; the list holds exactly the frames that have a page, each once
\* (frame.c:59, 189).
FramesAccounted ==
    /\ \A f \in Frames :
          LET inHand == {t \in Procs : th[t].frame = f} IN
          /\ f \in pool => fr[f].user = NoPage /\ inHand = {}
          /\ f \in Range(ordered_list) <=> fr[f].user # NoPage
          /\ fr[f].user = NoPage => f \in pool \/ \E t \in inHand : th[t].pc = "init"
          /\ fr[f].user # NoPage => \/ pg[fr[f].user].kpage = f
                                    \/ \E t \in inHand : th[t].pc = "map" \/ th[t].pc = "unlist"
    /\ IsInjective(ordered_list)
    /\ \A p \in Pages : Mapped(p) => fr[pg[p].kpage].user = p

\* A slot of the swap is marked exactly while a page is in it, and no two pages
\* share one: none leaks and none is given away twice (swap.c:29, 66).
SlotsAccounted ==
    LET out == {p \in Pages : pg[p].sector_t # NoSlot} IN
    /\ used = {pg[p].sector_t : p \in out}
    /\ \A p, q \in out : p # q => pg[p].sector_t # pg[q].sector_t

\* Frames and slots have one owner each (frame.c, swap.c).
MemoryAccounted == TypeOK /\ FramesAccounted /\ SlotsAccounted

\* The page a system call works on stays where it is while the kernel reads or
\* writes it, and nobody is evicting it (paging.c:229).
PinnedDuringCall ==
    \A t \in Procs : (th[t].pc = "transfer" \/ th[t].pc = "writeback") /\ th[t].page \notin ArgPages
        => Mapped(th[t].page) /\ Free(th[t].page)

\* A process is ended for a fault only when it broke the rights of a page
\* (exception.c:214); here no program does, however the fault races with an
\* eviction of the page.
FaultsAreLegitimate == accused = {}

\* Refuted: a page holds what was last written to it also when a mapping is
\* undone while the page is evicted (mmap.c:68), and when the buffer of a system
\* call shares a page with its arguments (syscall.c:69).
EveryWriteStays == \A p \in Live : Contents(p) = last[p]

\* Refuted: a page mapped by mmap is written to its file when it is evicted
\* (vm.texi:619); mmap.c:70 panics.
EvictsMapped == ~(panic /\ \E t \in Procs : th[t].pc = "save")

\* Everything a process asks of the kernel comes to an end (frame.c:118:
\* "deadlock is not gonna happen").
CallsReturn == \A t \in Procs :
    th[t].pc \notin {"user", "dead"} ~> (th[t].pc \in {"user", "dead"} \/ panic)
=============================================================================
