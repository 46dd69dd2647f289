---------------------------- MODULE BufferCache -----------------------------
(***************************************************************************)
(* The buffer cache (filesys/cached_block.c): a few entries that hold      *)
(* copies of disk sectors, shared by the threads of the file system, by    *)
(* the background thread fflusher and by the shutdown (filesys_done).      *)
(*                                                                         *)
(* Two kinds of locks protect it.  The reader-writer lock of a sector      *)
(* (locks[sector]) guards addr[sector] and the contents of its entry; it   *)
(* is used here as RWLock shows it to behave: a set of readers or one      *)
(* writer.  The plain lock of an entry guards its holder field.  A step of *)
(* the model ends where another thread can see a difference: at a lock     *)
(* operation, a disk transfer, or an access without a lock.                *)
(***************************************************************************)
EXTENDS Naturals, FiniteSets

CONSTANTS Threads,        \* threads that read and write sectors
          Flushers,       \* the background flusher: a set of at most one
          Main,           \* the thread that shuts the file system down
          Sectors,        \* the sectors of the disk
          BufferLen,      \* cache->buffer_len
          Segments,       \* the parts of a sector a request can name
          Values, InitialValue,
          DirtyMod,       \* 2^16: dirty is a uint16_t
          MaxRequests,    \* bound: requests of each thread
          MaxRounds       \* bound: rounds of each flusher
CONSTANT Nobody           \* -1 or NULL

Entries == 0 .. BufferLen - 1
Agents == Threads \cup Flushers \cup {Main}

ASSUME CacheAssumption ==
  /\ BufferLen \in Nat \ {0} /\ DirtyMod \in Nat \ {0, 1}
  /\ MaxRequests \in Nat /\ MaxRounds \in Nat
  /\ InitialValue \in Values /\ Sectors # {} /\ Segments # {}
  /\ Nobody \notin Agents \cup Sectors \cup Entries

\* The shutdown runs in a thread that does nothing else.
ASSUME MainAssumption == Main \notin Threads

VARIABLES disk,       \* the sectors of the block device
          addr,       \* addr[s]: the entry that caches s, or Nobody
          entry,      \* the cache entries
          rwlock,     \* locks[s]: its writer, and the set of its readers
          evict_I,    \* the clock hand, modulo buffer_len
          pc,         \* where each agent is
          request,    \* the request an agent works on
          in_ram,     \* local variable: the entry it uses or examines
          tried,      \* evict: entries examined so far
          upgraded,   \* local variable: holds the write lock of the sector
          got,        \* what the last read of each thread returned
          budget      \* the requests and rounds left

vars == <<disk, addr, entry, rwlock, evict_I, pc, request, in_ram, tried,
          upgraded, got, budget>>

Contents == [Segments -> Values]
Requests == [kind : {"read", "write", "ahead"}, sector : Sectors,
             segment : Segments, value : Values]
AccessPCs == {"lock", "miss", "upgrade", "evict", "claimed", "flush", "install",
              "fill", "copy", "mark", "direct", "unlock"}
FlushPCs == {"f_lock", "f_swap", "f_write", "f_dirty", "f_unlock"}

TypeOK ==
  /\ disk \in [Sectors -> Contents]
  /\ addr \in [Sectors -> Entries \cup {Nobody}]
  /\ entry \in [Entries -> [lock : Agents \cup {Nobody}, holder : Sectors \cup {Nobody},
                            dirty : 0 .. DirtyMod - 1, accessed : BOOLEAN,
                            data : Contents]]
  /\ rwlock \in [Sectors -> [writer : Agents \cup {Nobody}, readers : SUBSET Agents]]
  /\ evict_I \in Entries
  /\ pc \in [Agents -> {"idle", "off"} \cup AccessPCs \cup FlushPCs]
  /\ request \in [Agents -> Requests]
  /\ in_ram \in [Agents -> Entries \cup {Nobody}]
  /\ tried \in [Agents -> 0 .. 2 * BufferLen]
  /\ upgraded \in [Agents -> BOOLEAN]
  /\ got \in [Threads -> Values]
  /\ budget \in [Agents -> 0 .. MaxRequests + MaxRounds + 1]

Init ==
  /\ disk = [s \in Sectors |-> [g \in Segments |-> InitialValue]]
  /\ addr = [s \in Sectors |-> Nobody]
  /\ entry = [e \in Entries |->
       [lock |-> Nobody, holder |-> Nobody, dirty |-> 0, accessed |-> FALSE,
        data |-> [g \in Segments |-> InitialValue]]]
  /\ rwlock = [s \in Sectors |-> [writer |-> Nobody, readers |-> {}]]
  /\ evict_I = 0
  /\ pc = [a \in Agents |-> "idle"]
  /\ request = [a \in Agents |->
       [kind |-> IF a \in Threads THEN "read" ELSE "ahead",
        sector |-> CHOOSE s \in Sectors : TRUE,
        segment |-> CHOOSE g \in Segments : TRUE, value |-> InitialValue]]
  /\ in_ram = [a \in Agents |-> Nobody]
  /\ tried = [a \in Agents |-> 0]
  /\ upgraded = [a \in Agents |-> FALSE]
  /\ got = [t \in Threads |-> InitialValue]
  /\ budget = [a \in Agents |-> IF a \in Threads THEN MaxRequests
                                ELSE IF a \in Flushers THEN MaxRounds ELSE 1]

-----------------------------------------------------------------------------
Sector(a) == request[a].sector
Goto(a, l) == pc' = [pc EXCEPT ![a] = l]

\* The reader-writer lock of a sector (RWLock): its guards and its effects.
CanRead(s) == rwlock[s].writer = Nobody
CanWrite(s) == rwlock[s].writer = Nobody /\ rwlock[s].readers = {}
AddReader(a, s) == rwlock' = [rwlock EXCEPT ![s].readers = @ \cup {a}]
DropReader(a, s) == rwlock' = [rwlock EXCEPT ![s].readers = @ \ {a}]
SetWriter(a, s) == rwlock' = [rwlock EXCEPT ![s].writer = a]

-----------------------------------------------------------------------------
(***************************************************************************)
(* cached_block_read_segment, cached_block_write_segment and read_ahead:   *)
(* the three share their structure and differ in what they do with the     *)
(* entry once the sector is in the cache.                                  *)
(***************************************************************************)
Begin(a, r) ==
  /\ pc[a] = "idle" /\ budget[a] > 0
  /\ request' = [request EXCEPT ![a] = r]
  /\ upgraded' = [upgraded EXCEPT ![a] = FALSE]
  /\ budget' = [budget EXCEPT ![a] = @ - 1]
  /\ Goto(a, "lock")
  /\ UNCHANGED <<disk, addr, entry, rwlock, evict_I, in_ram, tried, got>>

cached_block_read_segment(t, s, g) ==
  t \in Threads /\ Begin(t, [kind |-> "read", sector |-> s, segment |-> g,
                             value |-> InitialValue])

cached_block_write_segment(t, s, g, v) ==
  t \in Threads /\ Begin(t, [kind |-> "write", sector |-> s, segment |-> g,
                             value |-> v])

read_ahead(f, s) ==
  f \in Flushers /\ \E g \in Segments :
    Begin(f, [kind |-> "ahead", sector |-> s, segment |-> g, value |-> InitialValue])

\* Where a request goes on once it knows that the sector is in the cache.
Cached(a) == IF request[a].kind = "ahead" THEN "unlock" ELSE "copy"

\* r_lock_acquire and the look at addr, which the lock keeps from changing.
ReadLock(a) ==
  /\ pc[a] = "lock"
  /\ CanRead(Sector(a)) /\ AddReader(a, Sector(a))
  /\ in_ram' = [in_ram EXCEPT ![a] = addr[Sector(a)]]
  /\ Goto(a, IF addr[Sector(a)] # Nobody THEN Cached(a) ELSE "miss")
  /\ UNCHANGED <<disk, addr, entry, evict_I, request, tried, upgraded, got, budget>>

\* r_lock_upgrade_to_w: the read hold is given back first ...
UpgradeBegin(a) ==
  /\ pc[a] = "miss"
  /\ DropReader(a, Sector(a))
  /\ Goto(a, "upgrade")
  /\ UNCHANGED <<disk, addr, entry, evict_I, request, in_ram, tried, upgraded,
                 got, budget>>

\* Mutant: the second look at addr is forgotten.
UpgradeEnd_no_recheck(a) ==
  /\ pc[a] = "upgrade"
  /\ CanWrite(Sector(a)) /\ SetWriter(a, Sector(a))
  /\ upgraded' = [upgraded EXCEPT ![a] = TRUE]
  /\ tried' = [tried EXCEPT ![a] = 0]
  /\ Goto(a, "evict")
  /\ UNCHANGED <<disk, addr, entry, evict_I, request, in_ram, got, budget>>

\* ... so another thread may have cached the sector when it returns.
UpgradeEnd(a) ==
  /\ pc[a] = "upgrade"
  /\ CanWrite(Sector(a)) /\ SetWriter(a, Sector(a))
  /\ upgraded' = [upgraded EXCEPT ![a] = TRUE]
  /\ in_ram' = [in_ram EXCEPT ![a] = addr[Sector(a)]]
  /\ tried' = [tried EXCEPT ![a] = 0]
  /\ Goto(a, IF addr[Sector(a)] # Nobody THEN Cached(a) ELSE "evict")
  /\ UNCHANGED <<disk, addr, entry, evict_I, request, got, budget>>

-----------------------------------------------------------------------------
(***************************************************************************)
(* evict: two rounds of the clock over the entries.  It returns an entry   *)
(* without holder whose lock it holds, or fails.                           *)
(***************************************************************************)
EvictFail(a) ==
  /\ pc[a] = "evict" /\ tried[a] = 2 * BufferLen
  /\ Goto(a, IF request[a].kind = "ahead" THEN "unlock" ELSE "direct")
  /\ UNCHANGED <<disk, addr, entry, rwlock, evict_I, request, in_ram, tried,
                 upgraded, got, budget>>

EvictTry(a) ==
  /\ pc[a] = "evict" /\ tried[a] < 2 * BufferLen
  /\ evict_I' = (evict_I + 1) % BufferLen
  /\ tried' = [tried EXCEPT ![a] = @ + 1]
  /\ \/ /\ entry[evict_I].lock = Nobody
        /\ entry' = [entry EXCEPT ![evict_I].lock = a]
        /\ in_ram' = [in_ram EXCEPT ![a] = evict_I]
        /\ Goto(a, "claimed")
     \/ /\ entry[evict_I].lock # Nobody
        /\ UNCHANGED <<entry, in_ram, pc>>
  /\ UNCHANGED <<disk, addr, rwlock, request, upgraded, got, budget>>

\* Mutant: an entry is taken although it was used since the last round, or
\* is being used: w_try_lock_acquire is not called.
Claimed_no_try(a) ==
  /\ pc[a] = "claimed"
  /\ LET h == entry[in_ram[a]].holder IN
     \/ h = Nobody /\ Goto(a, "install") /\ UNCHANGED rwlock
     \/ h # Nobody /\ SetWriter(a, h) /\ Goto(a, "flush")
  /\ UNCHANGED <<disk, addr, entry, evict_I, request, in_ram, tried, upgraded,
                 got, budget>>

\* A free entry is returned; one that is in use, or was used since the hand
\* last passed, is let go; otherwise its sector is locked for the eviction.
Claimed(a) ==
  /\ pc[a] = "claimed"
  /\ LET e == in_ram[a]
         h == entry[e].holder
     IN  \/ /\ h = Nobody
            /\ Goto(a, "install")
            /\ UNCHANGED <<entry, rwlock>>
         \/ /\ h # Nobody /\ ~ CanWrite(h)
            /\ entry' = [entry EXCEPT ![e].lock = Nobody]
            /\ Goto(a, "evict")
            /\ UNCHANGED rwlock
         \/ /\ h # Nobody /\ CanWrite(h) /\ entry[e].accessed
            /\ entry' = [entry EXCEPT ![e].accessed = FALSE, ![e].lock = Nobody]
            /\ Goto(a, "evict")
            /\ UNCHANGED rwlock
         \/ /\ h # Nobody /\ CanWrite(h) /\ ~ entry[e].accessed
            /\ SetWriter(a, h)
            /\ Goto(a, "flush")
            /\ UNCHANGED entry
  /\ UNCHANGED <<disk, addr, evict_I, request, in_ram, tried, upgraded, got, budget>>

\* Mutant: the victim is dropped without fflush_single.
Flush_no_write(a) ==
  LET e == in_ram[a] IN
  /\ pc[a] = "flush"
  /\ addr' = [addr EXCEPT ![entry[e].holder] = Nobody]
  /\ entry' = [entry EXCEPT ![e].holder = Nobody, ![e].dirty = 0]
  /\ SetWriter(Nobody, entry[e].holder)
  /\ Goto(a, "install")
  /\ UNCHANGED <<disk, evict_I, request, in_ram, tried, upgraded, got, budget>>

\* fflush_single on the victim, and its removal from the cache.  Both locks
\* are held, so this is one step.  fflush_single leaves dirty at 1.
Flush(a) ==
  LET e == in_ram[a]
      h == entry[e].holder
  IN
  /\ pc[a] = "flush"
  /\ \/ entry[e].dirty # 0 /\ disk' = [disk EXCEPT ![h] = entry[e].data]
     \/ entry[e].dirty = 0 /\ UNCHANGED disk
  /\ addr' = [addr EXCEPT ![h] = Nobody]
  /\ entry' = [entry EXCEPT ![e].holder = Nobody,
                            ![e].dirty = IF @ # 0 THEN 1 ELSE 0]
  /\ SetWriter(Nobody, h)
  /\ Goto(a, "install")
  /\ UNCHANGED <<evict_I, request, in_ram, tried, upgraded, got, budget>>

\* The entry is given to the sector and its lock released ...
Install(a) ==
  /\ pc[a] = "install"
  /\ addr' = [addr EXCEPT ![Sector(a)] = in_ram[a]]
  /\ entry' = [entry EXCEPT ![in_ram[a]].holder = Sector(a),
                            ![in_ram[a]].lock = Nobody]
  /\ Goto(a, "fill")
  /\ UNCHANGED <<disk, rwlock, evict_I, request, in_ram, tried, upgraded, got, budget>>

\* ... and only then the sector is read into it.
Fill(a) ==
  /\ pc[a] = "fill"
  /\ entry' = [entry EXCEPT ![in_ram[a]].data = disk[Sector(a)]]
  /\ Goto(a, Cached(a))
  /\ UNCHANGED <<disk, addr, rwlock, evict_I, request, in_ram, tried, upgraded,
                 got, budget>>

-----------------------------------------------------------------------------
(***************************************************************************)
(* The data of the request.                                                *)
(***************************************************************************)

\* atomic_gio_memcpy between the caller's buffer and the entry.
Copy(a) ==
  LET r == request[a] IN
  /\ pc[a] = "copy"
  /\ \/ /\ r.kind = "read"
        /\ got' = [got EXCEPT ![a] = entry[in_ram[a]].data[r.segment]]
        /\ UNCHANGED entry
     \/ /\ r.kind = "write"
        /\ entry' = [entry EXCEPT ![in_ram[a]].data[r.segment] = r.value]
        /\ UNCHANGED got
  /\ Goto(a, "mark")
  /\ UNCHANGED <<disk, addr, rwlock, evict_I, request, in_ram, tried, upgraded, budget>>

\* Mutant: a write does not mark the entry dirty.
Mark_not_dirty(a) ==
  /\ pc[a] = "mark"
  /\ entry' = [entry EXCEPT ![in_ram[a]].accessed = TRUE]
  /\ Goto(a, "unlock")
  /\ UNCHANGED <<disk, addr, rwlock, evict_I, request, in_ram, tried, upgraded,
                 got, budget>>

\* dirty++ of a write (modulo 2^16), accessed++ of both.
Mark(a) ==
  /\ pc[a] = "mark"
  /\ entry' = [entry EXCEPT ![in_ram[a]].accessed = TRUE,
                            ![in_ram[a]].dirty = IF request[a].kind = "write"
                                                 THEN (@ + 1) % DirtyMod ELSE @]
  /\ Goto(a, "unlock")
  /\ UNCHANGED <<disk, addr, rwlock, evict_I, request, in_ram, tried, upgraded,
                 got, budget>>

\* No entry could be had: the request goes to the disk, under the write lock.
Direct(a) ==
  LET r == request[a] IN
  /\ pc[a] = "direct"
  /\ \/ /\ r.kind = "read"
        /\ got' = [got EXCEPT ![a] = disk[r.sector][r.segment]]
        /\ UNCHANGED disk
     \/ /\ r.kind = "write"
        /\ disk' = [disk EXCEPT ![r.sector][r.segment] = r.value]
        /\ UNCHANGED got
  /\ Goto(a, "unlock")
  /\ UNCHANGED <<addr, entry, rwlock, evict_I, request, in_ram, tried, upgraded, budget>>

\* Mutant: the write lock is given back as if it were the read lock.
Unlock_read(a) ==
  /\ pc[a] = "unlock"
  /\ DropReader(a, Sector(a))
  /\ Goto(a, "idle")
  /\ UNCHANGED <<disk, addr, entry, evict_I, request, in_ram, tried, upgraded,
                 got, budget>>

Unlock(a) ==
  /\ pc[a] = "unlock"
  /\ \/ upgraded[a] /\ SetWriter(Nobody, Sector(a))
     \/ ~ upgraded[a] /\ DropReader(a, Sector(a))
  /\ Goto(a, "idle")
  /\ UNCHANGED <<disk, addr, entry, evict_I, request, in_ram, tried, upgraded,
                 got, budget>>

-----------------------------------------------------------------------------
(***************************************************************************)
(* fflush_all: entry by entry, under the lock of the entry only.           *)
(***************************************************************************)
FlushBegin(a) ==
  /\ pc[a] = "idle" /\ budget[a] > 0
  /\ budget' = [budget EXCEPT ![a] = @ - 1]
  /\ in_ram' = [in_ram EXCEPT ![a] = 0]
  /\ Goto(a, "f_lock")
  /\ UNCHANGED <<disk, addr, entry, rwlock, evict_I, request, tried, upgraded, got>>

fflush_all(f) == f \in Flushers /\ FlushBegin(f)

\* The shutdown comes when the threads have finished their work.
filesys_done ==
  /\ \A t \in Threads : pc[t] = "idle" /\ budget[t] = 0
  /\ FlushBegin(Main)

FlushLock(a) ==
  /\ pc[a] = "f_lock" /\ entry[in_ram[a]].lock = Nobody
  /\ entry' = [entry EXCEPT ![in_ram[a]].lock = a]
  /\ Goto(a, IF entry[in_ram[a]].holder # Nobody THEN "f_swap" ELSE "f_unlock")
  /\ UNCHANGED <<disk, addr, rwlock, evict_I, request, in_ram, tried, upgraded,
                 got, budget>>

\* fflush_single: dirty is swapped for 0, ...
FlushSwap(a) ==
  /\ pc[a] = "f_swap"
  /\ entry' = [entry EXCEPT ![in_ram[a]].dirty = 0]
  /\ Goto(a, IF entry[in_ram[a]].dirty # 0 THEN "f_write" ELSE "f_unlock")
  /\ UNCHANGED <<disk, addr, rwlock, evict_I, request, in_ram, tried, upgraded,
                 got, budget>>

\* ... the data is written to the sector that holds the entry now, ...
FlushWrite(a) ==
  /\ pc[a] = "f_write"
  /\ disk' = [disk EXCEPT ![entry[in_ram[a]].holder] = entry[in_ram[a]].data]
  /\ Goto(a, "f_dirty")
  /\ UNCHANGED <<addr, entry, rwlock, evict_I, request, in_ram, tried, upgraded,
                 got, budget>>

\* ... and dirty is set again.
FlushDirty(a) ==
  /\ pc[a] = "f_dirty"
  /\ entry' = [entry EXCEPT ![in_ram[a]].dirty = 1]
  /\ Goto(a, "f_unlock")
  /\ UNCHANGED <<disk, addr, rwlock, evict_I, request, in_ram, tried, upgraded,
                 got, budget>>

FlushUnlock(a) ==
  /\ pc[a] = "f_unlock"
  /\ entry' = [entry EXCEPT ![in_ram[a]].lock = Nobody]
  /\ \/ /\ in_ram[a] < BufferLen - 1
        /\ in_ram' = [in_ram EXCEPT ![a] = @ + 1]
        /\ Goto(a, "f_lock")
     \/ /\ in_ram[a] = BufferLen - 1
        /\ Goto(a, IF a = Main THEN "off" ELSE "idle")
        /\ UNCHANGED in_ram
  /\ UNCHANGED <<disk, addr, rwlock, evict_I, request, tried, upgraded, got, budget>>

-----------------------------------------------------------------------------
Start ==
  \/ \E t \in Threads, s \in Sectors, g \in Segments :
       \/ cached_block_read_segment(t, s, g)
       \/ \E v \in Values : cached_block_write_segment(t, s, g, v)
  \/ \E f \in Flushers : fflush_all(f) \/ \E s \in Sectors : read_ahead(f, s)
  \/ filesys_done

Step(a) ==
  \/ ReadLock(a) \/ UpgradeBegin(a) \/ UpgradeEnd(a)
  \/ EvictFail(a) \/ EvictTry(a) \/ Claimed(a) \/ Flush(a)
  \/ Install(a) \/ Fill(a) \/ Copy(a) \/ Mark(a) \/ Direct(a) \/ Unlock(a)
  \/ FlushLock(a) \/ FlushSwap(a) \/ FlushWrite(a) \/ FlushDirty(a) \/ FlushUnlock(a)

\* The machine is switched off once the shutdown has flushed the cache and
\* the background rounds are used up.
Done ==
  /\ pc[Main] = "off" /\ \A f \in Flushers : pc[f] = "idle" /\ budget[f] = 0
  /\ UNCHANGED vars

Next == Start \/ (\E a \in Agents : Step(a)) \/ Done

Spec == Init /\ [][Next]_vars

\* Every thread runs again and again: the scheduler is round-robin and disk
\* transfers end.
Fairness == (\A a \in Agents : WF_vars(Step(a))) /\ WF_vars(filesys_done)

LiveSpec == Spec /\ Fairness

-----------------------------------------------------------------------------
(***************************************************************************)
(* Properties.                                                             *)
(***************************************************************************)

\* The sector as its users see it: the cached copy once it is filled, and
\* the disk before.
Filling(s) == \E a \in Agents : pc[a] = "fill" /\ Sector(a) = s
Store == [s \in Sectors |->
            IF addr[s] # Nobody /\ ~ Filling(s) THEN entry[addr[s]].data ELSE disk[s]]

Status(t) ==
  CASE pc[t] = "idle" -> "none"
    [] pc[t] \in {"mark", "unlock"} -> "done"
    [] OTHER -> "pending"

Abstract == INSTANCE SectorStore WITH
  store <- Store,
  request <- [t \in Threads |-> request[t]],
  status <- [t \in Threads |-> Status(t)]

\* Cached reads and writes behave like atomic operations on the sectors, in
\* spite of evictions, upgrades and flushes that run at the same time.
ImplementsStore == Abstract!Spec

\* The design document on write-behind: the flusher writes changed entries to
\* disk.  A flush never changes what the users of the cache see.
FlushKeepsContents ==
  [][\A f \in Flushers : pc[f] = "f_write" /\ pc'[f] = "f_dirty" => Store' = Store]_vars

\* The ASSERTs of a fill: the entry that evict returned is free and locked by
\* this thread, and nobody cached the sector in the meantime.
FillAssertsHold ==
  \A a \in Agents : pc[a] = "install" =>
    /\ addr[Sector(a)] = Nobody
    /\ entry[in_ram[a]].holder = Nobody
    /\ entry[in_ram[a]].lock = a

\* addr and holder are inverse to each other, whatever is in flight: no two
\* sectors share an entry and no sector is cached twice.
MapsAgree ==
  \A s \in Sectors, e \in Entries : addr[s] = e <=> entry[e].holder = s

\* An entry that a thread copies from or to cannot be taken away from it.
PinnedWhileUsed ==
  \A a \in Agents : pc[a] \in {"fill", "copy", "mark"} =>
    addr[Sector(a)] = in_ram[a] /\ entry[in_ram[a]].holder = Sector(a)

\* Every entry belongs to at most one sector, and to that one for as long as
\* somebody works on it (read_write_in_cache, evict, fflush_single).
EntriesOwned == TypeOK /\ MapsAgree /\ PinnedWhileUsed

\* filesys_done: "writing any unwritten data to disk".  After the shutdown's
\* flush the disk holds what the threads wrote last.
DurableAtShutdown == pc[Main] = "off" => disk = Store

\* No request waits for ever: the locks of sectors and entries cannot form a
\* cycle, because evict only tries them.
RequestsReturn == \A t \in Threads : pc[t] # "idle" ~> pc[t] = "idle"
=============================================================================
