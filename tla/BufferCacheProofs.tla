------------------------- MODULE BufferCacheProofs --------------------------
(***************************************************************************)
(* Proofs about the buffer cache, for every number of entries, sectors,    *)
(* threads and flushers: every entry belongs to at most one sector, to     *)
(* that one for as long as somebody works on it, and the ASSERTs of a fill *)
(* hold.                                                                   *)
(*                                                                         *)
(* The argument is one of ownership.  Who holds which of the two kinds of  *)
(* locks follows from where an agent is (EntryLockOK, SectorLockOK), the   *)
(* lock of an entry keeps its holder from changing, and the lock of a      *)
(* sector keeps its place in addr from changing (PlaceOK).                 *)
(*                                                                         *)
(* On that rests the second part: without the flusher the cache implements *)
(* SectorStore, and its shutdown leaves everything on the disk.  The last  *)
(* part is about the read-ahead ring of the same file, which shares no     *)
(* variable with the cache.                                                *)
(***************************************************************************)
EXTENDS BufferCache, ReadAhead, TLAPS, FiniteSetTheorems

\* Where an agent holds the lock of the entry in_ram.
EntryPCs == {"claimed", "flush", "install", "f_swap", "f_write", "f_dirty", "f_unlock"}
\* Where a request holds the write lock of its sector, after an upgrade.
EvictPCs == {"evict", "claimed", "flush", "install"}
\* Where a request holds the lock of its sector in the one way or the other.
UsePCs == {"copy", "mark", "unlock"}

\* An agent that works on an entry under its lock has that lock; the flusher
\* only writes an entry that has a holder (evict, fflush_all).
EntryLock(a) ==
  /\ pc[a] \in EntryPCs => in_ram[a] \in Entries /\ entry[in_ram[a]].lock = a
  /\ pc[a] = "f_lock" => in_ram[a] \in Entries
  /\ pc[a] \in {"f_swap", "f_write"} => entry[in_ram[a]].holder # Nobody

\* A request holds the lock of its sector in the way it believes to; an evictor
\* holds that of the victim as well (r_lock_acquire, r_lock_upgrade_to_w,
\* w_try_lock_acquire).
SectorLock(a) ==
  /\ pc[a] = "lock" => ~ upgraded[a]
  /\ pc[a] = "miss" => a \in rwlock[Sector(a)].readers
  /\ pc[a] \in UsePCs /\ ~ upgraded[a] => a \in rwlock[Sector(a)].readers
  /\ pc[a] \in UsePCs /\ upgraded[a] => rwlock[Sector(a)].writer = a
  /\ pc[a] \in EvictPCs \cup {"fill", "direct"} =>
       upgraded[a] /\ rwlock[Sector(a)].writer = a
  /\ pc[a] = "flush" =>
       /\ entry[in_ram[a]].holder \in Sectors
       /\ rwlock[entry[in_ram[a]].holder].writer = a

\* What a request knows of the place of its sector: nobody has cached it while
\* it looks for an entry, the entry it found has no holder, and the
\* entry it uses stays that of its sector.
Place(a) ==
  /\ pc[a] \in EvictPCs \cup {"direct"} => addr[Sector(a)] = Nobody
  /\ pc[a] = "install" => entry[in_ram[a]].holder = Nobody
  /\ pc[a] \in {"fill", "copy", "mark"} =>
       in_ram[a] \in Entries /\ addr[Sector(a)] = in_ram[a]

\* Only a request of a thread copies data.
Kind(a) ==
  /\ request[a].kind # "ahead" => a \in Threads
  /\ pc[a] \in {"copy", "mark", "direct"} => request[a].kind # "ahead"

EntryLockOK == \A a \in Agents : EntryLock(a)
SectorLockOK == /\ \A s \in Sectors : rwlock[s].writer # Nobody => rwlock[s].readers = {}
                /\ \A a \in Agents : SectorLock(a)
PlaceOK == \A a \in Agents : Place(a)
KindOK == \A a \in Agents : Kind(a)

IInv == TypeOK /\ MapsAgree /\ EntryLockOK /\ SectorLockOK /\ PlaceOK /\ KindOK

-----------------------------------------------------------------------------
\* The type of an entry, as in TypeOK.
EntryType == [lock : Agents \cup {Nobody}, holder : Sectors \cup {Nobody},
              dirty : 0 .. DirtyMod - 1, accessed : BOOLEAN, data : Contents]

LEMMA EntryTyped == TypeOK => entry \in [Entries -> EntryType]
BY DEF TypeOK, EntryType

\* What the updates of the fields of an entry and of a lock give.
LEMMA MarkTyped ==
  ASSUME entry \in [Entries -> EntryType], NEW e \in Entries,
         NEW d \in 0 .. DirtyMod - 1
  PROVE  [entry EXCEPT ![e].accessed = TRUE, ![e].dirty = d] \in [Entries -> EntryType]
BY DEF EntryType

LEMMA DropTyped ==
  ASSUME entry \in [Entries -> EntryType], NEW e \in Entries, NEW b \in BOOLEAN
  PROVE  [entry EXCEPT ![e].accessed = b, ![e].lock = Nobody] \in [Entries -> EntryType]
BY DEF EntryType

LEMMA DataTyped ==
  ASSUME entry \in [Entries -> EntryType], NEW e \in Entries, NEW c \in Contents
  PROVE  [entry EXCEPT ![e].data = c] \in [Entries -> EntryType]
BY DEF EntryType

LEMMA WriterTyped ==
  ASSUME TypeOK, NEW z \in Sectors, NEW w \in Agents \cup {Nobody}
  PROVE  [rwlock EXCEPT ![z].writer = w]
           \in [Sectors -> [writer : Agents \cup {Nobody}, readers : SUBSET Agents]]
BY DEF TypeOK

LEMMA ReadersTyped ==
  ASSUME TypeOK, NEW z \in Sectors, NEW R \in SUBSET Agents
  PROVE  [rwlock EXCEPT ![z].readers = R]
           \in [Sectors -> [writer : Agents \cup {Nobody}, readers : SUBSET Agents]]
BY DEF TypeOK

\* The clock hand goes round.
LEMMA NextHand ==
  ASSUME NEW n \in Nat \ {0}, NEW i \in 0 .. n - 1
  PROVE  (i + 1) % n \in 0 .. n - 1
OBVIOUS

\* The fields of a request.
LEMMA RequestType ==
  ASSUME TypeOK
  PROVE  \A a \in Agents :
           /\ request[a].sector \in Sectors /\ request[a].segment \in Segments
           /\ request[a].value \in Values /\ request[a].kind \in {"read", "write", "ahead"}
BY DEF TypeOK, Requests

-----------------------------------------------------------------------------
\* One lemma for each action: it keeps every part of the invariant.

\* A request begins.
LEMMA BeginKeeps ==
  ASSUME IInv, NEW a \in Agents, NEW r \in Requests,
         r.kind = "ahead" \/ a \in Threads, Begin(a, r)
  PROVE  IInv'
<1>. USE CacheAssumption DEF IInv, Sector, Goto, Begin
<1>0. \A b \in Agents :
        /\ request[b].sector \in Sectors /\ request[b].segment \in Segments
        /\ request[b].value \in Values /\ request[b].kind \in {"read", "write", "ahead"}
  BY RequestType
<1>1. pc'[a] = "lock"
  BY DEF TypeOK
<1>2. TypeOK'
  <2>1. disk' \in [Sectors -> Contents] /\ addr' \in [Sectors -> Entries \cup {Nobody}]
    BY <1>0, <1>1 DEF TypeOK
  <2>2. entry' \in [Entries -> EntryType]
    BY <1>0, <1>1 DEF TypeOK, EntryType
  <2>3. rwlock' \in [Sectors -> [writer : Agents \cup {Nobody}, readers : SUBSET Agents]]
    BY <1>0, <1>1 DEF TypeOK
  <2>4. pc' \in [Agents -> {"idle", "off"} \cup AccessPCs \cup FlushPCs]
    BY <1>0, <1>1 DEF TypeOK, AccessPCs, FlushPCs, Cached
  <2>5. request' \in [Agents -> Requests] /\ in_ram' \in [Agents -> Entries \cup {Nobody}] /\ evict_I' \in Entries
    BY <1>0, <1>1 DEF TypeOK
  <2>6. /\ tried' \in [Agents -> 0 .. 2 * BufferLen] /\ upgraded' \in [Agents -> BOOLEAN]
        /\ got' \in [Threads -> Values] /\ budget' \in [Agents -> 0 .. MaxRequests + MaxRounds + 1]
    BY <1>0, <1>1 DEF TypeOK
  <2>. QED BY <2>1, <2>2, <2>3, <2>4, <2>5, <2>6 DEF TypeOK, EntryType
<1>3. MapsAgree'
  BY <1>0, <1>1 DEF TypeOK, MapsAgree, EntryLockOK, EntryLock, SectorLockOK, SectorLock, PlaceOK, Place, EntryPCs, EvictPCs
<1>4. EntryLockOK'
  BY <1>0, <1>1 DEF TypeOK, EntryLockOK, EntryLock, EntryPCs, Cached, PlaceOK, Place
<1>5. SectorLockOK'
  <2>1. \A z \in Sectors : rwlock'[z].writer # Nobody => rwlock'[z].readers = {}
    BY <1>0, <1>1 DEF TypeOK, MapsAgree, EntryLockOK, EntryLock, SectorLockOK, SectorLock, PlaceOK, Place, EvictPCs, EntryPCs, UsePCs, Cached
  <2>2. SectorLock(a)'
    BY <1>0, <1>1 DEF TypeOK, MapsAgree, EntryLockOK, EntryLock, SectorLockOK, SectorLock, PlaceOK, Place, EvictPCs, EntryPCs, UsePCs, Cached
  <2>3. ASSUME NEW b \in Agents, b # a PROVE SectorLock(b)'
    BY <1>0, <1>1, <2>3 DEF TypeOK, MapsAgree, EntryLockOK, EntryLock, SectorLockOK, SectorLock, PlaceOK, Place, EvictPCs, EntryPCs, UsePCs, Cached
  <2>. QED BY <2>1, <2>2, <2>3 DEF SectorLockOK
<1>6. PlaceOK'
  <2>2. Place(a)'
    BY <1>0, <1>1 DEF TypeOK, MapsAgree, EntryLockOK, EntryLock, SectorLockOK, SectorLock, PlaceOK, Place, EvictPCs, EntryPCs, UsePCs, Cached
  <2>3. ASSUME NEW b \in Agents, b # a PROVE Place(b)'
    BY <1>0, <1>1, <2>3 DEF TypeOK, MapsAgree, EntryLockOK, EntryLock, SectorLockOK, SectorLock, PlaceOK, Place, EvictPCs, EntryPCs, UsePCs, Cached
  <2>. QED BY <2>2, <2>3 DEF PlaceOK
<1>7. KindOK'
  BY <1>0, <1>1 DEF TypeOK, KindOK, Kind, Cached
<1>. QED BY <1>2, <1>3, <1>4, <1>5, <1>6, <1>7

\* r_lock_acquire.
LEMMA ReadLockKeeps ==
  ASSUME IInv, NEW a \in Agents, ReadLock(a)
  PROVE  IInv'
<1>. USE CacheAssumption DEF IInv, Sector, Goto, ReadLock, CanRead, AddReader
<1>0. \A b \in Agents :
        /\ request[b].sector \in Sectors /\ request[b].segment \in Segments
        /\ request[b].value \in Values /\ request[b].kind \in {"read", "write", "ahead"}
  BY RequestType
<1>1. TypeOK'
  <2>1. disk' \in [Sectors -> Contents] /\ addr' \in [Sectors -> Entries \cup {Nobody}]
    BY <1>0 DEF TypeOK
  <2>2. entry' \in [Entries -> EntryType]
    BY <1>0 DEF TypeOK, EntryType
  <2>3. rwlock' \in [Sectors -> [writer : Agents \cup {Nobody}, readers : SUBSET Agents]]
    BY <1>0 DEF TypeOK
  <2>4. pc' \in [Agents -> {"idle", "off"} \cup AccessPCs \cup FlushPCs]
    BY <1>0 DEF TypeOK, AccessPCs, FlushPCs, Cached
  <2>5. request' \in [Agents -> Requests] /\ in_ram' \in [Agents -> Entries \cup {Nobody}] /\ evict_I' \in Entries
    BY <1>0 DEF TypeOK
  <2>6. /\ tried' \in [Agents -> 0 .. 2 * BufferLen] /\ upgraded' \in [Agents -> BOOLEAN]
        /\ got' \in [Threads -> Values] /\ budget' \in [Agents -> 0 .. MaxRequests + MaxRounds + 1]
    BY <1>0 DEF TypeOK
  <2>. QED BY <2>1, <2>2, <2>3, <2>4, <2>5, <2>6 DEF TypeOK, EntryType
<1>2. MapsAgree'
  BY <1>0 DEF TypeOK, MapsAgree, EntryLockOK, EntryLock, SectorLockOK, SectorLock, PlaceOK, Place, EntryPCs, EvictPCs
<1>3. EntryLockOK'
  <2>2. EntryLock(a)'
    BY <1>0 DEF TypeOK, EntryLockOK, EntryLock, EntryPCs, Cached, PlaceOK, Place
  <2>3. ASSUME NEW b \in Agents, b # a PROVE EntryLock(b)'
    BY <1>0, <2>3 DEF TypeOK, EntryLockOK, EntryLock, EntryPCs, Cached, PlaceOK, Place
  <2>. QED BY <2>2, <2>3 DEF EntryLockOK
<1>4. SectorLockOK'
  <2>1. \A z \in Sectors : rwlock'[z].writer # Nobody => rwlock'[z].readers = {}
    BY <1>0 DEF TypeOK, MapsAgree, EntryLockOK, EntryLock, SectorLockOK, SectorLock, PlaceOK, Place, EvictPCs, EntryPCs, UsePCs, Cached
  <2>2. SectorLock(a)'
    BY <1>0 DEF TypeOK, MapsAgree, EntryLockOK, EntryLock, SectorLockOK, SectorLock, PlaceOK, Place, EvictPCs, EntryPCs, UsePCs, Cached
  <2>3. ASSUME NEW b \in Agents, b # a PROVE SectorLock(b)'
    BY <1>0, <2>3 DEF TypeOK, MapsAgree, EntryLockOK, EntryLock, SectorLockOK, SectorLock, PlaceOK, Place, EvictPCs, EntryPCs, UsePCs, Cached
  <2>. QED BY <2>1, <2>2, <2>3 DEF SectorLockOK
<1>5. PlaceOK'
  <2>2. Place(a)'
    BY <1>0 DEF TypeOK, MapsAgree, EntryLockOK, EntryLock, SectorLockOK, SectorLock, PlaceOK, Place, EvictPCs, EntryPCs, UsePCs, Cached
  <2>3. ASSUME NEW b \in Agents, b # a PROVE Place(b)'
    BY <1>0, <2>3 DEF TypeOK, MapsAgree, EntryLockOK, EntryLock, SectorLockOK, SectorLock, PlaceOK, Place, EvictPCs, EntryPCs, UsePCs, Cached
  <2>. QED BY <2>2, <2>3 DEF PlaceOK
<1>6. KindOK'
  BY <1>0 DEF TypeOK, KindOK, Kind, Cached
<1>. QED BY <1>1, <1>2, <1>3, <1>4, <1>5, <1>6

\* r_lock_upgrade_to_w gives the read hold back.
LEMMA UpgradeBeginKeeps ==
  ASSUME IInv, NEW a \in Agents, UpgradeBegin(a)
  PROVE  IInv'
<1>. USE CacheAssumption DEF IInv, Sector, Goto, UpgradeBegin, DropReader
<1>0. \A b \in Agents :
        /\ request[b].sector \in Sectors /\ request[b].segment \in Segments
        /\ request[b].value \in Values /\ request[b].kind \in {"read", "write", "ahead"}
  BY RequestType
<1>1. TypeOK'
  <2>1. disk' \in [Sectors -> Contents] /\ addr' \in [Sectors -> Entries \cup {Nobody}]
    BY <1>0 DEF TypeOK
  <2>2. entry' \in [Entries -> EntryType]
    BY <1>0 DEF TypeOK, EntryType
  <2>3. rwlock' \in [Sectors -> [writer : Agents \cup {Nobody}, readers : SUBSET Agents]]
    <3>1. rwlock[request[a].sector].readers \ {a} \in SUBSET Agents
      BY <1>0 DEF TypeOK
    <3>2. rwlock' = [rwlock EXCEPT ![request[a].sector].readers
                                     = rwlock[request[a].sector].readers \ {a}]
      BY <1>0 DEF TypeOK
    <3>3. TypeOK /\ request[a].sector \in Sectors
      BY <1>0
    <3>. HIDE DEF IInv, UpgradeBegin, DropReader
    <3>. QED BY <3>1, <3>2, <3>3, ReadersTyped
  <2>4. pc' \in [Agents -> {"idle", "off"} \cup AccessPCs \cup FlushPCs]
    BY <1>0 DEF TypeOK, AccessPCs, FlushPCs, Cached
  <2>5. request' \in [Agents -> Requests] /\ in_ram' \in [Agents -> Entries \cup {Nobody}] /\ evict_I' \in Entries
    BY <1>0 DEF TypeOK
  <2>6. /\ tried' \in [Agents -> 0 .. 2 * BufferLen] /\ upgraded' \in [Agents -> BOOLEAN]
        /\ got' \in [Threads -> Values] /\ budget' \in [Agents -> 0 .. MaxRequests + MaxRounds + 1]
    BY <1>0 DEF TypeOK
  <2>. QED BY <2>1, <2>2, <2>3, <2>4, <2>5, <2>6 DEF TypeOK, EntryType
<1>2. MapsAgree'
  BY <1>0 DEF TypeOK, MapsAgree, EntryLockOK, EntryLock, SectorLockOK, SectorLock, PlaceOK, Place, EntryPCs, EvictPCs
<1>3. EntryLockOK'
  BY <1>0 DEF TypeOK, EntryLockOK, EntryLock, EntryPCs, Cached, PlaceOK, Place
<1>4. SectorLockOK'
  BY <1>0 DEF TypeOK, MapsAgree, EntryLockOK, EntryLock, SectorLockOK, SectorLock, PlaceOK, Place, EvictPCs, EntryPCs, UsePCs, Cached
<1>5. PlaceOK'
  BY <1>0 DEF TypeOK, MapsAgree, EntryLockOK, EntryLock, SectorLockOK, SectorLock, PlaceOK, Place, EvictPCs, EntryPCs, UsePCs, Cached
<1>6. KindOK'
  BY <1>0 DEF TypeOK, KindOK, Kind, Cached
<1>. QED BY <1>1, <1>2, <1>3, <1>4, <1>5, <1>6

\* r_lock_upgrade_to_w returns.
LEMMA UpgradeEndKeeps ==
  ASSUME IInv, NEW a \in Agents, UpgradeEnd(a)
  PROVE  IInv'
<1>. USE CacheAssumption DEF IInv, Sector, Goto, UpgradeEnd, CanWrite, SetWriter
<1>0. \A b \in Agents :
        /\ request[b].sector \in Sectors /\ request[b].segment \in Segments
        /\ request[b].value \in Values /\ request[b].kind \in {"read", "write", "ahead"}
  BY RequestType
<1>1. TypeOK'
  <2>1. disk' \in [Sectors -> Contents] /\ addr' \in [Sectors -> Entries \cup {Nobody}]
    BY <1>0 DEF TypeOK
  <2>2. entry' \in [Entries -> EntryType]
    BY <1>0 DEF TypeOK, EntryType
  <2>3. rwlock' \in [Sectors -> [writer : Agents \cup {Nobody}, readers : SUBSET Agents]]
    BY <1>0 DEF TypeOK
  <2>4. pc' \in [Agents -> {"idle", "off"} \cup AccessPCs \cup FlushPCs]
    BY <1>0 DEF TypeOK, AccessPCs, FlushPCs, Cached
  <2>5. request' \in [Agents -> Requests] /\ in_ram' \in [Agents -> Entries \cup {Nobody}] /\ evict_I' \in Entries
    BY <1>0 DEF TypeOK
  <2>6. /\ tried' \in [Agents -> 0 .. 2 * BufferLen] /\ upgraded' \in [Agents -> BOOLEAN]
        /\ got' \in [Threads -> Values] /\ budget' \in [Agents -> 0 .. MaxRequests + MaxRounds + 1]
    BY <1>0 DEF TypeOK
  <2>. QED BY <2>1, <2>2, <2>3, <2>4, <2>5, <2>6 DEF TypeOK, EntryType
<1>2. MapsAgree'
  BY <1>0 DEF TypeOK, MapsAgree, EntryLockOK, EntryLock, SectorLockOK, SectorLock, PlaceOK, Place, EntryPCs, EvictPCs
<1>3. EntryLockOK'
  <2>2. EntryLock(a)'
    BY <1>0 DEF TypeOK, EntryLockOK, EntryLock, EntryPCs, Cached, PlaceOK, Place
  <2>3. ASSUME NEW b \in Agents, b # a PROVE EntryLock(b)'
    BY <1>0, <2>3 DEF TypeOK, EntryLockOK, EntryLock, EntryPCs, Cached, PlaceOK, Place
  <2>. QED BY <2>2, <2>3 DEF EntryLockOK
<1>4. SectorLockOK'
  <2>1. \A z \in Sectors : rwlock'[z].writer # Nobody => rwlock'[z].readers = {}
    BY <1>0 DEF TypeOK, MapsAgree, EntryLockOK, EntryLock, SectorLockOK, SectorLock, PlaceOK, Place, EvictPCs, EntryPCs, UsePCs, Cached
  <2>2. SectorLock(a)'
    BY <1>0 DEF TypeOK, MapsAgree, EntryLockOK, EntryLock, SectorLockOK, SectorLock, PlaceOK, Place, EvictPCs, EntryPCs, UsePCs, Cached
  <2>3. ASSUME NEW b \in Agents, b # a PROVE SectorLock(b)'
    BY <1>0, <2>3 DEF TypeOK, MapsAgree, EntryLockOK, EntryLock, SectorLockOK, SectorLock, PlaceOK, Place, EvictPCs, EntryPCs, UsePCs, Cached
  <2>. QED BY <2>1, <2>2, <2>3 DEF SectorLockOK
<1>5. PlaceOK'
  <2>2. Place(a)'
    BY <1>0 DEF TypeOK, MapsAgree, EntryLockOK, EntryLock, SectorLockOK, SectorLock, PlaceOK, Place, EvictPCs, EntryPCs, UsePCs, Cached
  <2>3. ASSUME NEW b \in Agents, b # a PROVE Place(b)'
    BY <1>0, <2>3 DEF TypeOK, MapsAgree, EntryLockOK, EntryLock, SectorLockOK, SectorLock, PlaceOK, Place, EvictPCs, EntryPCs, UsePCs, Cached
  <2>. QED BY <2>2, <2>3 DEF PlaceOK
<1>6. KindOK'
  BY <1>0 DEF TypeOK, KindOK, Kind, Cached
<1>. QED BY <1>1, <1>2, <1>3, <1>4, <1>5, <1>6

\* evict finds no entry.
LEMMA EvictFailKeeps ==
  ASSUME IInv, NEW a \in Agents, EvictFail(a)
  PROVE  IInv'
<1>. USE CacheAssumption DEF IInv, Sector, Goto, EvictFail
<1>0. \A b \in Agents :
        /\ request[b].sector \in Sectors /\ request[b].segment \in Segments
        /\ request[b].value \in Values /\ request[b].kind \in {"read", "write", "ahead"}
  BY RequestType
<1>1. TypeOK'
  <2>1. disk' \in [Sectors -> Contents] /\ addr' \in [Sectors -> Entries \cup {Nobody}]
    BY <1>0 DEF TypeOK
  <2>2. entry' \in [Entries -> EntryType]
    BY <1>0 DEF TypeOK, EntryType
  <2>3. rwlock' \in [Sectors -> [writer : Agents \cup {Nobody}, readers : SUBSET Agents]]
    BY <1>0 DEF TypeOK
  <2>4. pc' \in [Agents -> {"idle", "off"} \cup AccessPCs \cup FlushPCs]
    BY <1>0 DEF TypeOK, AccessPCs, FlushPCs, Cached
  <2>5. request' \in [Agents -> Requests] /\ in_ram' \in [Agents -> Entries \cup {Nobody}] /\ evict_I' \in Entries
    BY <1>0 DEF TypeOK
  <2>6. /\ tried' \in [Agents -> 0 .. 2 * BufferLen] /\ upgraded' \in [Agents -> BOOLEAN]
        /\ got' \in [Threads -> Values] /\ budget' \in [Agents -> 0 .. MaxRequests + MaxRounds + 1]
    BY <1>0 DEF TypeOK
  <2>. QED BY <2>1, <2>2, <2>3, <2>4, <2>5, <2>6 DEF TypeOK, EntryType
<1>2. MapsAgree'
  BY <1>0 DEF TypeOK, MapsAgree, EntryLockOK, EntryLock, SectorLockOK, SectorLock, PlaceOK, Place, EntryPCs, EvictPCs
<1>3. EntryLockOK'
  BY <1>0 DEF TypeOK, EntryLockOK, EntryLock, EntryPCs, Cached, PlaceOK, Place
<1>4. SectorLockOK'
  BY <1>0 DEF TypeOK, MapsAgree, EntryLockOK, EntryLock, SectorLockOK, SectorLock, PlaceOK, Place, EvictPCs, EntryPCs, UsePCs, Cached
<1>5. PlaceOK'
  BY <1>0 DEF TypeOK, MapsAgree, EntryLockOK, EntryLock, SectorLockOK, SectorLock, PlaceOK, Place, EvictPCs, EntryPCs, UsePCs, Cached
<1>6. KindOK'
  BY <1>0 DEF TypeOK, KindOK, Kind, Cached
<1>. QED BY <1>1, <1>2, <1>3, <1>4, <1>5, <1>6

\* evict tries the lock of an entry.
LEMMA EvictTryKeeps ==
  ASSUME IInv, NEW a \in Agents, EvictTry(a)
  PROVE  IInv'
<1>. USE CacheAssumption DEF IInv, Sector, Goto, EvictTry
<1>0. \A b \in Agents :
        /\ request[b].sector \in Sectors /\ request[b].segment \in Segments
        /\ request[b].value \in Values /\ request[b].kind \in {"read", "write", "ahead"}
  BY RequestType
<1>1. evict_I \in Entries /\ entry \in [Entries -> EntryType]
  BY EntryTyped DEF TypeOK
<1>2. (evict_I + 1) % BufferLen \in Entries
  BY <1>1, NextHand DEF Entries
<1>3. /\ \A e \in Entries : /\ entry'[e].holder = entry[e].holder
                            /\ entry[e].lock # Nobody => entry'[e].lock = entry[e].lock
      /\ \A b \in Agents \ {a} : pc'[b] = pc[b] /\ in_ram'[b] = in_ram[b]
  BY <1>1 DEF TypeOK, EntryType
<1>4. TypeOK'
  <2>1. disk' \in [Sectors -> Contents] /\ addr' \in [Sectors -> Entries \cup {Nobody}]
    BY <1>0, <1>1, <1>2, <1>3 DEF TypeOK
  <2>2. entry' \in [Entries -> EntryType]
    <3>1. entry' = entry \/ entry' = [entry EXCEPT ![evict_I].lock = a]
      OBVIOUS
    <3>. QED BY <1>1, <3>1 DEF EntryType
  <2>3. rwlock' \in [Sectors -> [writer : Agents \cup {Nobody}, readers : SUBSET Agents]]
    BY <1>0, <1>1, <1>2, <1>3 DEF TypeOK
  <2>4. pc' \in [Agents -> {"idle", "off"} \cup AccessPCs \cup FlushPCs]
    BY <1>0, <1>1, <1>2, <1>3 DEF TypeOK, AccessPCs, FlushPCs, Cached
  <2>5. request' \in [Agents -> Requests] /\ in_ram' \in [Agents -> Entries \cup {Nobody}] /\ evict_I' \in Entries
    BY <1>0, <1>1, <1>2, <1>3 DEF TypeOK
  <2>6. /\ tried' \in [Agents -> 0 .. 2 * BufferLen] /\ upgraded' \in [Agents -> BOOLEAN]
        /\ got' \in [Threads -> Values] /\ budget' \in [Agents -> 0 .. MaxRequests + MaxRounds + 1]
    BY <1>0, <1>1, <1>2, <1>3 DEF TypeOK
  <2>. QED BY <2>1, <2>2, <2>3, <2>4, <2>5, <2>6 DEF TypeOK, EntryType
<1>5. MapsAgree'
  BY <1>0, <1>1, <1>2, <1>3 DEF TypeOK, MapsAgree, EntryLockOK, EntryLock, SectorLockOK, SectorLock, PlaceOK, Place, EntryPCs, EvictPCs
<1>6. EntryLockOK'
  <2>2. EntryLock(a)'
    BY <1>0, <1>1, <1>2, <1>3 DEF TypeOK, EntryLockOK, EntryLock, EntryPCs, Cached, PlaceOK, Place
  <2>3. ASSUME NEW b \in Agents, b # a PROVE EntryLock(b)'
    <3>1. EntryLock(b) /\ b # Nobody
      BY DEF EntryLockOK
    <3>. HIDE DEF EvictTry, IInv
    <3>. QED BY <1>3, <2>3, <3>1 DEF EntryLock, EntryPCs
  <2>. QED BY <2>2, <2>3 DEF EntryLockOK
<1>7. SectorLockOK'
  <2>1. \A z \in Sectors : rwlock'[z].writer # Nobody => rwlock'[z].readers = {}
    BY <1>0, <1>1, <1>2, <1>3 DEF TypeOK, MapsAgree, EntryLockOK, EntryLock, SectorLockOK, SectorLock, PlaceOK, Place, EvictPCs, EntryPCs, UsePCs, Cached
  <2>2. SectorLock(a)'
    BY <1>0, <1>1, <1>2, <1>3 DEF TypeOK, MapsAgree, EntryLockOK, EntryLock, SectorLockOK, SectorLock, PlaceOK, Place, EvictPCs, EntryPCs, UsePCs, Cached
  <2>3. ASSUME NEW b \in Agents, b # a PROVE SectorLock(b)'
    BY <1>0, <1>1, <1>2, <1>3, <2>3 DEF TypeOK, MapsAgree, EntryLockOK, EntryLock, SectorLockOK, SectorLock, PlaceOK, Place, EvictPCs, EntryPCs, UsePCs, Cached
  <2>. QED BY <2>1, <2>2, <2>3 DEF SectorLockOK
<1>8. PlaceOK'
  <2>2. Place(a)'
    BY <1>0, <1>1, <1>2, <1>3 DEF TypeOK, MapsAgree, EntryLockOK, EntryLock, SectorLockOK, SectorLock, PlaceOK, Place, EvictPCs, EntryPCs, UsePCs, Cached
  <2>3. ASSUME NEW b \in Agents, b # a PROVE Place(b)'
    BY <1>0, <1>1, <1>2, <1>3, <2>3 DEF TypeOK, MapsAgree, EntryLockOK, EntryLock, SectorLockOK, SectorLock, PlaceOK, Place, EvictPCs, EntryPCs, UsePCs, Cached
  <2>. QED BY <2>2, <2>3 DEF PlaceOK
<1>9. KindOK'
  BY <1>0, <1>1, <1>2, <1>3 DEF TypeOK, KindOK, Kind, Cached
<1>. QED BY <1>4, <1>5, <1>6, <1>7, <1>8, <1>9

\* evict returns a free entry.
LEMMA ClaimFreeKeeps ==
  ASSUME IInv, NEW a \in Agents, pc[a] = "claimed",
         entry[in_ram[a]].holder = Nobody, Goto(a, "install"), UNCHANGED <<entry, rwlock>>,
         UNCHANGED <<disk, addr, evict_I, request, in_ram, tried, upgraded, got, budget>>
  PROVE  IInv'
<1>. USE CacheAssumption DEF IInv, Sector, Goto, Goto
<1>0. \A b \in Agents :
        /\ request[b].sector \in Sectors /\ request[b].segment \in Segments
        /\ request[b].value \in Values /\ request[b].kind \in {"read", "write", "ahead"}
  BY RequestType
<1>1. in_ram[a] \in Entries /\ entry \in [Entries -> EntryType]
  BY EntryTyped DEF EntryLockOK, EntryLock, EntryPCs
<1>2. TypeOK'
  <2>1. disk' \in [Sectors -> Contents] /\ addr' \in [Sectors -> Entries \cup {Nobody}]
    BY <1>0, <1>1 DEF TypeOK
  <2>2. entry' \in [Entries -> EntryType]
    BY <1>0, <1>1 DEF TypeOK, EntryType
  <2>3. rwlock' \in [Sectors -> [writer : Agents \cup {Nobody}, readers : SUBSET Agents]]
    BY <1>0, <1>1 DEF TypeOK
  <2>4. pc' \in [Agents -> {"idle", "off"} \cup AccessPCs \cup FlushPCs]
    BY <1>0, <1>1 DEF TypeOK, AccessPCs, FlushPCs, Cached
  <2>5. request' \in [Agents -> Requests] /\ in_ram' \in [Agents -> Entries \cup {Nobody}] /\ evict_I' \in Entries
    BY <1>0, <1>1 DEF TypeOK
  <2>6. /\ tried' \in [Agents -> 0 .. 2 * BufferLen] /\ upgraded' \in [Agents -> BOOLEAN]
        /\ got' \in [Threads -> Values] /\ budget' \in [Agents -> 0 .. MaxRequests + MaxRounds + 1]
    BY <1>0, <1>1 DEF TypeOK
  <2>. QED BY <2>1, <2>2, <2>3, <2>4, <2>5, <2>6 DEF TypeOK, EntryType
<1>3. MapsAgree'
  BY <1>0, <1>1 DEF TypeOK, MapsAgree, EntryLockOK, EntryLock, SectorLockOK, SectorLock, PlaceOK, Place, EntryPCs, EvictPCs
<1>4. EntryLockOK'
  BY <1>0, <1>1 DEF TypeOK, EntryLockOK, EntryLock, EntryPCs, Cached, PlaceOK, Place
<1>5. SectorLockOK'
  BY <1>0, <1>1 DEF TypeOK, MapsAgree, EntryLockOK, EntryLock, SectorLockOK, SectorLock, PlaceOK, Place, EvictPCs, EntryPCs, UsePCs, Cached
<1>6. PlaceOK'
  BY <1>0, <1>1 DEF TypeOK, MapsAgree, EntryLockOK, EntryLock, SectorLockOK, SectorLock, PlaceOK, Place, EvictPCs, EntryPCs, UsePCs, Cached
<1>7. KindOK'
  BY <1>0, <1>1 DEF TypeOK, KindOK, Kind, Cached
<1>. QED BY <1>2, <1>3, <1>4, <1>5, <1>6, <1>7

\* evict lets an entry go that is used, or was since the hand last passed.
LEMMA ClaimDropKeeps ==
  ASSUME IInv, NEW a \in Agents, pc[a] = "claimed", NEW u \in BOOLEAN,
         entry' = [entry EXCEPT ![in_ram[a]].accessed = u, ![in_ram[a]].lock = Nobody],
         Goto(a, "evict"), UNCHANGED rwlock,
         UNCHANGED <<disk, addr, evict_I, request, in_ram, tried, upgraded, got, budget>>
  PROVE  IInv'
<1>. USE CacheAssumption DEF IInv, Sector, Goto, Goto
<1>0. \A b \in Agents :
        /\ request[b].sector \in Sectors /\ request[b].segment \in Segments
        /\ request[b].value \in Values /\ request[b].kind \in {"read", "write", "ahead"}
  BY RequestType
<1>1. in_ram[a] \in Entries /\ entry \in [Entries -> EntryType]
  BY EntryTyped DEF EntryLockOK, EntryLock, EntryPCs
<1>2. TypeOK'
  <2>1. disk' \in [Sectors -> Contents] /\ addr' \in [Sectors -> Entries \cup {Nobody}]
    BY <1>0, <1>1 DEF TypeOK
  <2>2. entry' \in [Entries -> EntryType]
    BY <1>1, DropTyped
  <2>3. rwlock' \in [Sectors -> [writer : Agents \cup {Nobody}, readers : SUBSET Agents]]
    BY <1>0, <1>1 DEF TypeOK
  <2>4. pc' \in [Agents -> {"idle", "off"} \cup AccessPCs \cup FlushPCs]
    BY <1>0, <1>1 DEF TypeOK, AccessPCs, FlushPCs, Cached
  <2>5. request' \in [Agents -> Requests] /\ in_ram' \in [Agents -> Entries \cup {Nobody}] /\ evict_I' \in Entries
    BY <1>0, <1>1 DEF TypeOK
  <2>6. /\ tried' \in [Agents -> 0 .. 2 * BufferLen] /\ upgraded' \in [Agents -> BOOLEAN]
        /\ got' \in [Threads -> Values] /\ budget' \in [Agents -> 0 .. MaxRequests + MaxRounds + 1]
    BY <1>0, <1>1 DEF TypeOK
  <2>. QED BY <2>1, <2>2, <2>3, <2>4, <2>5, <2>6 DEF TypeOK, EntryType
<1>3. MapsAgree'
  BY <1>0, <1>1 DEF TypeOK, MapsAgree, EntryLockOK, EntryLock, SectorLockOK, SectorLock, PlaceOK, Place, EntryPCs, EvictPCs
<1>4. EntryLockOK'
  <2>2. EntryLock(a)'
    BY <1>0, <1>1 DEF TypeOK, EntryLockOK, EntryLock, EntryPCs, Cached, PlaceOK, Place
  <2>3. ASSUME NEW b \in Agents, b # a PROVE EntryLock(b)'
    BY <1>0, <1>1, <2>3 DEF TypeOK, EntryLockOK, EntryLock, EntryPCs, Cached, PlaceOK, Place
  <2>. QED BY <2>2, <2>3 DEF EntryLockOK
<1>5. SectorLockOK'
  <2>1. \A z \in Sectors : rwlock'[z].writer # Nobody => rwlock'[z].readers = {}
    BY <1>0, <1>1 DEF TypeOK, MapsAgree, EntryLockOK, EntryLock, SectorLockOK, SectorLock, PlaceOK, Place, EvictPCs, EntryPCs, UsePCs, Cached
  <2>2. SectorLock(a)'
    BY <1>0, <1>1 DEF TypeOK, MapsAgree, EntryLockOK, EntryLock, SectorLockOK, SectorLock, PlaceOK, Place, EvictPCs, EntryPCs, UsePCs, Cached
  <2>3. ASSUME NEW b \in Agents, b # a PROVE SectorLock(b)'
    BY <1>0, <1>1, <2>3 DEF TypeOK, MapsAgree, EntryLockOK, EntryLock, SectorLockOK, SectorLock, PlaceOK, Place, EvictPCs, EntryPCs, UsePCs, Cached
  <2>. QED BY <2>1, <2>2, <2>3 DEF SectorLockOK
<1>6. PlaceOK'
  <2>2. Place(a)'
    BY <1>0, <1>1 DEF TypeOK, MapsAgree, EntryLockOK, EntryLock, SectorLockOK, SectorLock, PlaceOK, Place, EvictPCs, EntryPCs, UsePCs, Cached
  <2>3. ASSUME NEW b \in Agents, b # a PROVE Place(b)'
    BY <1>0, <1>1, <2>3 DEF TypeOK, MapsAgree, EntryLockOK, EntryLock, SectorLockOK, SectorLock, PlaceOK, Place, EvictPCs, EntryPCs, UsePCs, Cached
  <2>. QED BY <2>2, <2>3 DEF PlaceOK
<1>7. KindOK'
  BY <1>0, <1>1 DEF TypeOK, KindOK, Kind, Cached
<1>. QED BY <1>2, <1>3, <1>4, <1>5, <1>6, <1>7

\* evict locks the sector of its victim.
LEMMA ClaimTakeKeeps ==
  ASSUME IInv, NEW a \in Agents, pc[a] = "claimed", entry[in_ram[a]].holder # Nobody,
         CanWrite(entry[in_ram[a]].holder), SetWriter(a, entry[in_ram[a]].holder),
         Goto(a, "flush"), UNCHANGED entry,
         UNCHANGED <<disk, addr, evict_I, request, in_ram, tried, upgraded, got, budget>>
  PROVE  IInv'
<1>. USE CacheAssumption DEF IInv, Sector, Goto, Goto, CanWrite, SetWriter
<1>0. \A b \in Agents :
        /\ request[b].sector \in Sectors /\ request[b].segment \in Segments
        /\ request[b].value \in Values /\ request[b].kind \in {"read", "write", "ahead"}
  BY RequestType
<1>1. in_ram[a] \in Entries /\ entry \in [Entries -> EntryType]
  BY EntryTyped DEF EntryLockOK, EntryLock, EntryPCs
<1>2. entry[in_ram[a]].holder \in Sectors
  BY <1>1 DEF EntryType
<1>3. TypeOK'
  <2>1. disk' \in [Sectors -> Contents] /\ addr' \in [Sectors -> Entries \cup {Nobody}]
    BY <1>0, <1>1, <1>2 DEF TypeOK
  <2>2. entry' \in [Entries -> EntryType]
    BY <1>0, <1>1, <1>2 DEF TypeOK, EntryType
  <2>3. rwlock' \in [Sectors -> [writer : Agents \cup {Nobody}, readers : SUBSET Agents]]
    BY <1>2, WriterTyped
  <2>4. pc' \in [Agents -> {"idle", "off"} \cup AccessPCs \cup FlushPCs]
    BY <1>0, <1>1, <1>2 DEF TypeOK, AccessPCs, FlushPCs, Cached
  <2>5. request' \in [Agents -> Requests] /\ in_ram' \in [Agents -> Entries \cup {Nobody}] /\ evict_I' \in Entries
    BY <1>0, <1>1, <1>2 DEF TypeOK
  <2>6. /\ tried' \in [Agents -> 0 .. 2 * BufferLen] /\ upgraded' \in [Agents -> BOOLEAN]
        /\ got' \in [Threads -> Values] /\ budget' \in [Agents -> 0 .. MaxRequests + MaxRounds + 1]
    BY <1>0, <1>1, <1>2 DEF TypeOK
  <2>. QED BY <2>1, <2>2, <2>3, <2>4, <2>5, <2>6 DEF TypeOK, EntryType
<1>4. MapsAgree'
  BY <1>0, <1>1, <1>2 DEF TypeOK, MapsAgree, EntryLockOK, EntryLock, SectorLockOK, SectorLock, PlaceOK, Place, EntryPCs, EvictPCs
<1>5. EntryLockOK'
  <2>2. EntryLock(a)'
    BY <1>0, <1>1, <1>2 DEF TypeOK, EntryLockOK, EntryLock, EntryPCs, Cached, PlaceOK, Place
  <2>3. ASSUME NEW b \in Agents, b # a PROVE EntryLock(b)'
    BY <1>0, <1>1, <1>2, <2>3 DEF TypeOK, EntryLockOK, EntryLock, EntryPCs, Cached, PlaceOK, Place
  <2>. QED BY <2>2, <2>3 DEF EntryLockOK
<1>6. SectorLockOK'
  <2>1. \A z \in Sectors : rwlock'[z].writer # Nobody => rwlock'[z].readers = {}
    BY <1>0, <1>1, <1>2 DEF TypeOK, MapsAgree, EntryLockOK, EntryLock, SectorLockOK, SectorLock, PlaceOK, Place, EvictPCs, EntryPCs, UsePCs, Cached
  <2>2. SectorLock(a)'
    BY <1>0, <1>1, <1>2 DEF TypeOK, MapsAgree, EntryLockOK, EntryLock, SectorLockOK, SectorLock, PlaceOK, Place, EvictPCs, EntryPCs, UsePCs, Cached
  <2>3. ASSUME NEW b \in Agents, b # a PROVE SectorLock(b)'
    BY <1>0, <1>1, <1>2, <2>3 DEF TypeOK, MapsAgree, EntryLockOK, EntryLock, SectorLockOK, SectorLock, PlaceOK, Place, EvictPCs, EntryPCs, UsePCs, Cached
  <2>. QED BY <2>1, <2>2, <2>3 DEF SectorLockOK
<1>7. PlaceOK'
  <2>2. Place(a)'
    BY <1>0, <1>1, <1>2 DEF TypeOK, MapsAgree, EntryLockOK, EntryLock, SectorLockOK, SectorLock, PlaceOK, Place, EvictPCs, EntryPCs, UsePCs, Cached
  <2>3. ASSUME NEW b \in Agents, b # a PROVE Place(b)'
    BY <1>0, <1>1, <1>2, <2>3 DEF TypeOK, MapsAgree, EntryLockOK, EntryLock, SectorLockOK, SectorLock, PlaceOK, Place, EvictPCs, EntryPCs, UsePCs, Cached
  <2>. QED BY <2>2, <2>3 DEF PlaceOK
<1>8. KindOK'
  BY <1>0, <1>1, <1>2 DEF TypeOK, KindOK, Kind, Cached
<1>. QED BY <1>3, <1>4, <1>5, <1>6, <1>7, <1>8

LEMMA ClaimedKeeps ==
  ASSUME IInv, NEW a \in Agents, Claimed(a)
  PROVE  IInv'
<1>. DEFINE e == in_ram[a]
            h == entry[e].holder
<1>1. e \in Entries /\ entry[e].accessed \in BOOLEAN
  BY DEF Claimed, IInv, TypeOK, EntryLockOK, EntryLock, EntryPCs
<1>2. CASE h = Nobody
  BY <1>2, ClaimFreeKeeps DEF Claimed
<1>3. CASE h # Nobody /\ CanWrite(h) /\ ~ entry[e].accessed
  BY <1>3, ClaimTakeKeeps DEF Claimed
<1>4. CASE h # Nobody /\ CanWrite(h) /\ entry[e].accessed
  BY <1>4, ClaimDropKeeps DEF Claimed
<1>5. CASE h # Nobody /\ ~ CanWrite(h)
  <2>1. [entry EXCEPT ![e].lock = Nobody]
          = [entry EXCEPT ![e].accessed = entry[e].accessed, ![e].lock = Nobody]
    BY <1>1 DEF IInv, TypeOK
  <2>. QED BY <1>1, <1>5, <2>1, ClaimDropKeeps DEF Claimed
<1>. QED BY <1>2, <1>3, <1>4, <1>5

\* evict takes the entry from its holder.
LEMMA FlushKeeps ==
  ASSUME IInv, NEW a \in Agents, Flush(a)
  PROVE  IInv'
<1>. USE CacheAssumption DEF IInv, Sector, Goto, Flush, SetWriter
<1>0. \A b \in Agents :
        /\ request[b].sector \in Sectors /\ request[b].segment \in Segments
        /\ request[b].value \in Values /\ request[b].kind \in {"read", "write", "ahead"}
  BY RequestType
<1>1. in_ram[a] \in Entries /\ entry \in [Entries -> EntryType]
  BY EntryTyped DEF EntryLockOK, EntryLock, EntryPCs
<1>2. entry[in_ram[a]].holder \in Sectors
  BY DEF SectorLockOK, SectorLock
<1>3. 0 \in 0 .. DirtyMod - 1 /\ 1 \in 0 .. DirtyMod - 1
  OBVIOUS
<1>4. TypeOK'
  <2>1. disk' \in [Sectors -> Contents] /\ addr' \in [Sectors -> Entries \cup {Nobody}]
    BY <1>0, <1>1, <1>2, <1>3 DEF TypeOK
  <2>2. entry' \in [Entries -> EntryType]
    <3>1. PICK d \in 0 .. DirtyMod - 1 :
             entry' = [entry EXCEPT ![in_ram[a]].holder = Nobody, ![in_ram[a]].dirty = d]
      BY <1>3
    <3>. QED BY <1>1, <3>1 DEF EntryType
  <2>3. rwlock' \in [Sectors -> [writer : Agents \cup {Nobody}, readers : SUBSET Agents]]
    BY <1>2, WriterTyped
  <2>4. pc' \in [Agents -> {"idle", "off"} \cup AccessPCs \cup FlushPCs]
    BY <1>0, <1>1, <1>2, <1>3 DEF TypeOK, AccessPCs, FlushPCs, Cached
  <2>5. request' \in [Agents -> Requests] /\ in_ram' \in [Agents -> Entries \cup {Nobody}] /\ evict_I' \in Entries
    BY <1>0, <1>1, <1>2, <1>3 DEF TypeOK
  <2>6. /\ tried' \in [Agents -> 0 .. 2 * BufferLen] /\ upgraded' \in [Agents -> BOOLEAN]
        /\ got' \in [Threads -> Values] /\ budget' \in [Agents -> 0 .. MaxRequests + MaxRounds + 1]
    BY <1>0, <1>1, <1>2, <1>3 DEF TypeOK
  <2>. QED BY <2>1, <2>2, <2>3, <2>4, <2>5, <2>6 DEF TypeOK, EntryType
<1>5. MapsAgree'
  BY <1>0, <1>1, <1>2, <1>3 DEF TypeOK, MapsAgree, EntryLockOK, EntryLock, SectorLockOK, SectorLock, PlaceOK, Place, EntryPCs, EvictPCs
<1>6. EntryLockOK'
  <2>2. EntryLock(a)'
    BY <1>0, <1>1, <1>2, <1>3 DEF TypeOK, EntryLockOK, EntryLock, EntryPCs, Cached, PlaceOK, Place
  <2>3. ASSUME NEW b \in Agents, b # a PROVE EntryLock(b)'
    BY <1>0, <1>1, <1>2, <1>3, <2>3 DEF TypeOK, EntryLockOK, EntryLock, EntryPCs, Cached, PlaceOK, Place
  <2>. QED BY <2>2, <2>3 DEF EntryLockOK
<1>7. SectorLockOK'
  <2>1. \A z \in Sectors : rwlock'[z].writer # Nobody => rwlock'[z].readers = {}
    BY <1>0, <1>1, <1>2, <1>3 DEF TypeOK, MapsAgree, EntryLockOK, EntryLock, SectorLockOK, SectorLock, PlaceOK, Place, EvictPCs, EntryPCs, UsePCs, Cached
  <2>2. SectorLock(a)'
    BY <1>0, <1>1, <1>2, <1>3 DEF TypeOK, MapsAgree, EntryLockOK, EntryLock, SectorLockOK, SectorLock, PlaceOK, Place, EvictPCs, EntryPCs, UsePCs, Cached
  <2>3. ASSUME NEW b \in Agents, b # a PROVE SectorLock(b)'
    BY <1>0, <1>1, <1>2, <1>3, <2>3 DEF TypeOK, MapsAgree, EntryLockOK, EntryLock, SectorLockOK, SectorLock, PlaceOK, Place, EvictPCs, EntryPCs, UsePCs, Cached
  <2>. QED BY <2>1, <2>2, <2>3 DEF SectorLockOK
<1>8. PlaceOK'
  <2>2. Place(a)'
    BY <1>0, <1>1, <1>2, <1>3 DEF TypeOK, MapsAgree, EntryLockOK, EntryLock, SectorLockOK, SectorLock, PlaceOK, Place, EvictPCs, EntryPCs, UsePCs, Cached
  <2>3. ASSUME NEW b \in Agents, b # a PROVE Place(b)'
    BY <1>0, <1>1, <1>2, <1>3, <2>3 DEF TypeOK, MapsAgree, EntryLockOK, EntryLock, SectorLockOK, SectorLock, PlaceOK, Place, EvictPCs, EntryPCs, UsePCs, Cached
  <2>. QED BY <2>2, <2>3 DEF PlaceOK
<1>9. KindOK'
  BY <1>0, <1>1, <1>2, <1>3 DEF TypeOK, KindOK, Kind, Cached
<1>. QED BY <1>4, <1>5, <1>6, <1>7, <1>8, <1>9

\* The entry is given to the sector.
LEMMA InstallKeeps ==
  ASSUME IInv, NEW a \in Agents, Install(a)
  PROVE  IInv'
<1>. USE CacheAssumption DEF IInv, Sector, Goto, Install
<1>0. \A b \in Agents :
        /\ request[b].sector \in Sectors /\ request[b].segment \in Segments
        /\ request[b].value \in Values /\ request[b].kind \in {"read", "write", "ahead"}
  BY RequestType
<1>1. in_ram[a] \in Entries /\ entry \in [Entries -> EntryType]
  BY EntryTyped DEF EntryLockOK, EntryLock, EntryPCs
<1>2. TypeOK'
  <2>1. disk' \in [Sectors -> Contents] /\ addr' \in [Sectors -> Entries \cup {Nobody}]
    BY <1>0, <1>1 DEF TypeOK
  <2>2. entry' \in [Entries -> EntryType]
    BY <1>0, <1>1 DEF EntryType
  <2>3. rwlock' \in [Sectors -> [writer : Agents \cup {Nobody}, readers : SUBSET Agents]]
    BY <1>0, <1>1 DEF TypeOK
  <2>4. pc' \in [Agents -> {"idle", "off"} \cup AccessPCs \cup FlushPCs]
    BY <1>0, <1>1 DEF TypeOK, AccessPCs, FlushPCs, Cached
  <2>5. request' \in [Agents -> Requests] /\ in_ram' \in [Agents -> Entries \cup {Nobody}] /\ evict_I' \in Entries
    BY <1>0, <1>1 DEF TypeOK
  <2>6. /\ tried' \in [Agents -> 0 .. 2 * BufferLen] /\ upgraded' \in [Agents -> BOOLEAN]
        /\ got' \in [Threads -> Values] /\ budget' \in [Agents -> 0 .. MaxRequests + MaxRounds + 1]
    BY <1>0, <1>1 DEF TypeOK
  <2>. QED BY <2>1, <2>2, <2>3, <2>4, <2>5, <2>6 DEF TypeOK, EntryType
<1>3. MapsAgree'
  BY <1>0, <1>1 DEF TypeOK, MapsAgree, EntryLockOK, EntryLock, SectorLockOK, SectorLock, PlaceOK, Place, EntryPCs, EvictPCs
<1>4. EntryLockOK'
  <2>2. EntryLock(a)'
    BY <1>0, <1>1 DEF TypeOK, EntryLockOK, EntryLock, EntryPCs, Cached, PlaceOK, Place
  <2>3. ASSUME NEW b \in Agents, b # a PROVE EntryLock(b)'
    BY <1>0, <1>1, <2>3 DEF TypeOK, EntryLockOK, EntryLock, EntryPCs, Cached, PlaceOK, Place
  <2>. QED BY <2>2, <2>3 DEF EntryLockOK
<1>5. SectorLockOK'
  <2>1. \A z \in Sectors : rwlock'[z].writer # Nobody => rwlock'[z].readers = {}
    BY <1>0, <1>1 DEF TypeOK, MapsAgree, EntryLockOK, EntryLock, SectorLockOK, SectorLock, PlaceOK, Place, EvictPCs, EntryPCs, UsePCs, Cached
  <2>2. SectorLock(a)'
    BY <1>0, <1>1 DEF TypeOK, MapsAgree, EntryLockOK, EntryLock, SectorLockOK, SectorLock, PlaceOK, Place, EvictPCs, EntryPCs, UsePCs, Cached
  <2>3. ASSUME NEW b \in Agents, b # a PROVE SectorLock(b)'
    BY <1>0, <1>1, <2>3 DEF TypeOK, MapsAgree, EntryLockOK, EntryLock, SectorLockOK, SectorLock, PlaceOK, Place, EvictPCs, EntryPCs, UsePCs, Cached
  <2>. QED BY <2>1, <2>2, <2>3 DEF SectorLockOK
<1>6. PlaceOK'
  <2>2. Place(a)'
    BY <1>0, <1>1 DEF TypeOK, MapsAgree, EntryLockOK, EntryLock, SectorLockOK, SectorLock, PlaceOK, Place, EvictPCs, EntryPCs, UsePCs, Cached
  <2>3. ASSUME NEW b \in Agents, b # a PROVE Place(b)'
    BY <1>0, <1>1, <2>3 DEF TypeOK, MapsAgree, EntryLockOK, EntryLock, SectorLockOK, SectorLock, PlaceOK, Place, EvictPCs, EntryPCs, UsePCs, Cached
  <2>. QED BY <2>2, <2>3 DEF PlaceOK
<1>7. KindOK'
  BY <1>0, <1>1 DEF TypeOK, KindOK, Kind, Cached
<1>. QED BY <1>2, <1>3, <1>4, <1>5, <1>6, <1>7

\* The sector is read into the entry.
LEMMA FillKeeps ==
  ASSUME IInv, NEW a \in Agents, Fill(a)
  PROVE  IInv'
<1>. USE CacheAssumption DEF IInv, Sector, Goto, Fill
<1>0. \A b \in Agents :
        /\ request[b].sector \in Sectors /\ request[b].segment \in Segments
        /\ request[b].value \in Values /\ request[b].kind \in {"read", "write", "ahead"}
  BY RequestType
<1>1. in_ram[a] \in Entries /\ entry \in [Entries -> EntryType]
  BY EntryTyped DEF PlaceOK, Place
<1>2. TypeOK'
  <2>1. disk' \in [Sectors -> Contents] /\ addr' \in [Sectors -> Entries \cup {Nobody}]
    BY <1>0, <1>1 DEF TypeOK
  <2>2. entry' \in [Entries -> EntryType]
    <3>1. disk[request[a].sector] \in Contents
      BY <1>0 DEF TypeOK
    <3>. QED BY <1>1, <3>1 DEF EntryType
  <2>3. rwlock' \in [Sectors -> [writer : Agents \cup {Nobody}, readers : SUBSET Agents]]
    BY <1>0, <1>1 DEF TypeOK
  <2>4. pc' \in [Agents -> {"idle", "off"} \cup AccessPCs \cup FlushPCs]
    BY <1>0, <1>1 DEF TypeOK, AccessPCs, FlushPCs, Cached
  <2>5. request' \in [Agents -> Requests] /\ in_ram' \in [Agents -> Entries \cup {Nobody}] /\ evict_I' \in Entries
    BY <1>0, <1>1 DEF TypeOK
  <2>6. /\ tried' \in [Agents -> 0 .. 2 * BufferLen] /\ upgraded' \in [Agents -> BOOLEAN]
        /\ got' \in [Threads -> Values] /\ budget' \in [Agents -> 0 .. MaxRequests + MaxRounds + 1]
    BY <1>0, <1>1 DEF TypeOK
  <2>. QED BY <2>1, <2>2, <2>3, <2>4, <2>5, <2>6 DEF TypeOK, EntryType
<1>3. MapsAgree'
  BY <1>0, <1>1 DEF TypeOK, MapsAgree, EntryLockOK, EntryLock, SectorLockOK, SectorLock, PlaceOK, Place, EntryPCs, EvictPCs
<1>4. EntryLockOK'
  BY <1>0, <1>1 DEF TypeOK, EntryLockOK, EntryLock, EntryPCs, Cached, PlaceOK, Place
<1>5. SectorLockOK'
  BY <1>0, <1>1 DEF TypeOK, MapsAgree, EntryLockOK, EntryLock, SectorLockOK, SectorLock, PlaceOK, Place, EvictPCs, EntryPCs, UsePCs, Cached
<1>6. PlaceOK'
  BY <1>0, <1>1 DEF TypeOK, MapsAgree, EntryLockOK, EntryLock, SectorLockOK, SectorLock, PlaceOK, Place, EvictPCs, EntryPCs, UsePCs, Cached
<1>7. KindOK'
  BY <1>0, <1>1 DEF TypeOK, KindOK, Kind, Cached
<1>. QED BY <1>2, <1>3, <1>4, <1>5, <1>6, <1>7

\* The data of the request.
LEMMA CopyKeeps ==
  ASSUME IInv, NEW a \in Agents, Copy(a)
  PROVE  IInv'
<1>. USE CacheAssumption DEF IInv, Sector, Goto, Copy
<1>0. \A b \in Agents :
        /\ request[b].sector \in Sectors /\ request[b].segment \in Segments
        /\ request[b].value \in Values /\ request[b].kind \in {"read", "write", "ahead"}
  BY RequestType
<1>1. in_ram[a] \in Entries /\ entry \in [Entries -> EntryType]
  BY EntryTyped DEF PlaceOK, Place
<1>2. a \in Threads
  BY DEF KindOK, Kind
<1>3. \A e \in Entries : entry'[e].holder = entry[e].holder /\ entry'[e].lock = entry[e].lock
  BY <1>1 DEF EntryType
<1>4. TypeOK'
  <2>1. disk' \in [Sectors -> Contents] /\ addr' \in [Sectors -> Entries \cup {Nobody}]
    BY <1>0, <1>1, <1>2, <1>3 DEF TypeOK
  <2>2. entry' \in [Entries -> EntryType]
    <3>1. [entry[in_ram[a]].data EXCEPT ![request[a].segment] = request[a].value] \in Contents
      BY <1>0, <1>1 DEF EntryType, Contents
    <3>2. \/ entry' = entry
          \/ entry' = [entry EXCEPT ![in_ram[a]].data =
                          [entry[in_ram[a]].data EXCEPT ![request[a].segment] = request[a].value]]
      OBVIOUS
    <3>. QED BY <1>1, <3>1, <3>2, DataTyped
  <2>3. rwlock' \in [Sectors -> [writer : Agents \cup {Nobody}, readers : SUBSET Agents]]
    BY <1>0, <1>1, <1>2, <1>3 DEF TypeOK
  <2>4. pc' \in [Agents -> {"idle", "off"} \cup AccessPCs \cup FlushPCs]
    BY <1>0, <1>1, <1>2, <1>3 DEF TypeOK, AccessPCs, FlushPCs, Cached
  <2>5. request' \in [Agents -> Requests] /\ in_ram' \in [Agents -> Entries \cup {Nobody}] /\ evict_I' \in Entries
    BY <1>0, <1>1, <1>2, <1>3 DEF TypeOK
  <2>6. /\ tried' \in [Agents -> 0 .. 2 * BufferLen] /\ upgraded' \in [Agents -> BOOLEAN]
        /\ got' \in [Threads -> Values] /\ budget' \in [Agents -> 0 .. MaxRequests + MaxRounds + 1]
    <3>1. entry[in_ram[a]].data[request[a].segment] \in Values
      BY <1>0, <1>1 DEF EntryType, Contents
    <3>. QED BY <1>2, <3>1 DEF TypeOK
  <2>. QED BY <2>1, <2>2, <2>3, <2>4, <2>5, <2>6 DEF TypeOK, EntryType
<1>5. MapsAgree'
  BY <1>0, <1>1, <1>2, <1>3 DEF TypeOK, MapsAgree, EntryLockOK, EntryLock, SectorLockOK, SectorLock, PlaceOK, Place, EntryPCs, EvictPCs
<1>6. EntryLockOK'
  <2>2. EntryLock(a)'
    BY <1>0, <1>1, <1>2, <1>3 DEF TypeOK, EntryLockOK, EntryLock, EntryPCs, Cached, PlaceOK, Place
  <2>3. ASSUME NEW b \in Agents, b # a PROVE EntryLock(b)'
    BY <1>0, <1>1, <1>2, <1>3, <2>3 DEF TypeOK, EntryLockOK, EntryLock, EntryPCs, Cached, PlaceOK, Place
  <2>. QED BY <2>2, <2>3 DEF EntryLockOK
<1>7. SectorLockOK'
  <2>1. \A z \in Sectors : rwlock'[z].writer # Nobody => rwlock'[z].readers = {}
    BY <1>0, <1>1, <1>2, <1>3 DEF TypeOK, MapsAgree, EntryLockOK, EntryLock, SectorLockOK, SectorLock, PlaceOK, Place, EvictPCs, EntryPCs, UsePCs, Cached
  <2>2. SectorLock(a)'
    BY <1>0, <1>1, <1>2, <1>3 DEF TypeOK, MapsAgree, EntryLockOK, EntryLock, SectorLockOK, SectorLock, PlaceOK, Place, EvictPCs, EntryPCs, UsePCs, Cached
  <2>3. ASSUME NEW b \in Agents, b # a PROVE SectorLock(b)'
    BY <1>0, <1>1, <1>2, <1>3, <2>3 DEF TypeOK, MapsAgree, EntryLockOK, EntryLock, SectorLockOK, SectorLock, PlaceOK, Place, EvictPCs, EntryPCs, UsePCs, Cached
  <2>. QED BY <2>1, <2>2, <2>3 DEF SectorLockOK
<1>8. PlaceOK'
  <2>2. Place(a)'
    BY <1>0, <1>1, <1>2, <1>3 DEF TypeOK, MapsAgree, EntryLockOK, EntryLock, SectorLockOK, SectorLock, PlaceOK, Place, EvictPCs, EntryPCs, UsePCs, Cached
  <2>3. ASSUME NEW b \in Agents, b # a PROVE Place(b)'
    BY <1>0, <1>1, <1>2, <1>3, <2>3 DEF TypeOK, MapsAgree, EntryLockOK, EntryLock, SectorLockOK, SectorLock, PlaceOK, Place, EvictPCs, EntryPCs, UsePCs, Cached
  <2>. QED BY <2>2, <2>3 DEF PlaceOK
<1>9. KindOK'
  BY <1>0, <1>1, <1>2, <1>3 DEF TypeOK, KindOK, Kind, Cached
<1>. QED BY <1>4, <1>5, <1>6, <1>7, <1>8, <1>9

\* The entry is marked.
LEMMA MarkKeeps ==
  ASSUME IInv, NEW a \in Agents, Mark(a)
  PROVE  IInv'
<1>. USE CacheAssumption DEF IInv, Sector, Goto, Mark
<1>0. \A b \in Agents :
        /\ request[b].sector \in Sectors /\ request[b].segment \in Segments
        /\ request[b].value \in Values /\ request[b].kind \in {"read", "write", "ahead"}
  BY RequestType
<1>1. in_ram[a] \in Entries /\ entry \in [Entries -> EntryType]
  BY EntryTyped DEF PlaceOK, Place
<1>2. TypeOK'
  <2>1. disk' \in [Sectors -> Contents] /\ addr' \in [Sectors -> Entries \cup {Nobody}]
    BY <1>0, <1>1 DEF TypeOK
  <2>2. entry' \in [Entries -> EntryType]
    <3>1. entry[in_ram[a]].dirty \in 0 .. DirtyMod - 1
      BY <1>1 DEF EntryType
    <3>2. (entry[in_ram[a]].dirty + 1) % DirtyMod \in 0 .. DirtyMod - 1
      BY <3>1
    <3>3. PICK d \in 0 .. DirtyMod - 1 :
             entry' = [entry EXCEPT ![in_ram[a]].accessed = TRUE, ![in_ram[a]].dirty = d]
      BY <1>1, <3>1, <3>2
    <3>4. [entry EXCEPT ![in_ram[a]].accessed = TRUE, ![in_ram[a]].dirty = d] \in [Entries -> EntryType]
      BY <1>1, MarkTyped
    <3>. QED BY <1>1, <3>3, <3>4
  <2>3. rwlock' \in [Sectors -> [writer : Agents \cup {Nobody}, readers : SUBSET Agents]]
    BY <1>0, <1>1 DEF TypeOK
  <2>4. pc' \in [Agents -> {"idle", "off"} \cup AccessPCs \cup FlushPCs]
    BY <1>0, <1>1 DEF TypeOK, AccessPCs, FlushPCs, Cached
  <2>5. request' \in [Agents -> Requests] /\ in_ram' \in [Agents -> Entries \cup {Nobody}] /\ evict_I' \in Entries
    BY <1>0, <1>1 DEF TypeOK
  <2>6. /\ tried' \in [Agents -> 0 .. 2 * BufferLen] /\ upgraded' \in [Agents -> BOOLEAN]
        /\ got' \in [Threads -> Values] /\ budget' \in [Agents -> 0 .. MaxRequests + MaxRounds + 1]
    BY <1>0, <1>1 DEF TypeOK
  <2>. QED BY <2>1, <2>2, <2>3, <2>4, <2>5, <2>6 DEF TypeOK, EntryType
<1>3. MapsAgree'
  BY <1>0, <1>1 DEF TypeOK, MapsAgree, EntryLockOK, EntryLock, SectorLockOK, SectorLock, PlaceOK, Place, EntryPCs, EvictPCs
<1>4. EntryLockOK'
  BY <1>0, <1>1 DEF TypeOK, EntryLockOK, EntryLock, EntryPCs, Cached, PlaceOK, Place
<1>5. SectorLockOK'
  BY <1>0, <1>1 DEF TypeOK, MapsAgree, EntryLockOK, EntryLock, SectorLockOK, SectorLock, PlaceOK, Place, EvictPCs, EntryPCs, UsePCs, Cached
<1>6. PlaceOK'
  BY <1>0, <1>1 DEF TypeOK, MapsAgree, EntryLockOK, EntryLock, SectorLockOK, SectorLock, PlaceOK, Place, EvictPCs, EntryPCs, UsePCs, Cached
<1>7. KindOK'
  BY <1>0, <1>1 DEF TypeOK, KindOK, Kind, Cached
<1>. QED BY <1>2, <1>3, <1>4, <1>5, <1>6, <1>7

\* A request without an entry.
LEMMA DirectKeeps ==
  ASSUME IInv, NEW a \in Agents, Direct(a)
  PROVE  IInv'
<1>. USE CacheAssumption DEF IInv, Sector, Goto, Direct
<1>0. \A b \in Agents :
        /\ request[b].sector \in Sectors /\ request[b].segment \in Segments
        /\ request[b].value \in Values /\ request[b].kind \in {"read", "write", "ahead"}
  BY RequestType
<1>1. a \in Threads
  BY DEF KindOK, Kind
<1>2. disk[request[a].sector] \in Contents
  BY <1>0 DEF TypeOK
<1>3. TypeOK'
  <2>1. disk' \in [Sectors -> Contents] /\ addr' \in [Sectors -> Entries \cup {Nobody}]
    <3>1. [disk[request[a].sector] EXCEPT ![request[a].segment] = request[a].value] \in Contents
      BY <1>0, <1>2 DEF Contents
    <3>. QED BY <1>0, <3>1 DEF TypeOK
  <2>2. entry' \in [Entries -> EntryType]
    BY <1>0, <1>1, <1>2 DEF TypeOK, EntryType
  <2>3. rwlock' \in [Sectors -> [writer : Agents \cup {Nobody}, readers : SUBSET Agents]]
    BY <1>0, <1>1, <1>2 DEF TypeOK
  <2>4. pc' \in [Agents -> {"idle", "off"} \cup AccessPCs \cup FlushPCs]
    BY <1>0, <1>1, <1>2 DEF TypeOK, AccessPCs, FlushPCs, Cached
  <2>5. request' \in [Agents -> Requests] /\ in_ram' \in [Agents -> Entries \cup {Nobody}] /\ evict_I' \in Entries
    BY <1>0, <1>1, <1>2 DEF TypeOK
  <2>6. /\ tried' \in [Agents -> 0 .. 2 * BufferLen] /\ upgraded' \in [Agents -> BOOLEAN]
        /\ got' \in [Threads -> Values] /\ budget' \in [Agents -> 0 .. MaxRequests + MaxRounds + 1]
    <3>1. disk[request[a].sector][request[a].segment] \in Values
      BY <1>0, <1>2 DEF Contents
    <3>. QED BY <1>1, <3>1 DEF TypeOK
  <2>. QED BY <2>1, <2>2, <2>3, <2>4, <2>5, <2>6 DEF TypeOK, EntryType
<1>4. MapsAgree'
  BY <1>0, <1>1, <1>2 DEF TypeOK, MapsAgree, EntryLockOK, EntryLock, SectorLockOK, SectorLock, PlaceOK, Place, EntryPCs, EvictPCs
<1>5. EntryLockOK'
  BY <1>0, <1>1, <1>2 DEF TypeOK, EntryLockOK, EntryLock, EntryPCs, Cached, PlaceOK, Place
<1>6. SectorLockOK'
  BY <1>0, <1>1, <1>2 DEF TypeOK, MapsAgree, EntryLockOK, EntryLock, SectorLockOK, SectorLock, PlaceOK, Place, EvictPCs, EntryPCs, UsePCs, Cached
<1>7. PlaceOK'
  BY <1>0, <1>1, <1>2 DEF TypeOK, MapsAgree, EntryLockOK, EntryLock, SectorLockOK, SectorLock, PlaceOK, Place, EvictPCs, EntryPCs, UsePCs, Cached
<1>8. KindOK'
  BY <1>0, <1>1, <1>2 DEF TypeOK, KindOK, Kind, Cached
<1>. QED BY <1>3, <1>4, <1>5, <1>6, <1>7, <1>8

\* The write lock of the sector is given back.
LEMMA UnlockWriteKeeps ==
  ASSUME IInv, NEW a \in Agents, pc[a] = "unlock", upgraded[a], SetWriter(Nobody, Sector(a)),
         Goto(a, "idle"),
         UNCHANGED <<disk, addr, entry, evict_I, request, in_ram, tried, upgraded, got, budget>>
  PROVE  IInv'
<1>. USE CacheAssumption DEF IInv, Sector, Goto, Goto, SetWriter
<1>0. \A b \in Agents :
        /\ request[b].sector \in Sectors /\ request[b].segment \in Segments
        /\ request[b].value \in Values /\ request[b].kind \in {"read", "write", "ahead"}
  BY RequestType
<1>1. TypeOK'
  <2>1. disk' \in [Sectors -> Contents] /\ addr' \in [Sectors -> Entries \cup {Nobody}]
    BY <1>0 DEF TypeOK
  <2>2. entry' \in [Entries -> EntryType]
    BY <1>0 DEF TypeOK, EntryType
  <2>3. rwlock' \in [Sectors -> [writer : Agents \cup {Nobody}, readers : SUBSET Agents]]
    BY <1>0, WriterTyped
  <2>4. pc' \in [Agents -> {"idle", "off"} \cup AccessPCs \cup FlushPCs]
    BY <1>0 DEF TypeOK, AccessPCs, FlushPCs, Cached
  <2>5. request' \in [Agents -> Requests] /\ in_ram' \in [Agents -> Entries \cup {Nobody}] /\ evict_I' \in Entries
    BY <1>0 DEF TypeOK
  <2>6. /\ tried' \in [Agents -> 0 .. 2 * BufferLen] /\ upgraded' \in [Agents -> BOOLEAN]
        /\ got' \in [Threads -> Values] /\ budget' \in [Agents -> 0 .. MaxRequests + MaxRounds + 1]
    BY <1>0 DEF TypeOK
  <2>. QED BY <2>1, <2>2, <2>3, <2>4, <2>5, <2>6 DEF TypeOK, EntryType
<1>2. MapsAgree'
  BY <1>0 DEF TypeOK, MapsAgree, EntryLockOK, EntryLock, SectorLockOK, SectorLock, PlaceOK, Place, EntryPCs, EvictPCs
<1>3. EntryLockOK'
  <2>2. EntryLock(a)'
    BY <1>0 DEF TypeOK, EntryLockOK, EntryLock, EntryPCs, Cached, PlaceOK, Place
  <2>3. ASSUME NEW b \in Agents, b # a PROVE EntryLock(b)'
    BY <1>0, <2>3 DEF TypeOK, EntryLockOK, EntryLock, EntryPCs, Cached, PlaceOK, Place
  <2>. QED BY <2>2, <2>3 DEF EntryLockOK
<1>4. SectorLockOK'
  <2>1. \A z \in Sectors : rwlock'[z].writer # Nobody => rwlock'[z].readers = {}
    BY <1>0 DEF TypeOK, MapsAgree, EntryLockOK, EntryLock, SectorLockOK, SectorLock, PlaceOK, Place, EvictPCs, EntryPCs, UsePCs, Cached
  <2>2. SectorLock(a)'
    BY <1>0 DEF TypeOK, MapsAgree, EntryLockOK, EntryLock, SectorLockOK, SectorLock, PlaceOK, Place, EvictPCs, EntryPCs, UsePCs, Cached
  <2>3. ASSUME NEW b \in Agents, b # a PROVE SectorLock(b)'
    BY <1>0, <2>3 DEF TypeOK, MapsAgree, EntryLockOK, EntryLock, SectorLockOK, SectorLock, PlaceOK, Place, EvictPCs, EntryPCs, UsePCs, Cached
  <2>. QED BY <2>1, <2>2, <2>3 DEF SectorLockOK
<1>5. PlaceOK'
  <2>2. Place(a)'
    BY <1>0 DEF TypeOK, MapsAgree, EntryLockOK, EntryLock, SectorLockOK, SectorLock, PlaceOK, Place, EvictPCs, EntryPCs, UsePCs, Cached
  <2>3. ASSUME NEW b \in Agents, b # a PROVE Place(b)'
    BY <1>0, <2>3 DEF TypeOK, MapsAgree, EntryLockOK, EntryLock, SectorLockOK, SectorLock, PlaceOK, Place, EvictPCs, EntryPCs, UsePCs, Cached
  <2>. QED BY <2>2, <2>3 DEF PlaceOK
<1>6. KindOK'
  BY <1>0 DEF TypeOK, KindOK, Kind, Cached
<1>. QED BY <1>1, <1>2, <1>3, <1>4, <1>5, <1>6

\* The read lock of the sector is given back.
LEMMA UnlockReadKeeps ==
  ASSUME IInv, NEW a \in Agents, pc[a] = "unlock", ~ upgraded[a], DropReader(a, Sector(a)),
         Goto(a, "idle"),
         UNCHANGED <<disk, addr, entry, evict_I, request, in_ram, tried, upgraded, got, budget>>
  PROVE  IInv'
<1>. USE CacheAssumption DEF IInv, Sector, Goto, Goto, DropReader
<1>0. \A b \in Agents :
        /\ request[b].sector \in Sectors /\ request[b].segment \in Segments
        /\ request[b].value \in Values /\ request[b].kind \in {"read", "write", "ahead"}
  BY RequestType
<1>1. TypeOK'
  <2>1. disk' \in [Sectors -> Contents] /\ addr' \in [Sectors -> Entries \cup {Nobody}]
    BY <1>0 DEF TypeOK
  <2>2. entry' \in [Entries -> EntryType]
    BY <1>0 DEF TypeOK, EntryType
  <2>3. rwlock' \in [Sectors -> [writer : Agents \cup {Nobody}, readers : SUBSET Agents]]
    BY <1>0 DEF TypeOK
  <2>4. pc' \in [Agents -> {"idle", "off"} \cup AccessPCs \cup FlushPCs]
    BY <1>0 DEF TypeOK, AccessPCs, FlushPCs, Cached
  <2>5. request' \in [Agents -> Requests] /\ in_ram' \in [Agents -> Entries \cup {Nobody}] /\ evict_I' \in Entries
    BY <1>0 DEF TypeOK
  <2>6. /\ tried' \in [Agents -> 0 .. 2 * BufferLen] /\ upgraded' \in [Agents -> BOOLEAN]
        /\ got' \in [Threads -> Values] /\ budget' \in [Agents -> 0 .. MaxRequests + MaxRounds + 1]
    BY <1>0 DEF TypeOK
  <2>. QED BY <2>1, <2>2, <2>3, <2>4, <2>5, <2>6 DEF TypeOK, EntryType
<1>2. MapsAgree'
  BY <1>0 DEF TypeOK, MapsAgree, EntryLockOK, EntryLock, SectorLockOK, SectorLock, PlaceOK, Place, EntryPCs, EvictPCs
<1>3. EntryLockOK'
  <2>2. EntryLock(a)'
    BY <1>0 DEF TypeOK, EntryLockOK, EntryLock, EntryPCs, Cached, PlaceOK, Place
  <2>3. ASSUME NEW b \in Agents, b # a PROVE EntryLock(b)'
    BY <1>0, <2>3 DEF TypeOK, EntryLockOK, EntryLock, EntryPCs, Cached, PlaceOK, Place
  <2>. QED BY <2>2, <2>3 DEF EntryLockOK
<1>4. SectorLockOK'
  <2>1. \A z \in Sectors : rwlock'[z].writer # Nobody => rwlock'[z].readers = {}
    BY <1>0 DEF TypeOK, MapsAgree, EntryLockOK, EntryLock, SectorLockOK, SectorLock, PlaceOK, Place, EvictPCs, EntryPCs, UsePCs, Cached
  <2>2. SectorLock(a)'
    BY <1>0 DEF TypeOK, MapsAgree, EntryLockOK, EntryLock, SectorLockOK, SectorLock, PlaceOK, Place, EvictPCs, EntryPCs, UsePCs, Cached
  <2>3. ASSUME NEW b \in Agents, b # a PROVE SectorLock(b)'
    BY <1>0, <2>3 DEF TypeOK, MapsAgree, EntryLockOK, EntryLock, SectorLockOK, SectorLock, PlaceOK, Place, EvictPCs, EntryPCs, UsePCs, Cached
  <2>. QED BY <2>1, <2>2, <2>3 DEF SectorLockOK
<1>5. PlaceOK'
  <2>2. Place(a)'
    BY <1>0 DEF TypeOK, MapsAgree, EntryLockOK, EntryLock, SectorLockOK, SectorLock, PlaceOK, Place, EvictPCs, EntryPCs, UsePCs, Cached
  <2>3. ASSUME NEW b \in Agents, b # a PROVE Place(b)'
    BY <1>0, <2>3 DEF TypeOK, MapsAgree, EntryLockOK, EntryLock, SectorLockOK, SectorLock, PlaceOK, Place, EvictPCs, EntryPCs, UsePCs, Cached
  <2>. QED BY <2>2, <2>3 DEF PlaceOK
<1>6. KindOK'
  BY <1>0 DEF TypeOK, KindOK, Kind, Cached
<1>. QED BY <1>1, <1>2, <1>3, <1>4, <1>5, <1>6

LEMMA UnlockKeeps ==
  ASSUME IInv, NEW a \in Agents, Unlock(a)
  PROVE  IInv'
BY UnlockWriteKeeps, UnlockReadKeeps DEF Unlock

\* fflush_all begins.
LEMMA FlushBeginKeeps ==
  ASSUME IInv, NEW a \in Agents, FlushBegin(a)
  PROVE  IInv'
<1>. USE CacheAssumption DEF IInv, Sector, Goto, FlushBegin
<1>0. \A b \in Agents :
        /\ request[b].sector \in Sectors /\ request[b].segment \in Segments
        /\ request[b].value \in Values /\ request[b].kind \in {"read", "write", "ahead"}
  BY RequestType
<1>1. 0 \in Entries
  BY DEF Entries
<1>2. TypeOK'
  <2>1. disk' \in [Sectors -> Contents] /\ addr' \in [Sectors -> Entries \cup {Nobody}]
    BY <1>0, <1>1 DEF TypeOK
  <2>2. entry' \in [Entries -> EntryType]
    BY <1>0, <1>1 DEF TypeOK, EntryType
  <2>3. rwlock' \in [Sectors -> [writer : Agents \cup {Nobody}, readers : SUBSET Agents]]
    BY <1>0, <1>1 DEF TypeOK
  <2>4. pc' \in [Agents -> {"idle", "off"} \cup AccessPCs \cup FlushPCs]
    BY <1>0, <1>1 DEF TypeOK, AccessPCs, FlushPCs, Cached
  <2>5. request' \in [Agents -> Requests] /\ in_ram' \in [Agents -> Entries \cup {Nobody}] /\ evict_I' \in Entries
    BY DEF TypeOK, Entries
  <2>6. /\ tried' \in [Agents -> 0 .. 2 * BufferLen] /\ upgraded' \in [Agents -> BOOLEAN]
        /\ got' \in [Threads -> Values] /\ budget' \in [Agents -> 0 .. MaxRequests + MaxRounds + 1]
    BY <1>0, <1>1 DEF TypeOK
  <2>. QED BY <2>1, <2>2, <2>3, <2>4, <2>5, <2>6 DEF TypeOK, EntryType
<1>3. MapsAgree'
  BY <1>0, <1>1 DEF TypeOK, MapsAgree, EntryLockOK, EntryLock, SectorLockOK, SectorLock, PlaceOK, Place, EntryPCs, EvictPCs
<1>4. EntryLockOK'
  <2>2. EntryLock(a)'
    BY <1>0, <1>1 DEF TypeOK, EntryLockOK, EntryLock, EntryPCs, Cached, PlaceOK, Place
  <2>3. ASSUME NEW b \in Agents, b # a PROVE EntryLock(b)'
    BY <1>0, <1>1, <2>3 DEF TypeOK, EntryLockOK, EntryLock, EntryPCs, Cached, PlaceOK, Place
  <2>. QED BY <2>2, <2>3 DEF EntryLockOK
<1>5. SectorLockOK'
  <2>1. \A z \in Sectors : rwlock'[z].writer # Nobody => rwlock'[z].readers = {}
    BY <1>0, <1>1 DEF TypeOK, MapsAgree, EntryLockOK, EntryLock, SectorLockOK, SectorLock, PlaceOK, Place, EvictPCs, EntryPCs, UsePCs, Cached
  <2>2. SectorLock(a)'
    BY <1>0, <1>1 DEF TypeOK, MapsAgree, EntryLockOK, EntryLock, SectorLockOK, SectorLock, PlaceOK, Place, EvictPCs, EntryPCs, UsePCs, Cached
  <2>3. ASSUME NEW b \in Agents, b # a PROVE SectorLock(b)'
    BY <1>0, <1>1, <2>3 DEF TypeOK, MapsAgree, EntryLockOK, EntryLock, SectorLockOK, SectorLock, PlaceOK, Place, EvictPCs, EntryPCs, UsePCs, Cached
  <2>. QED BY <2>1, <2>2, <2>3 DEF SectorLockOK
<1>6. PlaceOK'
  <2>2. Place(a)'
    BY <1>0, <1>1 DEF TypeOK, MapsAgree, EntryLockOK, EntryLock, SectorLockOK, SectorLock, PlaceOK, Place, EvictPCs, EntryPCs, UsePCs, Cached
  <2>3. ASSUME NEW b \in Agents, b # a PROVE Place(b)'
    BY <1>0, <1>1, <2>3 DEF TypeOK, MapsAgree, EntryLockOK, EntryLock, SectorLockOK, SectorLock, PlaceOK, Place, EvictPCs, EntryPCs, UsePCs, Cached
  <2>. QED BY <2>2, <2>3 DEF PlaceOK
<1>7. KindOK'
  BY <1>0, <1>1 DEF TypeOK, KindOK, Kind, Cached
<1>. QED BY <1>2, <1>3, <1>4, <1>5, <1>6, <1>7

\* fflush_all: the lock of an entry.
LEMMA FlushLockKeeps ==
  ASSUME IInv, NEW a \in Agents, FlushLock(a)
  PROVE  IInv'
<1>. USE CacheAssumption DEF IInv, Sector, Goto, FlushLock
<1>0. \A b \in Agents :
        /\ request[b].sector \in Sectors /\ request[b].segment \in Segments
        /\ request[b].value \in Values /\ request[b].kind \in {"read", "write", "ahead"}
  BY RequestType
<1>1. in_ram[a] \in Entries /\ entry \in [Entries -> EntryType]
  BY EntryTyped DEF EntryLockOK, EntryLock
<1>2. TypeOK'
  <2>1. disk' \in [Sectors -> Contents] /\ addr' \in [Sectors -> Entries \cup {Nobody}]
    BY <1>0, <1>1 DEF TypeOK
  <2>2. entry' \in [Entries -> EntryType]
    BY <1>1 DEF EntryType
  <2>3. rwlock' \in [Sectors -> [writer : Agents \cup {Nobody}, readers : SUBSET Agents]]
    BY <1>0, <1>1 DEF TypeOK
  <2>4. pc' \in [Agents -> {"idle", "off"} \cup AccessPCs \cup FlushPCs]
    BY <1>0, <1>1 DEF TypeOK, AccessPCs, FlushPCs, Cached
  <2>5. request' \in [Agents -> Requests] /\ in_ram' \in [Agents -> Entries \cup {Nobody}] /\ evict_I' \in Entries
    BY <1>0, <1>1 DEF TypeOK
  <2>6. /\ tried' \in [Agents -> 0 .. 2 * BufferLen] /\ upgraded' \in [Agents -> BOOLEAN]
        /\ got' \in [Threads -> Values] /\ budget' \in [Agents -> 0 .. MaxRequests + MaxRounds + 1]
    BY <1>0, <1>1 DEF TypeOK
  <2>. QED BY <2>1, <2>2, <2>3, <2>4, <2>5, <2>6 DEF TypeOK, EntryType
<1>3. MapsAgree'
  BY <1>0, <1>1 DEF TypeOK, MapsAgree, EntryLockOK, EntryLock, SectorLockOK, SectorLock, PlaceOK, Place, EntryPCs, EvictPCs
<1>4. EntryLockOK'
  <2>2. EntryLock(a)'
    BY <1>0, <1>1 DEF TypeOK, EntryLockOK, EntryLock, EntryPCs, Cached, PlaceOK, Place
  <2>3. ASSUME NEW b \in Agents, b # a PROVE EntryLock(b)'
    BY <1>0, <1>1, <2>3 DEF TypeOK, EntryLockOK, EntryLock, EntryPCs, Cached, PlaceOK, Place
  <2>. QED BY <2>2, <2>3 DEF EntryLockOK
<1>5. SectorLockOK'
  <2>1. \A z \in Sectors : rwlock'[z].writer # Nobody => rwlock'[z].readers = {}
    BY <1>0, <1>1 DEF TypeOK, MapsAgree, EntryLockOK, EntryLock, SectorLockOK, SectorLock, PlaceOK, Place, EvictPCs, EntryPCs, UsePCs, Cached
  <2>2. SectorLock(a)'
    BY <1>0, <1>1 DEF TypeOK, MapsAgree, EntryLockOK, EntryLock, SectorLockOK, SectorLock, PlaceOK, Place, EvictPCs, EntryPCs, UsePCs, Cached
  <2>3. ASSUME NEW b \in Agents, b # a PROVE SectorLock(b)'
    BY <1>0, <1>1, <2>3 DEF TypeOK, MapsAgree, EntryLockOK, EntryLock, SectorLockOK, SectorLock, PlaceOK, Place, EvictPCs, EntryPCs, UsePCs, Cached
  <2>. QED BY <2>1, <2>2, <2>3 DEF SectorLockOK
<1>6. PlaceOK'
  <2>2. Place(a)'
    BY <1>0, <1>1 DEF TypeOK, MapsAgree, EntryLockOK, EntryLock, SectorLockOK, SectorLock, PlaceOK, Place, EvictPCs, EntryPCs, UsePCs, Cached
  <2>3. ASSUME NEW b \in Agents, b # a PROVE Place(b)'
    BY <1>0, <1>1, <2>3 DEF TypeOK, MapsAgree, EntryLockOK, EntryLock, SectorLockOK, SectorLock, PlaceOK, Place, EvictPCs, EntryPCs, UsePCs, Cached
  <2>. QED BY <2>2, <2>3 DEF PlaceOK
<1>7. KindOK'
  BY <1>0, <1>1 DEF TypeOK, KindOK, Kind, Cached
<1>. QED BY <1>2, <1>3, <1>4, <1>5, <1>6, <1>7

\* fflush_single: dirty is swapped for 0.
LEMMA FlushSwapKeeps ==
  ASSUME IInv, NEW a \in Agents, FlushSwap(a)
  PROVE  IInv'
<1>. USE CacheAssumption DEF IInv, Sector, Goto, FlushSwap
<1>0. \A b \in Agents :
        /\ request[b].sector \in Sectors /\ request[b].segment \in Segments
        /\ request[b].value \in Values /\ request[b].kind \in {"read", "write", "ahead"}
  BY RequestType
<1>1. in_ram[a] \in Entries /\ entry \in [Entries -> EntryType]
  BY EntryTyped DEF EntryLockOK, EntryLock, EntryPCs
<1>2. 0 \in 0 .. DirtyMod - 1 /\ 1 \in 0 .. DirtyMod - 1
  OBVIOUS
<1>3. TypeOK'
  <2>1. disk' \in [Sectors -> Contents] /\ addr' \in [Sectors -> Entries \cup {Nobody}]
    BY <1>0, <1>1, <1>2 DEF TypeOK
  <2>2. entry' \in [Entries -> EntryType]
    BY <1>1, <1>2 DEF EntryType
  <2>3. rwlock' \in [Sectors -> [writer : Agents \cup {Nobody}, readers : SUBSET Agents]]
    BY <1>0, <1>1, <1>2 DEF TypeOK
  <2>4. pc' \in [Agents -> {"idle", "off"} \cup AccessPCs \cup FlushPCs]
    BY <1>0, <1>1, <1>2 DEF TypeOK, AccessPCs, FlushPCs, Cached
  <2>5. request' \in [Agents -> Requests] /\ in_ram' \in [Agents -> Entries \cup {Nobody}] /\ evict_I' \in Entries
    BY <1>0, <1>1, <1>2 DEF TypeOK
  <2>6. /\ tried' \in [Agents -> 0 .. 2 * BufferLen] /\ upgraded' \in [Agents -> BOOLEAN]
        /\ got' \in [Threads -> Values] /\ budget' \in [Agents -> 0 .. MaxRequests + MaxRounds + 1]
    BY <1>0, <1>1, <1>2 DEF TypeOK
  <2>. QED BY <2>1, <2>2, <2>3, <2>4, <2>5, <2>6 DEF TypeOK, EntryType
<1>4. MapsAgree'
  BY <1>0, <1>1, <1>2 DEF TypeOK, MapsAgree, EntryLockOK, EntryLock, SectorLockOK, SectorLock, PlaceOK, Place, EntryPCs, EvictPCs
<1>5. EntryLockOK'
  BY <1>0, <1>1, <1>2 DEF TypeOK, EntryLockOK, EntryLock, EntryPCs, Cached, PlaceOK, Place
<1>6. SectorLockOK'
  BY <1>0, <1>1, <1>2 DEF TypeOK, MapsAgree, EntryLockOK, EntryLock, SectorLockOK, SectorLock, PlaceOK, Place, EvictPCs, EntryPCs, UsePCs, Cached
<1>7. PlaceOK'
  BY <1>0, <1>1, <1>2 DEF TypeOK, MapsAgree, EntryLockOK, EntryLock, SectorLockOK, SectorLock, PlaceOK, Place, EvictPCs, EntryPCs, UsePCs, Cached
<1>8. KindOK'
  BY <1>0, <1>1, <1>2 DEF TypeOK, KindOK, Kind, Cached
<1>. QED BY <1>3, <1>4, <1>5, <1>6, <1>7, <1>8

\* fflush_single: the entry is written.
LEMMA FlushWriteKeeps ==
  ASSUME IInv, NEW a \in Agents, FlushWrite(a)
  PROVE  IInv'
<1>. USE CacheAssumption DEF IInv, Sector, Goto, FlushWrite
<1>0. \A b \in Agents :
        /\ request[b].sector \in Sectors /\ request[b].segment \in Segments
        /\ request[b].value \in Values /\ request[b].kind \in {"read", "write", "ahead"}
  BY RequestType
<1>1. in_ram[a] \in Entries /\ entry \in [Entries -> EntryType]
  BY EntryTyped DEF EntryLockOK, EntryLock, EntryPCs
<1>2. TypeOK'
  <2>1. disk' \in [Sectors -> Contents] /\ addr' \in [Sectors -> Entries \cup {Nobody}]
    <3>1. entry[in_ram[a]].data \in Contents
      BY <1>1 DEF EntryType
    <3>. QED BY <3>1 DEF TypeOK
  <2>2. entry' \in [Entries -> EntryType]
    BY <1>0, <1>1 DEF TypeOK, EntryType
  <2>3. rwlock' \in [Sectors -> [writer : Agents \cup {Nobody}, readers : SUBSET Agents]]
    BY <1>0, <1>1 DEF TypeOK
  <2>4. pc' \in [Agents -> {"idle", "off"} \cup AccessPCs \cup FlushPCs]
    BY <1>0, <1>1 DEF TypeOK, AccessPCs, FlushPCs, Cached
  <2>5. request' \in [Agents -> Requests] /\ in_ram' \in [Agents -> Entries \cup {Nobody}] /\ evict_I' \in Entries
    BY <1>0, <1>1 DEF TypeOK
  <2>6. /\ tried' \in [Agents -> 0 .. 2 * BufferLen] /\ upgraded' \in [Agents -> BOOLEAN]
        /\ got' \in [Threads -> Values] /\ budget' \in [Agents -> 0 .. MaxRequests + MaxRounds + 1]
    BY <1>0, <1>1 DEF TypeOK
  <2>. QED BY <2>1, <2>2, <2>3, <2>4, <2>5, <2>6 DEF TypeOK, EntryType
<1>3. MapsAgree'
  BY <1>0, <1>1 DEF TypeOK, MapsAgree, EntryLockOK, EntryLock, SectorLockOK, SectorLock, PlaceOK, Place, EntryPCs, EvictPCs
<1>4. EntryLockOK'
  BY <1>0, <1>1 DEF TypeOK, EntryLockOK, EntryLock, EntryPCs, Cached, PlaceOK, Place
<1>5. SectorLockOK'
  BY <1>0, <1>1 DEF TypeOK, MapsAgree, EntryLockOK, EntryLock, SectorLockOK, SectorLock, PlaceOK, Place, EvictPCs, EntryPCs, UsePCs, Cached
<1>6. PlaceOK'
  BY <1>0, <1>1 DEF TypeOK, MapsAgree, EntryLockOK, EntryLock, SectorLockOK, SectorLock, PlaceOK, Place, EvictPCs, EntryPCs, UsePCs, Cached
<1>7. KindOK'
  BY <1>0, <1>1 DEF TypeOK, KindOK, Kind, Cached
<1>. QED BY <1>2, <1>3, <1>4, <1>5, <1>6, <1>7

\* fflush_single: dirty is set again.
LEMMA FlushDirtyKeeps ==
  ASSUME IInv, NEW a \in Agents, FlushDirty(a)
  PROVE  IInv'
<1>. USE CacheAssumption DEF IInv, Sector, Goto, FlushDirty
<1>0. \A b \in Agents :
        /\ request[b].sector \in Sectors /\ request[b].segment \in Segments
        /\ request[b].value \in Values /\ request[b].kind \in {"read", "write", "ahead"}
  BY RequestType
<1>1. in_ram[a] \in Entries /\ entry \in [Entries -> EntryType]
  BY EntryTyped DEF EntryLockOK, EntryLock, EntryPCs
<1>2. 0 \in 0 .. DirtyMod - 1 /\ 1 \in 0 .. DirtyMod - 1
  OBVIOUS
<1>3. TypeOK'
  <2>1. disk' \in [Sectors -> Contents] /\ addr' \in [Sectors -> Entries \cup {Nobody}]
    BY <1>0, <1>1, <1>2 DEF TypeOK
  <2>2. entry' \in [Entries -> EntryType]
    BY <1>1, <1>2 DEF EntryType
  <2>3. rwlock' \in [Sectors -> [writer : Agents \cup {Nobody}, readers : SUBSET Agents]]
    BY <1>0, <1>1, <1>2 DEF TypeOK
  <2>4. pc' \in [Agents -> {"idle", "off"} \cup AccessPCs \cup FlushPCs]
    BY <1>0, <1>1, <1>2 DEF TypeOK, AccessPCs, FlushPCs, Cached
  <2>5. request' \in [Agents -> Requests] /\ in_ram' \in [Agents -> Entries \cup {Nobody}] /\ evict_I' \in Entries
    BY <1>0, <1>1, <1>2 DEF TypeOK
  <2>6. /\ tried' \in [Agents -> 0 .. 2 * BufferLen] /\ upgraded' \in [Agents -> BOOLEAN]
        /\ got' \in [Threads -> Values] /\ budget' \in [Agents -> 0 .. MaxRequests + MaxRounds + 1]
    BY <1>0, <1>1, <1>2 DEF TypeOK
  <2>. QED BY <2>1, <2>2, <2>3, <2>4, <2>5, <2>6 DEF TypeOK, EntryType
<1>4. MapsAgree'
  BY <1>0, <1>1, <1>2 DEF TypeOK, MapsAgree, EntryLockOK, EntryLock, SectorLockOK, SectorLock, PlaceOK, Place, EntryPCs, EvictPCs
<1>5. EntryLockOK'
  BY <1>0, <1>1, <1>2 DEF TypeOK, EntryLockOK, EntryLock, EntryPCs, Cached, PlaceOK, Place
<1>6. SectorLockOK'
  BY <1>0, <1>1, <1>2 DEF TypeOK, MapsAgree, EntryLockOK, EntryLock, SectorLockOK, SectorLock, PlaceOK, Place, EvictPCs, EntryPCs, UsePCs, Cached
<1>7. PlaceOK'
  BY <1>0, <1>1, <1>2 DEF TypeOK, MapsAgree, EntryLockOK, EntryLock, SectorLockOK, SectorLock, PlaceOK, Place, EvictPCs, EntryPCs, UsePCs, Cached
<1>8. KindOK'
  BY <1>0, <1>1, <1>2 DEF TypeOK, KindOK, Kind, Cached
<1>. QED BY <1>3, <1>4, <1>5, <1>6, <1>7, <1>8

\* fflush_all: the next entry.
LEMMA FlushUnlockKeeps ==
  ASSUME IInv, NEW a \in Agents, FlushUnlock(a)
  PROVE  IInv'
<1>. USE CacheAssumption DEF IInv, Sector, Goto, FlushUnlock
<1>0. \A b \in Agents :
        /\ request[b].sector \in Sectors /\ request[b].segment \in Segments
        /\ request[b].value \in Values /\ request[b].kind \in {"read", "write", "ahead"}
  BY RequestType
<1>1. in_ram[a] \in Entries /\ entry \in [Entries -> EntryType]
  BY EntryTyped DEF EntryLockOK, EntryLock, EntryPCs
<1>2. \/ in_ram'[a] = in_ram[a] /\ pc'[a] \in {"off", "idle"}
      \/ in_ram'[a] \in Entries /\ in_ram'[a] = in_ram[a] + 1 /\ pc'[a] = "f_lock"
  <2>1. in_ram \in [Agents -> Entries \cup {Nobody}] /\ a \in DOMAIN pc
    BY DEF TypeOK
  <2>2. in_ram[a] < BufferLen - 1 => in_ram[a] + 1 \in Entries
    BY <1>1 DEF Entries
  <2>3. \/ in_ram[a] < BufferLen - 1 /\ in_ram' = [in_ram EXCEPT ![a] = in_ram[a] + 1]
           /\ pc' = [pc EXCEPT ![a] = "f_lock"]
        \/ in_ram' = in_ram /\ \E l \in {"off", "idle"} : pc' = [pc EXCEPT ![a] = l]
    OBVIOUS
  <2>. HIDE DEF IInv, FlushUnlock
  <2>. QED BY <2>1, <2>2, <2>3
<1>3. TypeOK'
  <2>1. disk' \in [Sectors -> Contents] /\ addr' \in [Sectors -> Entries \cup {Nobody}]
    BY <1>0, <1>1, <1>2 DEF TypeOK
  <2>2. entry' \in [Entries -> EntryType]
    BY <1>1 DEF EntryType
  <2>3. rwlock' \in [Sectors -> [writer : Agents \cup {Nobody}, readers : SUBSET Agents]]
    BY <1>0, <1>1, <1>2 DEF TypeOK
  <2>4. pc' \in [Agents -> {"idle", "off"} \cup AccessPCs \cup FlushPCs]
    BY <1>0, <1>1, <1>2 DEF TypeOK, AccessPCs, FlushPCs, Cached
  <2>5. request' \in [Agents -> Requests] /\ in_ram' \in [Agents -> Entries \cup {Nobody}] /\ evict_I' \in Entries
    BY <1>1, <1>2 DEF TypeOK
  <2>6. /\ tried' \in [Agents -> 0 .. 2 * BufferLen] /\ upgraded' \in [Agents -> BOOLEAN]
        /\ got' \in [Threads -> Values] /\ budget' \in [Agents -> 0 .. MaxRequests + MaxRounds + 1]
    BY <1>0, <1>1, <1>2 DEF TypeOK
  <2>. QED BY <2>1, <2>2, <2>3, <2>4, <2>5, <2>6 DEF TypeOK, EntryType
<1>4. MapsAgree'
  BY <1>0, <1>1, <1>2 DEF TypeOK, MapsAgree, EntryLockOK, EntryLock, SectorLockOK, SectorLock, PlaceOK, Place, EntryPCs, EvictPCs
<1>5. EntryLockOK'
  <2>2. EntryLock(a)'
    BY <1>0, <1>1, <1>2 DEF TypeOK, EntryLockOK, EntryLock, EntryPCs, Cached, PlaceOK, Place
  <2>3. ASSUME NEW b \in Agents, b # a PROVE EntryLock(b)'
    BY <1>0, <1>1, <1>2, <2>3 DEF TypeOK, EntryLockOK, EntryLock, EntryPCs, Cached, PlaceOK, Place
  <2>. QED BY <2>2, <2>3 DEF EntryLockOK
<1>6. SectorLockOK'
  <2>1. \A z \in Sectors : rwlock'[z].writer # Nobody => rwlock'[z].readers = {}
    BY <1>0, <1>1, <1>2 DEF TypeOK, MapsAgree, EntryLockOK, EntryLock, SectorLockOK, SectorLock, PlaceOK, Place, EvictPCs, EntryPCs, UsePCs, Cached
  <2>2. SectorLock(a)'
    BY <1>0, <1>1, <1>2 DEF TypeOK, MapsAgree, EntryLockOK, EntryLock, SectorLockOK, SectorLock, PlaceOK, Place, EvictPCs, EntryPCs, UsePCs, Cached
  <2>3. ASSUME NEW b \in Agents, b # a PROVE SectorLock(b)'
    BY <1>0, <1>1, <1>2, <2>3 DEF TypeOK, MapsAgree, EntryLockOK, EntryLock, SectorLockOK, SectorLock, PlaceOK, Place, EvictPCs, EntryPCs, UsePCs, Cached
  <2>. QED BY <2>1, <2>2, <2>3 DEF SectorLockOK
<1>7. PlaceOK'
  <2>2. Place(a)'
    BY <1>0, <1>1, <1>2 DEF TypeOK, MapsAgree, EntryLockOK, EntryLock, SectorLockOK, SectorLock, PlaceOK, Place, EvictPCs, EntryPCs, UsePCs, Cached
  <2>3. ASSUME NEW b \in Agents, b # a PROVE Place(b)'
    BY <1>0, <1>1, <1>2, <2>3 DEF TypeOK, MapsAgree, EntryLockOK, EntryLock, SectorLockOK, SectorLock, PlaceOK, Place, EvictPCs, EntryPCs, UsePCs, Cached
  <2>. QED BY <2>2, <2>3 DEF PlaceOK
<1>8. KindOK'
  BY <1>0, <1>1, <1>2 DEF TypeOK, KindOK, Kind, Cached
<1>. QED BY <1>3, <1>4, <1>5, <1>6, <1>7, <1>8

-----------------------------------------------------------------------------
\* The initial state.
LEMMA InitInv == ASSUME Init PROVE IInv
<1>. USE CacheAssumption DEF Init
<1>1. TypeOK
  BY DEF TypeOK, Contents, Requests, AccessPCs, FlushPCs, Entries
<1>2. MapsAgree
  BY DEF MapsAgree
<1>3. EntryLockOK /\ SectorLockOK /\ PlaceOK
  BY DEF EntryLockOK, EntryLock, SectorLockOK, SectorLock, PlaceOK, Place, EntryPCs, EvictPCs, UsePCs
<1>4. KindOK
  BY DEF KindOK, Kind
<1>. QED BY <1>1, <1>2, <1>3, <1>4 DEF IInv

\* Every step keeps the invariant.
LEMMA NextInv == ASSUME IInv, [Next]_vars PROVE IInv'
<1>1. CASE Start
  <2>. USE <1>1 DEF Start, Agents
  <2>1. CASE \E t \in Threads, z \in Sectors, g \in Segments :
                 \/ cached_block_read_segment(t, z, g)
                 \/ \E v \in Values : cached_block_write_segment(t, z, g, v)
    <3>1. PICK t \in Threads, z \in Sectors, g \in Segments :
                 \/ cached_block_read_segment(t, z, g)
                 \/ \E v \in Values : cached_block_write_segment(t, z, g, v)
      BY <2>1
    <3>2. CASE cached_block_read_segment(t, z, g)
      <4>. DEFINE r == [kind |-> "read", sector |-> z, segment |-> g, value |-> InitialValue]
      <4>1. r \in Requests BY CacheAssumption DEF Requests
      <4>. QED BY <3>2, <4>1, BeginKeeps DEF cached_block_read_segment
    <3>3. ASSUME NEW v \in Values, cached_block_write_segment(t, z, g, v) PROVE IInv'
      <4>. DEFINE r == [kind |-> "write", sector |-> z, segment |-> g, value |-> v]
      <4>1. r \in Requests BY DEF Requests
      <4>. QED BY <3>3, <4>1, BeginKeeps DEF cached_block_write_segment
    <3>. QED BY <3>1, <3>2, <3>3
  <2>2. CASE \E f \in Flushers, z \in Sectors : read_ahead(f, z)
    <3>1. PICK f \in Flushers, r \in Requests : Begin(f, r) /\ r.kind = "ahead"
      BY <2>2, CacheAssumption DEF read_ahead, Requests
    <3>. QED BY <3>1, BeginKeeps
  <2>3. CASE filesys_done \/ \E f \in Flushers : fflush_all(f)
    BY <2>3, FlushBeginKeeps DEF filesys_done, fflush_all
  <2>. QED BY <2>1, <2>2, <2>3
<1>2. CASE \E a \in Agents : Step(a)
  BY <1>2, ReadLockKeeps, UpgradeBeginKeeps, UpgradeEndKeeps, EvictFailKeeps, EvictTryKeeps,
     ClaimedKeeps, FlushKeeps, InstallKeeps, FillKeeps, CopyKeeps, MarkKeeps, DirectKeeps,
     UnlockKeeps, FlushLockKeeps, FlushSwapKeeps, FlushWriteKeeps, FlushDirtyKeeps,
     FlushUnlockKeeps DEF Step
<1>3. CASE UNCHANGED vars
  BY <1>3 DEF vars, IInv, TypeOK, MapsAgree, EntryLockOK, SectorLockOK, PlaceOK, KindOK,
     EntryLock, SectorLock, Place, Kind, Sector
<1>. QED BY <1>1, <1>2, <1>3 DEF Next, Done

LEMMA Invariance == Spec => []IInv
<1>1. Init => IInv BY InitInv
<1>2. IInv /\ [Next]_vars => IInv' BY NextInv
<1>. QED BY <1>1, <1>2, PTL DEF Spec

\* EntriesOwned: two sectors never share an entry, no sector is cached twice,
\* and an entry is not taken away while a thread copies from or to it, however
\* requests, evictions and the flusher interleave (cached_block_read_segment,
\* evict, fflush_all).
THEOREM EntriesOwnedHolds == Spec => []EntriesOwned
<1>1. IInv => PinnedWhileUsed
  BY DEF IInv, PinnedWhileUsed, PlaceOK, Place, MapsAgree, TypeOK, Sector, Requests
<1>2. IInv => EntriesOwned
  BY <1>1 DEF IInv, EntriesOwned
<1>. QED BY <1>2, Invariance, PTL

\* FillAssertsHold: the ASSERTs on the entry that evict returned and on
\* addr[sector] never fail, although addr was read before the lock was given
\* away in the upgrade (cached_block_read_segment).
THEOREM FillAsserts == Spec => []FillAssertsHold
<1>1. IInv => FillAssertsHold
  BY DEF IInv, FillAssertsHold, PlaceOK, Place, EntryLockOK, EntryLock, EvictPCs, EntryPCs
<1>. QED BY <1>1, Invariance, PTL

-----------------------------------------------------------------------------
(***************************************************************************)
(* The cache as a store.  It is one only while no flusher runs, since a    *)
(* flush may write an entry that is not filled yet, and while fewer writes *)
(* are made than make dirty wrap to 0.  Without one of the two conditions  *)
(* TLC finds contents lost.  With them the disk has what a clean entry     *)
(* has, except while somebody is known to be on the way (CleanWritten);    *)
(* that dirty does not wrap takes a count of the requests (DirtyCounted).  *)
(***************************************************************************)
\* The condition: no flusher, and too few requests to make dirty wrap.
Undisturbed ==
  /\ Flushers = {}
  /\ IsFiniteSet(Threads) /\ Cardinality(Threads) * MaxRequests < DirtyMod

\* Threads make requests, the shutdown flushes, and it comes after them.
Roles ==
  /\ \A t \in Threads : /\ pc[t] \in {"idle"} \cup AccessPCs
                        /\ request[t].kind \in {"read", "write"}
  /\ pc[Main] \in {"idle", "off"} \cup FlushPCs
  /\ pc[Main] # "idle" => \A t \in Threads : pc[t] = "idle" /\ budget[t] = 0

\* The disk has what an entry has.
Written(e) == entry[e].holder # Nobody => disk[entry[e].holder] = entry[e].data

\* An entry differs from the disk only while dirty says so, from its copy to
\* its mark (or by a fill, or under way to the disk) not even then.
Unmarked(e) ==
  \/ \E t \in Threads : pc[t] = "fill" /\ Sector(t) = entry[e].holder
  \/ \E t \in Threads : pc[t] = "mark" /\ request[t].kind = "write" /\ in_ram[t] = e
  \/ pc[Main] = "f_write" /\ in_ram[Main] = e
CleanWritten == \A e \in Entries : entry[e].dirty = 0 => Written(e) \/ Unmarked(e)

\* The entries that the shutdown has passed are on the disk.
Passed(e) ==
  \/ pc[Main] = "off"
  \/ pc[Main] \in FlushPCs /\ e < in_ram[Main]
  \/ pc[Main] \in {"f_dirty", "f_unlock"} /\ e = in_ram[Main]
PassedWritten == \A e \in Entries : Passed(e) => Written(e)

\* The requests whose data is in place and marked: of those that thread t may
\* make, the k-th from the last.  dirty counts some of them.
Pending(t) == IF pc[t] \in {"idle", "unlock"} THEN 0 ELSE 1
Spent == {w \in Threads \X (1 .. MaxRequests) : w[2] > budget[w[1]] + Pending(w[1])}
DirtyCounted ==
  /\ \A t \in Threads : budget[t] + Pending(t) <= MaxRequests
  /\ \A e \in Entries : entry[e].dirty <= Cardinality(Spent)
  /\ pc[Main] \in {"f_write", "f_dirty"} => Cardinality(Spent) # 0

SInv == Roles /\ CleanWritten /\ PassedWritten /\ DirtyCounted

-----------------------------------------------------------------------------
\* What a step that moves one agent does to the abstract variables.

\* Nothing is filled, or the same.
LEMMA FillingKept ==
  ASSUME pc \in [Agents -> {"idle", "off"} \cup AccessPCs \cup FlushPCs],
         NEW a \in Agents, NEW l, pc' = [pc EXCEPT ![a] = l],
         pc[a] # "fill", l # "fill", request' = request, NEW z \in Sectors
  PROVE  Filling(z)' <=> Filling(z)
BY DEF Filling, Sector

\* The contents of a sector stay if its place, its copies and its filling do.
LEMMA StoreKept ==
  ASSUME \A z \in Sectors :
           /\ addr'[z] = addr[z] /\ disk'[z] = disk[z]
           /\ addr[z] # Nobody => entry'[addr[z]].data = entry[addr[z]].data
           /\ Filling(z)' <=> Filling(z)
  PROVE  Store' = Store
BY DEF Store

\* Whether a request is called, took effect or returned follows from where the
\* thread is.
LEMMA StatusOf ==
  ASSUME NEW t \in Threads
  PROVE  /\ pc[t] = "idle" => Status(t) = "none"
         /\ pc[t] \in {"mark", "unlock"} => Status(t) = "done"
         /\ pc[t] \notin {"idle", "mark", "unlock"} => Status(t) = "pending"
BY DEF Status

\* A step that leaves the contents and the standing of every request alone.
LEMMA Invisible ==
  ASSUME pc \in [Agents -> {"idle", "off"} \cup AccessPCs \cup FlushPCs],
         NEW a \in Agents, NEW l, pc' = [pc EXCEPT ![a] = l],
         a \in Threads => \/ pc[a] \in {"mark", "unlock"} /\ l \in {"mark", "unlock"}
                          \/ /\ pc[a] \notin {"idle", "mark", "unlock"}
                             /\ l \notin {"idle", "mark", "unlock"},
         request' = request, got' = got, Store' = Store
  PROVE  UNCHANGED Abstract!vars
<1>1. ASSUME NEW t \in Threads PROVE Status(t)' = Status(t)
  BY <1>1 DEF Status, Agents
<1>2. [t \in Threads |-> Status(t)]' = [t \in Threads |-> Status(t)]
  BY <1>1
<1>3. [t \in Threads |-> request[t]]' = [t \in Threads |-> request[t]]
  OBVIOUS
<1>. QED BY <1>2, <1>3 DEF Abstract!vars

\* While a thread has the lock of a sector, in whatever way, nobody else fills
\* its entry.
LEMMA NotFilling ==
  ASSUME IInv, NEW a \in Agents, pc[a] \in {"copy", "mark"}
  PROVE  ~ Filling(Sector(a))
<1>. SUFFICES ASSUME NEW b \in Agents, pc[b] = "fill", Sector(b) = Sector(a) PROVE FALSE
  BY DEF Filling
<1>1. rwlock[Sector(a)].writer = b
  BY DEF IInv, SectorLockOK, SectorLock
<1>2. Sector(a) \in Sectors
  BY DEF IInv, TypeOK, Requests, Sector
<1>3. rwlock[Sector(a)].readers = {}
  BY <1>1, <1>2, CacheAssumption DEF IInv, SectorLockOK, Agents
<1>4. rwlock[Sector(a)].writer = a
  BY <1>3 DEF IInv, SectorLockOK, SectorLock, UsePCs
<1>. QED BY <1>1, <1>4

LEMMA VictimNotFilling ==
  ASSUME IInv, NEW a \in Agents, pc[a] = "flush"
  PROVE  ~ Filling(entry[in_ram[a]].holder)
<1>. SUFFICES ASSUME NEW b \in Agents, pc[b] = "fill", Sector(b) = entry[in_ram[a]].holder
              PROVE FALSE
  BY DEF Filling
<1>1. rwlock[Sector(b)].writer = b
  BY DEF IInv, SectorLockOK, SectorLock
<1>2. rwlock[entry[in_ram[a]].holder].writer = a
  BY DEF IInv, SectorLockOK, SectorLock
<1>. QED BY <1>1, <1>2

\* Only one thread fills the entry of a sector, and none evicts for it.
LEMMA OneEvictor ==
  ASSUME IInv, NEW a \in Agents, NEW b \in Agents, Sector(b) = Sector(a),
         pc[a] \in {"install", "fill", "direct"}, pc[b] \in {"fill", "copy", "mark"}
  PROVE  b = a
<1>1. rwlock[Sector(a)].writer = a /\ Sector(a) \in Sectors
  BY DEF IInv, SectorLockOK, SectorLock, EvictPCs, TypeOK, Requests, Sector
<1>2. rwlock[Sector(a)].readers = {}
  BY <1>1, CacheAssumption DEF IInv, SectorLockOK, Agents
<1>3. rwlock[Sector(b)].writer = b
  BY <1>2 DEF IInv, SectorLockOK, SectorLock, UsePCs
<1>. QED BY <1>1, <1>3

\* Locking and marking an entry leaves what it caches.
LEMMA SameData ==
  ASSUME entry \in [Entries -> EntryType], NEW e \in Entries, NEW k, NEW l
  PROVE  /\ \A b \in Entries : [entry EXCEPT ![e].lock = k][b].data = entry[b].data
         /\ \A b \in Entries : [entry EXCEPT ![e].dirty = k][b].data = entry[b].data
         /\ \A b \in Entries :
              [entry EXCEPT ![e].accessed = k, ![e].dirty = l][b].data = entry[b].data
         /\ \A b \in Entries :
              [entry EXCEPT ![e].accessed = k, ![e].lock = l][b].data = entry[b].data
BY DEF EntryType

-----------------------------------------------------------------------------
\* One lemma for each kind of step: it takes an effect that the store allows, or
\* none that a caller can see.

\* A step that touches no data.
LEMMA QuietStep ==
  ASSUME IInv, Roles, Flushers = {}, NEW a \in Agents,
         \/ ReadLock(a) \/ UpgradeBegin(a) \/ UpgradeEnd(a) \/ EvictFail(a)
         \/ EvictTry(a) \/ Claimed(a) \/ Mark(a)
         \/ FlushLock(a) \/ FlushSwap(a) \/ FlushDirty(a) \/ FlushUnlock(a)
  PROVE  UNCHANGED Abstract!vars
<1>. USE DEF Goto
<1>1. pc \in [Agents -> {"idle", "off"} \cup AccessPCs \cup FlushPCs]
  BY DEF IInv, TypeOK
<1>2. disk' = disk /\ addr' = addr /\ got' = got /\ request' = request
  BY DEF ReadLock, UpgradeBegin, UpgradeEnd, EvictFail, EvictTry, Claimed, Mark, FlushLock,
         FlushSwap, FlushDirty, FlushUnlock
<1>3. \A e \in Entries : entry'[e].data = entry[e].data
  <2>1. entry \in [Entries -> EntryType]
    BY EntryTyped DEF IInv
  <2>2. \/ entry' = entry
        \/ \E e \in Entries : \E k : entry' = [entry EXCEPT ![e].lock = k]
        \/ \E e \in Entries : \E k : entry' = [entry EXCEPT ![e].dirty = k]
        \/ \E e \in Entries : \E k, l : entry' = [entry EXCEPT ![e].accessed = k, ![e].dirty = l]
        \/ \E e \in Entries : \E k, l : entry' = [entry EXCEPT ![e].accessed = k, ![e].lock = l]
    <3>1. CASE ReadLock(a) \/ UpgradeBegin(a) \/ UpgradeEnd(a) \/ EvictFail(a)
      BY <3>1 DEF ReadLock, UpgradeBegin, UpgradeEnd, EvictFail
    <3>2. CASE EvictTry(a)
      BY <3>2 DEF EvictTry, IInv, TypeOK
    <3>3. CASE Claimed(a)
      <4>1. in_ram[a] \in Entries
        BY <3>3 DEF Claimed, IInv, EntryLockOK, EntryLock, EntryPCs
      <4>2. \/ entry' = entry
            \/ entry' = [entry EXCEPT ![in_ram[a]].lock = Nobody]
            \/ entry' = [entry EXCEPT ![in_ram[a]].accessed = FALSE, ![in_ram[a]].lock = Nobody]
        BY <3>3 DEF Claimed
      <4>. QED BY <4>1, <4>2
    <3>4. CASE Mark(a)
      <4>. DEFINE d == IF request[a].kind = "write" THEN (entry[in_ram[a]].dirty + 1) % DirtyMod
                       ELSE entry[in_ram[a]].dirty
      <4>1. in_ram[a] \in Entries
        BY <3>4 DEF Mark, IInv, PlaceOK, Place
      <4>2. entry' = [entry EXCEPT ![in_ram[a]].accessed = TRUE, ![in_ram[a]].dirty = d]
        BY <3>4, <4>1, <2>1 DEF Mark, EntryType
      <4>. QED BY <4>1, <4>2
    <3>5. CASE FlushLock(a) \/ FlushSwap(a) \/ FlushDirty(a) \/ FlushUnlock(a)
      BY <3>5 DEF FlushLock, FlushSwap, FlushDirty, FlushUnlock, IInv, EntryLockOK, EntryLock,
                  EntryPCs
    <3>. QED BY <3>1, <3>2, <3>3, <3>4, <3>5
  <2>3. ASSUME NEW e \in Entries, NEW k, NEW m,
               \/ entry' = [entry EXCEPT ![e].lock = k]
               \/ entry' = [entry EXCEPT ![e].dirty = k]
               \/ entry' = [entry EXCEPT ![e].accessed = k, ![e].dirty = m]
               \/ entry' = [entry EXCEPT ![e].accessed = k, ![e].lock = m]
        PROVE  \A b \in Entries : entry'[b].data = entry[b].data
    <3>1. CASE entry' = [entry EXCEPT ![e].lock = k]
      BY ONLY <2>1, <3>1, SameData, e \in Entries
    <3>2. CASE entry' = [entry EXCEPT ![e].dirty = k]
      BY ONLY <2>1, <3>2, SameData, e \in Entries
    <3>3. CASE entry' = [entry EXCEPT ![e].accessed = k, ![e].dirty = m]
      BY ONLY <2>1, <3>3, SameData, e \in Entries
    <3>4. CASE entry' = [entry EXCEPT ![e].accessed = k, ![e].lock = m]
      BY ONLY <2>1, <3>4, SameData, e \in Entries
    <3>. QED BY <2>3, <3>1, <3>2, <3>3, <3>4
  <2>. QED BY ONLY <2>2, <2>3
<1>4. \E l : /\ pc' = [pc EXCEPT ![a] = l] /\ pc[a] # "fill" /\ l # "fill"
             /\ a \in Threads => \/ pc[a] \in {"mark", "unlock"} /\ l \in {"mark", "unlock"}
                                \/ /\ pc[a] \notin {"idle", "mark", "unlock"}
                                   /\ l \notin {"idle", "mark", "unlock"}
  <2>1. CASE a \in Threads
    <3>1. pc[a] \in {"idle"} \cup AccessPCs /\ request[a].kind # "ahead"
      BY <2>1 DEF Roles
    <3>2. CASE ReadLock(a) \/ UpgradeBegin(a) \/ UpgradeEnd(a)
      BY <3>1, <3>2 DEF ReadLock, UpgradeBegin, UpgradeEnd, Cached
    <3>3. CASE EvictFail(a) \/ Mark(a)
      BY <3>1, <3>3 DEF EvictFail, Mark
    <3>4. CASE EvictTry(a)
      BY <1>1, <3>4 DEF EvictTry
    <3>5. CASE Claimed(a)
      BY <3>5 DEF Claimed
    <3>6. CASE FlushLock(a) \/ FlushSwap(a) \/ FlushDirty(a) \/ FlushUnlock(a)
      BY <3>1, <3>6 DEF FlushLock, FlushSwap, FlushDirty, FlushUnlock, AccessPCs
    <3>. QED BY <3>2, <3>3, <3>4, <3>5, <3>6
  <2>2. CASE a = Main
    <3>1. pc[a] \in {"idle", "off"} \cup FlushPCs /\ a \notin Threads
      BY <2>2, MainAssumption DEF Roles
    <3>2. CASE \/ ReadLock(a) \/ UpgradeBegin(a) \/ UpgradeEnd(a) \/ EvictFail(a)
               \/ EvictTry(a) \/ Claimed(a) \/ Mark(a)
      BY <3>1, <3>2 DEF ReadLock, UpgradeBegin, UpgradeEnd, EvictFail, EvictTry, Claimed, Mark,
                        FlushPCs
    <3>3. CASE FlushLock(a) \/ FlushSwap(a) \/ FlushDirty(a) \/ FlushUnlock(a)
      BY <3>1, <3>3 DEF FlushLock, FlushSwap, FlushDirty, FlushUnlock
    <3>. QED BY <3>2, <3>3
  <2>. QED BY <2>1, <2>2 DEF Agents
<1>5. PICK l : /\ pc' = [pc EXCEPT ![a] = l] /\ pc[a] # "fill" /\ l # "fill"
               /\ a \in Threads => \/ pc[a] \in {"mark", "unlock"} /\ l \in {"mark", "unlock"}
                                  \/ /\ pc[a] \notin {"idle", "mark", "unlock"}
                                     /\ l \notin {"idle", "mark", "unlock"}
  BY <1>4
<1>6. ASSUME NEW z \in Sectors PROVE Filling(z)' <=> Filling(z)
  <2>1. pc' = [pc EXCEPT ![a] = l] /\ pc[a] # "fill" /\ l # "fill" /\ request' = request
    BY <1>2, <1>5
  <2>. QED BY ONLY <1>1, <2>1, FillingKept, a \in Agents, z \in Sectors
<1>7. Store' = Store
  <2>1. \A z \in Sectors : addr[z] \in Entries \cup {Nobody}
    BY DEF IInv, TypeOK
  <2>. QED BY <1>2, <1>3, <1>6, <2>1, StoreKept
<1>. QED BY ONLY <1>1, <1>2, <1>5, <1>7, Invisible, a \in Agents

\* The contents of the one sector whose place, copy or filling changes.
LEMMA StoreAt ==
  ASSUME NEW h \in Sectors, NEW c,
         \A z \in Sectors \ {h} :
           /\ addr'[z] = addr[z] /\ disk'[z] = disk[z]
           /\ addr[z] # Nobody => entry'[addr[z]].data = entry[addr[z]].data
           /\ Filling(z)' <=> Filling(z),
         (IF addr'[h] # Nobody /\ ~ Filling(h)' THEN entry'[addr'[h]].data ELSE disk'[h]) = c
  PROVE  Store' = [Store EXCEPT ![h] = c]
BY DEF Store

\* The victim of an eviction is on the disk when it leaves the cache
\* (fflush_single).
LEMMA FlushStep ==
  ASSUME IInv, Roles, CleanWritten, Flushers = {}, NEW a \in Agents, Flush(a)
  PROVE  UNCHANGED Abstract!vars
<1>. USE DEF Goto
<1>. DEFINE e == in_ram[a]
            h == entry[e].holder
<1>1. pc \in [Agents -> {"idle", "off"} \cup AccessPCs \cup FlushPCs] /\ pc[a] = "flush"
  BY DEF IInv, TypeOK, Flush
<1>2. a \in Threads
  BY <1>1, CacheAssumption DEF Roles, Agents, FlushPCs
<1>3. /\ pc' = [pc EXCEPT ![a] = "install"] /\ got' = got /\ request' = request
      /\ addr' = [addr EXCEPT ![h] = Nobody]
  BY DEF Flush
<1>4. e \in Entries /\ h \in Sectors /\ addr[h] = e /\ rwlock[h].writer = a
      /\ h # Nobody
  BY <1>1, CacheAssumption DEF IInv, EntryLockOK, EntryLock, SectorLockOK, SectorLock, EntryPCs, MapsAgree
<1>5. entry \in [Entries -> EntryType] /\ addr \in [Sectors -> Entries \cup {Nobody}]
      /\ disk \in [Sectors -> Contents]
  BY EntryTyped DEF IInv, TypeOK
<1>6. \A b \in Entries : entry'[b].data = entry[b].data
  <2>1. entry' = [entry EXCEPT ![e].holder = Nobody,
                               ![e].dirty = IF entry[e].dirty # 0 THEN 1 ELSE 0]
    BY <1>4, <1>5 DEF Flush, EntryType
  <2>. QED BY <2>1, <1>4, <1>5 DEF EntryType
<1>7. disk'[h] = entry[e].data /\ \A z \in Sectors \ {h} : disk'[z] = disk[z]
  <2>1. CASE entry[e].dirty # 0
    BY <2>1, <1>4, <1>5 DEF Flush
  <2>2. CASE entry[e].dirty = 0
    <3>1. disk' = disk
      BY <2>2 DEF Flush
    <3>2. Written(e) \/ Unmarked(e)
      BY <1>4, <2>2 DEF CleanWritten
    <3>3. ~ Unmarked(e)
      <4>1. \A t \in Threads : ~ (pc[t] = "fill" /\ Sector(t) = h)
        BY <1>1, VictimNotFilling DEF Filling, Agents
      <4>2. ASSUME NEW t \in Threads, pc[t] = "mark", in_ram[t] = e PROVE FALSE
        <5>1. addr[Sector(t)] = e /\ Sector(t) \in Sectors /\ t \in Agents
          BY <4>2 DEF IInv, PlaceOK, Place, TypeOK, Requests, Sector, Agents
        <5>2. Sector(t) = h
          BY <5>1, <1>4 DEF IInv, MapsAgree
        <5>3. rwlock[h].readers = {}
          BY <1>4, CacheAssumption DEF IInv, SectorLockOK
        <5>4. rwlock[h].writer = t
          BY <5>1, <5>2, <5>3, <4>2 DEF IInv, SectorLockOK, SectorLock, UsePCs
        <5>. QED BY <5>4, <1>4, <4>2, <1>1
      <4>3. pc[Main] # "f_write" \/ in_ram[Main] # e
        <5>1. ASSUME pc[Main] = "f_write" PROVE FALSE
          BY <5>1, <1>1, <1>2 DEF Roles
        <5>. QED BY <5>1
      <4>. QED BY <4>1, <4>2, <4>3 DEF Unmarked
    <3>. QED BY <3>1, <3>2, <3>3, <1>4 DEF Written
  <2>. QED BY <2>1, <2>2
<1>8. ASSUME NEW z \in Sectors PROVE Filling(z)' <=> Filling(z)
  BY <1>1, <1>3, FillingKept
<1>9. Store' = [Store EXCEPT ![h] = entry[e].data]
  <2>1. \A z \in Sectors \ {h} : addr'[z] = addr[z] /\ addr[z] \in Entries \cup {Nobody}
    BY <1>3, <1>5
  <2>2. addr'[h] = Nobody
    BY <1>3, <1>4, <1>5
  <2>. HIDE DEF e, h
  <2>. QED BY <1>4, <1>6, <1>7, <1>8, <2>1, <2>2, StoreAt
<1>10. Store[h] = entry[e].data
  BY <1>1, <1>4, VictimNotFilling, CacheAssumption DEF Store
<1>11. Store' = Store
  BY <1>9, <1>10 DEF Store
<1>. QED BY <1>1, <1>2, <1>3, <1>11, Invisible

\* The entry is given to the sector before it is filled (evict).
LEMMA InstallStep ==
  ASSUME IInv, Roles, Flushers = {}, NEW a \in Agents, Install(a)
  PROVE  UNCHANGED Abstract!vars
<1>. USE DEF Goto
<1>. DEFINE e == in_ram[a]
            h == Sector(a)
<1>1. pc \in [Agents -> {"idle", "off"} \cup AccessPCs \cup FlushPCs] /\ pc[a] = "install"
  BY DEF IInv, TypeOK, Install
<1>3. /\ pc' = [pc EXCEPT ![a] = "fill"] /\ got' = got /\ request' = request
      /\ addr' = [addr EXCEPT ![h] = e] /\ disk' = disk
  BY DEF Install
<1>4. e \in Entries /\ h \in Sectors /\ addr[h] = Nobody
  BY <1>1 DEF IInv, EntryLockOK, EntryLock, EntryPCs, PlaceOK, Place, EvictPCs, TypeOK, Requests, Sector
<1>5. entry \in [Entries -> EntryType] /\ addr \in [Sectors -> Entries \cup {Nobody}]
  BY EntryTyped DEF IInv, TypeOK
<1>6. \A b \in Entries : entry'[b].data = entry[b].data
  <2>1. entry' = [entry EXCEPT ![e].holder = h, ![e].lock = Nobody]
    BY DEF Install
  <2>. QED BY <2>1, <1>4, <1>5 DEF EntryType
<1>7. Filling(h)' /\ \A z \in Sectors \ {h} : (Filling(z)' <=> Filling(z))
  BY <1>1, <1>3 DEF Filling, Sector
<1>8. Store' = [Store EXCEPT ![h] = disk[h]]
  <2>1. \A z \in Sectors \ {h} : addr'[z] = addr[z] /\ addr[z] \in Entries \cup {Nobody}
    BY <1>3, <1>5
  <2>2. \A z \in Sectors \ {h} :
          /\ addr'[z] = addr[z] /\ disk'[z] = disk[z] /\ (Filling(z)' <=> Filling(z))
          /\ addr[z] # Nobody => entry'[addr[z]].data = entry[addr[z]].data
    BY <1>3, <1>6, <1>7, <2>1
  <2>3. PICK w \in Sectors : w = h
    BY <1>4
  <2>4. Filling(w)' /\ disk'[w] = disk[w]
    BY <1>1, <1>3, <2>3 DEF Filling, Sector
  <2>5. Store' = [Store EXCEPT ![w] = disk[w]]
    BY ONLY <2>2, <2>3, <2>4, StoreAt
  <2>. QED BY <2>3, <2>5
<1>9. Store' = Store
  BY <1>4, <1>8 DEF Store
<1>. QED BY <1>1, <1>3, <1>9, Invisible

\* ... and the fill brings what the disk has.
LEMMA FillStep ==
  ASSUME IInv, Roles, Flushers = {}, NEW a \in Agents, Fill(a)
  PROVE  UNCHANGED Abstract!vars
<1>. USE DEF Goto
<1>. DEFINE e == in_ram[a]
            h == Sector(a)
<1>1. pc \in [Agents -> {"idle", "off"} \cup AccessPCs \cup FlushPCs] /\ pc[a] = "fill"
  BY DEF IInv, TypeOK, Fill
<1>2. a \in Threads /\ request[a].kind # "ahead"
  BY <1>1, CacheAssumption DEF Roles, Agents, FlushPCs
<1>3. /\ pc' = [pc EXCEPT ![a] = "copy"] /\ got' = got /\ request' = request
      /\ addr' = addr /\ disk' = disk
  BY <1>2 DEF Fill, Cached
<1>4. e \in Entries /\ h \in Sectors /\ addr[h] = e /\ e # Nobody
  BY <1>1, CacheAssumption DEF IInv, PlaceOK, Place, TypeOK, Requests, Sector
<1>5. entry \in [Entries -> EntryType] /\ addr \in [Sectors -> Entries \cup {Nobody}]
  BY EntryTyped DEF IInv, TypeOK
<1>6. entry'[e].data = disk[h] /\ \A b \in Entries \ {e} : entry'[b].data = entry[b].data
  <2>1. entry' = [entry EXCEPT ![e].data = disk[h]]
    BY DEF Fill
  <2>. QED BY <2>1, <1>4, <1>5 DEF EntryType
<1>7. ~ Filling(h)' /\ \A z \in Sectors \ {h} : (Filling(z)' <=> Filling(z))
  <2>1. \A b \in Agents : pc[b] = "fill" /\ Sector(b) = h => b = a
    BY <1>1, OneEvictor
  <2>. QED BY <1>1, <1>3, <2>1 DEF Filling, Sector
<1>8. Store' = [Store EXCEPT ![h] = disk[h]]
  <2>1. \A z \in Sectors \ {h} : addr[z] \in (Entries \cup {Nobody}) \ {e}
    BY <1>4, <1>5 DEF IInv, MapsAgree
  <2>2. \A z \in Sectors \ {h} : addr[z] # Nobody => entry'[addr[z]].data = entry[addr[z]].data
    BY <1>6, <2>1
  <2>. HIDE DEF e, h
  <2>. QED BY <1>3, <1>4, <1>6, <1>7, <2>2, StoreAt
<1>9. Filling(h)
  BY <1>1 DEF Filling
<1>10. Store' = Store
  BY <1>8, <1>9 DEF Store
<1>. QED BY <1>1, <1>2, <1>3, <1>10, Invisible

\* The shutdown writes an entry to its own sector (fflush_all).
LEMMA FlushWriteStep ==
  ASSUME IInv, Roles, Flushers = {}, NEW a \in Agents, FlushWrite(a)
  PROVE  UNCHANGED Abstract!vars
<1>. USE DEF Goto
<1>. DEFINE e == in_ram[a]
            h == entry[e].holder
<1>1. pc \in [Agents -> {"idle", "off"} \cup AccessPCs \cup FlushPCs] /\ pc[a] = "f_write"
  BY DEF IInv, TypeOK, FlushWrite
<1>2. a = Main /\ a \notin Threads
  BY <1>1, CacheAssumption DEF Roles, Agents, AccessPCs
<1>3. /\ pc' = [pc EXCEPT ![a] = "f_dirty"] /\ got' = got /\ request' = request
      /\ addr' = addr /\ entry' = entry /\ disk' = [disk EXCEPT ![h] = entry[e].data]
  BY DEF FlushWrite
<1>4. e \in Entries /\ h \in Sectors /\ addr[h] = e /\ e # Nobody
  BY <1>1, CacheAssumption, EntryTyped
     DEF IInv, EntryLockOK, EntryLock, EntryPCs, MapsAgree, EntryType
<1>5. disk \in [Sectors -> Contents]
  BY DEF IInv, TypeOK
<1>6. ASSUME NEW z \in Sectors PROVE ~ Filling(z) /\ ~ Filling(z)'
  <2>1. \A b \in Agents : pc[b] # "fill" /\ pc'[b] # "fill"
    BY <1>1, <1>2, <1>3 DEF Roles, Agents
  <2>. QED BY <2>1 DEF Filling
<1>7. Store' = Store
  BY <1>3, <1>4, <1>5, <1>6 DEF Store
<1>. QED BY <1>1, <1>2, <1>3, <1>7, Invisible

\* The standing of one request changes.
LEMMA StatusMoves ==
  ASSUME pc \in [Agents -> {"idle", "off"} \cup AccessPCs \cup FlushPCs],
         NEW t \in Threads, NEW l, pc' = [pc EXCEPT ![t] = l]
  PROVE  [u \in Threads |-> Status(u)]' = [[u \in Threads |-> Status(u)] EXCEPT ![t] = Status(t)']
<1>1. ASSUME NEW u \in Threads, u # t PROVE Status(u)' = Status(u)
  BY <1>1 DEF Status, Agents
<1>. QED BY <1>1

\* A call of the cache.
LEMMA BeginStep ==
  ASSUME IInv, Roles, NEW t \in Threads, NEW r \in Requests, r.kind # "ahead", Begin(t, r)
  PROVE  Abstract!Call(t)
<1>1. pc \in [Agents -> {"idle", "off"} \cup AccessPCs \cup FlushPCs] /\ pc[t] = "idle"
      /\ t \in Agents
  BY DEF IInv, TypeOK, Begin, Agents
<1>2. /\ pc' = [pc EXCEPT ![t] = "lock"] /\ request' = [request EXCEPT ![t] = r]
      /\ got' = got /\ addr' = addr /\ disk' = disk /\ entry' = entry
  BY DEF Begin, Goto
<1>3. \A z \in Sectors : Filling(z)' <=> Filling(z)
  <2>1. \A b \in Agents : (pc'[b] = "fill" <=> pc[b] = "fill")
                          /\ (pc[b] = "fill" => request'[b] = request[b])
    BY <1>1, <1>2 DEF IInv, TypeOK
  <2>. QED BY <2>1 DEF Filling, Sector
<1>4. Store' = Store
  BY <1>2, <1>3, StoreKept
<1>5. Status(t) = "none" /\ Status(t)' = "pending"
  BY <1>1, <1>2 DEF Status
<1>6. [u \in Threads |-> Status(u)]' = [[u \in Threads |-> Status(u)] EXCEPT ![t] = "pending"]
  BY <1>1, <1>2, <1>5, StatusMoves
<1>7. [u \in Threads |-> request[u]]' = [[u \in Threads |-> request[u]] EXCEPT ![t] = r]
  BY <1>1, <1>2 DEF IInv, TypeOK, Agents
<1>8. r \in Abstract!Requests
  BY DEF Requests, Abstract!Requests
<1>9. [u \in Threads |-> Status(u)][t] = "none"
  BY <1>5
<1>. QED BY <1>2, <1>4, <1>6, <1>7, <1>8, <1>9 DEF Abstract!Call

\* A request takes its effect at its copy: other threads see the new contents
\* from then on, whoever holds the lock with this one.
LEMMA CopyStep ==
  ASSUME IInv, Roles, Flushers = {}, NEW t \in Threads, Copy(t)
  PROVE  Abstract!Effect(t)
<1>. DEFINE e == in_ram[t]
            h == request[t].sector
            g == request[t].segment
<1>1. pc \in [Agents -> {"idle", "off"} \cup AccessPCs \cup FlushPCs] /\ pc[t] = "copy"
      /\ t \in Agents
  BY DEF IInv, TypeOK, Copy, Agents
<1>2. /\ pc' = [pc EXCEPT ![t] = "mark"] /\ request' = request
      /\ addr' = addr /\ disk' = disk
  BY DEF Copy, Goto
<1>3. e \in Entries /\ h \in Sectors /\ g \in Segments /\ request[t].value \in Values
      /\ addr[h] = e /\ e # Nobody
  BY <1>1, CacheAssumption, RequestType DEF IInv, PlaceOK, Place, Sector
<1>4. entry \in [Entries -> EntryType] /\ addr \in [Sectors -> Entries \cup {Nobody}]
  BY EntryTyped DEF IInv, TypeOK
<1>5. \A z \in Sectors : Filling(z)' <=> Filling(z)
  BY <1>1, <1>2, FillingKept
<1>6. ~ Filling(h)
  BY <1>1, NotFilling DEF Sector
<1>7. Store[h] = entry[e].data
  BY <1>3, <1>6 DEF Store
<1>8. Status(t) = "pending" /\ Status(t)' = "done"
  BY <1>1, <1>2 DEF Status
<1>9. [u \in Threads |-> Status(u)]' = [[u \in Threads |-> Status(u)] EXCEPT ![t] = "done"]
  BY <1>1, <1>2, <1>8, StatusMoves
<1>10. [u \in Threads |-> request[u]]' = [u \in Threads |-> request[u]]
  BY <1>2
<1>11. \/ /\ request[t].kind = "write" /\ got' = got
          /\ Store' = [Store EXCEPT ![h][g] = request[t].value]
       \/ /\ request[t].kind = "read" /\ Store' = Store
          /\ got' = [got EXCEPT ![t] = Store[h][g]]
  <2>1. CASE request[t].kind = "read"
    <3>1. entry' = entry /\ got' = [got EXCEPT ![t] = entry[e].data[g]]
      BY <2>1 DEF Copy
    <3>2. Store' = Store
      BY <1>2, <1>5, <3>1, StoreKept
    <3>. QED BY <2>1, <3>1, <3>2, <1>7
  <2>2. CASE request[t].kind = "write"
    <3>. DEFINE c == [entry[e].data EXCEPT ![g] = request[t].value]
    <3>1. got' = got /\ entry' = [entry EXCEPT ![e].data = c]
      BY <2>2 DEF Copy
    <3>2. entry'[e].data = c /\ \A b \in Entries \ {e} : entry'[b].data = entry[b].data
      BY <3>1, <1>3, <1>4 DEF EntryType
    <3>3. \A z \in Sectors \ {h} : addr[z] \in (Entries \cup {Nobody}) \ {e}
      BY <1>3, <1>4 DEF IInv, MapsAgree
    <3>4. \A z \in Sectors \ {h} :
            /\ addr'[z] = addr[z] /\ disk'[z] = disk[z] /\ (Filling(z)' <=> Filling(z))
            /\ addr[z] # Nobody => entry'[addr[z]].data = entry[addr[z]].data
      BY <1>2, <1>5, <3>2, <3>3
    <3>5. PICK w \in Sectors : w = h
      BY <1>3
    <3>6. PICK d : d = c
      OBVIOUS
    <3>7. addr'[w] # Nobody /\ ~ Filling(w)' /\ entry'[addr'[w]].data = d
      BY <1>2, <1>3, <1>5, <1>6, <3>2, <3>5, <3>6
    <3>8. Store' = [Store EXCEPT ![w] = d]
      BY ONLY <3>4, <3>5, <3>7, StoreAt
    <3>9. Store' = [Store EXCEPT ![h][g] = request[t].value]
      BY <3>5, <3>6, <3>8, <1>3, <1>7 DEF Store
    <3>. QED BY <2>2, <3>1, <3>9
  <2>. QED BY <2>1, <2>2 DEF Roles
<1>12. [u \in Threads |-> Status(u)][t] = "pending" /\ [u \in Threads |-> request[u]][t] = request[t]
  BY <1>8
<1>. HIDE DEF e, h, g
<1>. QED BY <1>9, <1>10, <1>11, <1>12 DEF Abstract!Effect, h, g

\* Without an entry it takes its effect on the disk.
LEMMA DirectStep ==
  ASSUME IInv, Roles, Flushers = {}, NEW t \in Threads, Direct(t)
  PROVE  Abstract!Effect(t)
<1>. DEFINE h == request[t].sector
            g == request[t].segment
<1>1. pc \in [Agents -> {"idle", "off"} \cup AccessPCs \cup FlushPCs] /\ pc[t] = "direct"
      /\ t \in Agents
  BY DEF IInv, TypeOK, Direct, Agents
<1>2. /\ pc' = [pc EXCEPT ![t] = "unlock"] /\ request' = request
      /\ addr' = addr /\ entry' = entry
  BY DEF Direct, Goto
<1>3. h \in Sectors /\ g \in Segments /\ request[t].value \in Values /\ addr[h] = Nobody
  BY <1>1, RequestType DEF IInv, PlaceOK, Place, Sector
<1>4. disk \in [Sectors -> Contents]
  BY DEF IInv, TypeOK
<1>5. \A z \in Sectors : Filling(z)' <=> Filling(z)
  BY <1>1, <1>2, FillingKept
<1>7. Store[h] = disk[h]
  BY <1>3 DEF Store
<1>8. Status(t) = "pending" /\ Status(t)' = "done"
  BY <1>1, <1>2 DEF Status
<1>9. [u \in Threads |-> Status(u)]' = [[u \in Threads |-> Status(u)] EXCEPT ![t] = "done"]
  BY <1>1, <1>2, <1>8, StatusMoves
<1>10. [u \in Threads |-> request[u]]' = [u \in Threads |-> request[u]]
  BY <1>2
<1>11. \/ /\ request[t].kind = "write" /\ got' = got
          /\ Store' = [Store EXCEPT ![h][g] = request[t].value]
       \/ /\ request[t].kind = "read" /\ Store' = Store
          /\ got' = [got EXCEPT ![t] = Store[h][g]]
  <2>1. CASE request[t].kind = "read"
    <3>1. disk' = disk /\ got' = [got EXCEPT ![t] = disk[h][g]]
      BY <2>1 DEF Direct
    <3>2. Store' = Store
      BY <1>2, <1>5, <3>1, StoreKept
    <3>. QED BY <2>1, <3>1, <3>2, <1>7
  <2>2. CASE request[t].kind = "write"
    <3>. DEFINE c == [disk[h] EXCEPT ![g] = request[t].value]
    <3>1. got' = got /\ disk' = [disk EXCEPT ![h] = c]
      BY <2>2 DEF Direct
    <3>4. \A z \in Sectors \ {h} :
            /\ addr'[z] = addr[z] /\ disk'[z] = disk[z] /\ (Filling(z)' <=> Filling(z))
            /\ addr[z] # Nobody => entry'[addr[z]].data = entry[addr[z]].data
      BY <1>2, <1>5, <3>1, <1>4
    <3>5. PICK w \in Sectors : w = h
      BY <1>3
    <3>6. PICK d : d = c
      OBVIOUS
    <3>7. addr'[w] = Nobody /\ disk'[w] = d
      BY <1>2, <1>3, <1>4, <3>1, <3>5, <3>6
    <3>8. Store' = [Store EXCEPT ![w] = d]
      BY ONLY <3>4, <3>5, <3>7, StoreAt
    <3>9. Store' = [Store EXCEPT ![h][g] = request[t].value]
      BY <3>5, <3>6, <3>8, <1>3, <1>7 DEF Store
    <3>. QED BY <2>2, <3>1, <3>9
  <2>. QED BY <2>1, <2>2 DEF Roles
<1>12. [u \in Threads |-> Status(u)][t] = "pending" /\ [u \in Threads |-> request[u]][t] = request[t]
  BY <1>8
<1>. HIDE DEF h, g
<1>. QED BY <1>9, <1>10, <1>11, <1>12 DEF Abstract!Effect, h, g

\* The call returns.
LEMMA UnlockStep ==
  ASSUME IInv, Roles, NEW t \in Threads, Unlock(t)
  PROVE  Abstract!Return(t)
<1>1. pc \in [Agents -> {"idle", "off"} \cup AccessPCs \cup FlushPCs] /\ pc[t] = "unlock"
      /\ t \in Agents
  BY DEF IInv, TypeOK, Unlock, Agents
<1>2. /\ pc' = [pc EXCEPT ![t] = "idle"] /\ request' = request
      /\ got' = got /\ addr' = addr /\ disk' = disk /\ entry' = entry
  BY DEF Unlock, Goto
<1>3. \A z \in Sectors : Filling(z)' <=> Filling(z)
  BY <1>1, <1>2, FillingKept
<1>4. Store' = Store
  BY <1>2, <1>3, StoreKept
<1>5. Status(t) = "done" /\ Status(t)' = "none"
  BY <1>1, <1>2 DEF Status
<1>6. [u \in Threads |-> Status(u)]' = [[u \in Threads |-> Status(u)] EXCEPT ![t] = "none"]
  BY <1>1, <1>2, <1>5, StatusMoves
<1>7. [u \in Threads |-> request[u]]' = [u \in Threads |-> request[u]]
  BY <1>2
<1>8. [u \in Threads |-> Status(u)][t] = "done"
  BY <1>5
<1>. QED BY <1>2, <1>4, <1>6, <1>7, <1>8 DEF Abstract!Return

-----------------------------------------------------------------------------
\* The parts of the invariant, and what keeps them.

\* A step of a thread comes before the shutdown.
LEMMA ThreadRoles ==
  ASSUME IInv, Roles, NEW t \in Threads, NEW l \in {"idle"} \cup AccessPCs,
         pc' = [pc EXCEPT ![t] = l], pc[t] # "idle" \/ budget[t] # 0,
         \A u \in Threads : request'[u].kind \in {"read", "write"}
  PROVE  pc[Main] = "idle" /\ pc'[Main] = "idle" /\ Roles' /\ PassedWritten'
<1>1. pc \in [Agents -> {"idle", "off"} \cup AccessPCs \cup FlushPCs] /\ t \in Agents /\ t # Main
      /\ Main \in Agents
  BY MainAssumption DEF IInv, TypeOK, Agents
<1>2. pc[Main] = "idle" /\ pc'[Main] = "idle"
  BY <1>1 DEF Roles
<1>3. \A u \in Threads : pc'[u] \in {"idle"} \cup AccessPCs
  BY <1>1 DEF Roles, Agents
<1>4. Roles'
  BY <1>2, <1>3 DEF Roles
<1>5. PassedWritten'
  BY <1>2 DEF PassedWritten, Passed, FlushPCs
<1>. QED BY <1>2, <1>4, <1>5

\* A step of the shutdown.
LEMMA MainRoles ==
  ASSUME IInv, Roles, NEW l \in {"off"} \cup FlushPCs, pc' = [pc EXCEPT ![Main] = l],
         \A t \in Threads : pc[t] = "idle" /\ budget[t] = 0,
         request' = request, \A t \in Threads : budget'[t] = budget[t]
  PROVE  Roles' /\ pc'[Main] = l /\ \A t \in Threads : pc'[t] = "idle"
<1>1. pc \in [Agents -> {"idle", "off"} \cup AccessPCs \cup FlushPCs] /\ Main \in Agents
      /\ Main \notin Threads
  BY MainAssumption DEF IInv, TypeOK, Agents
<1>2. pc'[Main] = l /\ \A t \in Threads : pc'[t] = pc[t]
  BY <1>1 DEF Agents
<1>. QED BY <1>2 DEF Roles

\* A step of a thread that neither fills nor marks, nor touches what an entry
\* caches.
LEMMA CleanKept ==
  ASSUME IInv, CleanWritten, NEW t \in Threads, NEW l, pc' = [pc EXCEPT ![t] = l],
         pc[t] \notin {"fill", "mark"}, pc[Main] = "idle",
         \A u \in Threads \ {t} : request'[u] = request[u] /\ in_ram'[u] = in_ram[u],
         \A e \in Entries : /\ entry'[e].holder = entry[e].holder
                            /\ entry'[e].data = entry[e].data
                            /\ entry'[e].dirty = entry[e].dirty,
         disk' = disk
  PROVE  CleanWritten'
<1>1. pc \in [Agents -> {"idle", "off"} \cup AccessPCs \cup FlushPCs]
  BY DEF IInv, TypeOK
<1>2. SUFFICES ASSUME NEW e \in Entries, entry'[e].dirty = 0 PROVE Written(e)' \/ Unmarked(e)'
  BY DEF CleanWritten
<1>3. Written(e) \/ Unmarked(e)
  BY <1>2 DEF CleanWritten
<1>4. CASE Written(e)
  BY <1>4 DEF Written
<1>5. CASE Unmarked(e)
  <2>1. PICK u \in Threads : \/ pc[u] = "fill" /\ Sector(u) = entry[e].holder
                             \/ pc[u] = "mark" /\ request[u].kind = "write" /\ in_ram[u] = e
    BY <1>5 DEF Unmarked
  <2>2. u # t /\ pc'[u] = pc[u] /\ request'[u] = request[u] /\ in_ram'[u] = in_ram[u]
    BY <1>1, <2>1 DEF Agents
  <2>. QED BY <2>1, <2>2 DEF Unmarked, Sector
<1>. QED BY <1>3, <1>4, <1>5

\* The counting of requests: no more are in place than there are.
LEMMA SpentFinite ==
  ASSUME Undisturbed
  PROVE  /\ IsFiniteSet(Spent) /\ Cardinality(Spent) \in Nat
         /\ Cardinality(Spent) < DirtyMod
<1>1. IsFiniteSet(1 .. MaxRequests) /\ Cardinality(1 .. MaxRequests) = MaxRequests
  BY FS_Interval, CacheAssumption
<1>2. /\ IsFiniteSet(Threads \X (1 .. MaxRequests))
      /\ Cardinality(Threads \X (1 .. MaxRequests)) = Cardinality(Threads) * MaxRequests
  BY <1>1, FS_Product DEF Undisturbed
<1>3. Spent \in SUBSET (Threads \X (1 .. MaxRequests))
  BY DEF Spent
<1>4. IsFiniteSet(Spent) /\ Cardinality(Spent) <= Cardinality(Threads \X (1 .. MaxRequests))
  BY <1>2, <1>3, FS_Subset
<1>5. Cardinality(Spent) \in Nat /\ Cardinality(Threads \X (1 .. MaxRequests)) \in Nat
  BY <1>2, <1>4, FS_CardinalityType
<1>. QED BY <1>2, <1>4, <1>5, CacheAssumption DEF Undisturbed

\* A request under way is not counted yet, so there is room to count it.
LEMMA RoomLeft ==
  ASSUME IInv, DirtyCounted, Undisturbed, NEW t \in Threads, pc[t] \notin {"idle", "unlock"}
  PROVE  \A e \in Entries : entry[e].dirty + 1 < DirtyMod
<1>. DEFINE All == Threads \X (1 .. MaxRequests)
<1>1. budget[t] + 1 \in 1 .. MaxRequests
  BY CacheAssumption DEF DirtyCounted, Pending, IInv, TypeOK, Agents
<1>2. <<t, budget[t] + 1>> \in All /\ <<t, budget[t] + 1>> \notin Spent
  BY <1>1 DEF Spent, Pending
<1>3. Spent \in SUBSET All /\ Spent # All
  BY <1>2 DEF Spent
<1>4. IsFiniteSet(1 .. MaxRequests) /\ Cardinality(1 .. MaxRequests) = MaxRequests
  BY FS_Interval, CacheAssumption
<1>5. IsFiniteSet(All) /\ Cardinality(All) = Cardinality(Threads) * MaxRequests
  BY <1>4, FS_Product DEF Undisturbed
<1>6. Cardinality(Spent) <= Cardinality(All) /\ Cardinality(Spent) # Cardinality(All)
  BY <1>3, <1>5, FS_Subset
<1>7. Cardinality(Spent) \in Nat /\ Cardinality(All) \in Nat
  BY <1>5, SpentFinite, FS_CardinalityType
<1>8. \A e \in Entries : entry[e].dirty \in Nat /\ entry[e].dirty <= Cardinality(Spent)
  BY EntryTyped, CacheAssumption DEF IInv, EntryType, DirtyCounted
<1>9. Cardinality(All) < DirtyMod
  BY <1>5 DEF Undisturbed
<1>. HIDE DEF All
<1>. QED BY <1>6, <1>7, <1>8, <1>9, CacheAssumption

\* A step that puts no data in place, and makes no entry dirtier.
LEMMA CountKept ==
  ASSUME IInv, DirtyCounted, Undisturbed,
         \A t \in Threads : budget'[t] + Pending(t)' = budget[t] + Pending(t),
         \A e \in Entries : entry'[e].dirty \in Nat /\ entry'[e].dirty <= entry[e].dirty,
         pc'[Main] = "idle"
  PROVE  DirtyCounted'
<1>1. Spent' = Spent
  BY DEF Spent
<1>2. \A e \in Entries : entry[e].dirty \in Nat
  BY EntryTyped, CacheAssumption DEF IInv, EntryType
<1>3. Cardinality(Spent) \in Nat
  BY SpentFinite
<1>4. \A e \in Entries : entry'[e].dirty <= Cardinality(Spent)
  BY <1>2, <1>3 DEF DirtyCounted
<1>. QED BY <1>1, <1>4 DEF DirtyCounted

\* A request puts its data in place, and dirty counts it at most once.
LEMMA CountUp ==
  ASSUME IInv, DirtyCounted, Undisturbed, NEW t \in Threads, pc[t] \notin {"idle", "unlock"},
         pc' = [pc EXCEPT ![t] = "unlock"], budget' = budget,
         \A e \in Entries : entry'[e].dirty \in Nat /\ entry'[e].dirty <= entry[e].dirty + 1,
         pc'[Main] = "idle"
  PROVE  DirtyCounted'
<1>1. pc \in [Agents -> {"idle", "off"} \cup AccessPCs \cup FlushPCs]
      /\ \A u \in Threads : budget[u] \in Nat
  BY CacheAssumption DEF IInv, TypeOK, Agents
<1>2. Pending(t) = 1 /\ Pending(t)' = 0 /\ \A u \in Threads \ {t} : Pending(u)' = Pending(u)
  BY <1>1 DEF Pending, Agents
<1>3. \A u \in Threads : Pending(u) \in {0, 1}
  BY DEF Pending
<1>4. budget[t] + 1 \in 1 .. MaxRequests
  BY <1>1, <1>2, CacheAssumption DEF DirtyCounted
<1>5. Spent' = Spent \cup {<<t, budget[t] + 1>>}
  <2>1. ASSUME NEW u \in Threads, NEW k \in 1 .. MaxRequests, u # t
        PROVE  <<u, k>> \in Spent' <=> <<u, k>> \in Spent
    BY <1>2, <2>1 DEF Spent
  <2>2. ASSUME NEW k \in 1 .. MaxRequests
        PROVE  <<t, k>> \in Spent' <=> <<t, k>> \in Spent \/ k = budget[t] + 1
    <3>1. <<t, k>> \in Spent <=> k > budget[t] + 1
      BY <1>2 DEF Spent
    <3>2. <<t, k>> \in Spent' <=> k > budget[t] + 0
      BY <1>2 DEF Spent
    <3>. QED BY <3>1, <3>2, <1>1
  <2>. QED BY <2>1, <2>2, <1>4 DEF Spent
<1>6. <<t, budget[t] + 1>> \notin Spent
  BY <1>1, <1>2 DEF Spent
<1>7. Cardinality(Spent') = Cardinality(Spent) + 1 /\ Cardinality(Spent) \in Nat
  BY <1>5, <1>6, SpentFinite, FS_AddElement
<1>8. \A e \in Entries : entry[e].dirty \in Nat
  BY EntryTyped, CacheAssumption DEF IInv, EntryType
<1>9. \A e \in Entries : entry'[e].dirty <= Cardinality(Spent')
  BY <1>7, <1>8 DEF DirtyCounted
<1>10. \A u \in Threads : budget'[u] + Pending(u)' <= MaxRequests
  BY <1>1, <1>2, <1>3, CacheAssumption DEF DirtyCounted
<1>. QED BY <1>9, <1>10 DEF DirtyCounted

\* A step of the shutdown counts nothing.
LEMMA MainCount ==
  ASSUME DirtyCounted, Undisturbed,
         \A t \in Threads : pc'[t] = pc[t] /\ budget'[t] = budget[t],
         \A e \in Entries : entry'[e].dirty <= Cardinality(Spent),
         pc'[Main] \in {"f_write", "f_dirty"} => Cardinality(Spent) # 0
  PROVE  DirtyCounted'
<1>1. \A t \in Threads : Pending(t)' = Pending(t)
  BY DEF Pending
<1>2. Spent' = Spent
  BY <1>1 DEF Spent
<1>. QED BY <1>1, <1>2 DEF DirtyCounted

-----------------------------------------------------------------------------
\* One lemma for each kind of step: it keeps the invariant.

\* A request starts, searches or ends.
LEMMA SearchKeeps ==
  ASSUME IInv, SInv, Undisturbed, NEW t \in Threads,
         \/ ReadLock(t) \/ UpgradeBegin(t) \/ UpgradeEnd(t) \/ EvictFail(t)
         \/ EvictTry(t) \/ Claimed(t) \/ Unlock(t)
  PROVE  SInv'
<1>. USE DEF Goto
<1>1. pc \in [Agents -> {"idle", "off"} \cup AccessPCs \cup FlushPCs] /\ t \in Agents
      /\ entry \in [Entries -> EntryType] /\ in_ram \in [Agents -> Entries \cup {Nobody}]
  BY EntryTyped DEF IInv, TypeOK, Agents
<1>2. disk' = disk /\ request' = request /\ budget' = budget
  BY DEF ReadLock, UpgradeBegin, UpgradeEnd, EvictFail, EvictTry, Claimed, Unlock
<1>3. \A u \in Threads \ {t} : in_ram'[u] = in_ram[u]
  <2>1. in_ram' = in_ram \/ \E k : in_ram' = [in_ram EXCEPT ![t] = k]
    BY DEF ReadLock, UpgradeBegin, UpgradeEnd, EvictFail, EvictTry, Claimed, Unlock
  <2>. QED BY <1>1, <2>1 DEF Agents
<1>4. \A e \in Entries : /\ entry'[e].holder = entry[e].holder
                         /\ entry'[e].data = entry[e].data
                         /\ entry'[e].dirty = entry[e].dirty
  <2>1. CASE ReadLock(t) \/ UpgradeBegin(t) \/ UpgradeEnd(t) \/ EvictFail(t) \/ Unlock(t)
    BY <2>1 DEF ReadLock, UpgradeBegin, UpgradeEnd, EvictFail, Unlock
  <2>2. CASE EvictTry(t)
    <3>1. entry' = entry \/ entry' = [entry EXCEPT ![evict_I].lock = t]
      BY <2>2 DEF EvictTry
    <3>. QED BY <3>1, <1>1 DEF EntryType
  <2>3. CASE Claimed(t)
    <3>1. \/ entry' = entry
          \/ entry' = [entry EXCEPT ![in_ram[t]].lock = Nobody]
          \/ entry' = [entry EXCEPT ![in_ram[t]].accessed = FALSE, ![in_ram[t]].lock = Nobody]
      BY <2>3 DEF Claimed
    <3>. QED BY <3>1, <1>1 DEF EntryType
  <2>. QED BY <2>1, <2>2, <2>3
<1>5. \E l \in {"idle"} \cup AccessPCs :
        /\ pc' = [pc EXCEPT ![t] = l] /\ pc[t] \notin {"idle", "fill", "mark"}
        /\ pc[t] = "unlock" <=> l = "idle"
        /\ l # "unlock"
  <2>1. request[t].kind # "ahead"
    BY DEF SInv, Roles
  <2>2. CASE ReadLock(t) \/ UpgradeBegin(t) \/ UpgradeEnd(t)
    BY <2>1, <2>2 DEF ReadLock, UpgradeBegin, UpgradeEnd, Cached, AccessPCs
  <2>3. CASE EvictFail(t) \/ Unlock(t)
    BY <2>1, <2>3 DEF EvictFail, Unlock, AccessPCs
  <2>4. CASE EvictTry(t)
    BY <1>1, <2>4 DEF EvictTry, AccessPCs
  <2>5. CASE Claimed(t)
    BY <2>5 DEF Claimed, AccessPCs
  <2>. QED BY <2>2, <2>3, <2>4, <2>5
<1>6. PICK l \in {"idle"} \cup AccessPCs :
        /\ pc' = [pc EXCEPT ![t] = l] /\ pc[t] \notin {"idle", "fill", "mark"}
        /\ pc[t] = "unlock" <=> l = "idle"
        /\ l # "unlock"
  BY <1>5
<1>7. pc[Main] = "idle" /\ pc'[Main] = "idle" /\ Roles' /\ PassedWritten'
  <2>1. \A u \in Threads : request'[u].kind \in {"read", "write"}
    BY <1>2 DEF SInv, Roles
  <2>2. Roles
    BY DEF SInv
  <2>. QED BY <1>6, <2>1, <2>2, ThreadRoles
<1>8. CleanWritten'
  BY <1>2, <1>3, <1>4, <1>6, <1>7, CleanKept DEF SInv
<1>9. DirtyCounted'
  <2>1. \A u \in Threads : Pending(u)' = Pending(u)
    BY <1>1, <1>6 DEF Pending, Agents
  <2>2. \A e \in Entries : entry'[e].dirty \in Nat /\ entry'[e].dirty <= entry[e].dirty
    BY <1>1, <1>4, CacheAssumption DEF EntryType
  <2>3. \A u \in Threads : budget'[u] + Pending(u)' = budget[u] + Pending(u)
    BY <1>2, <2>1
  <2>. QED BY <1>7, <2>2, <2>3, CountKept DEF SInv
<1>. QED BY <1>7, <1>8, <1>9 DEF SInv

\* A request begins.
LEMMA BeginKeepsStore ==
  ASSUME IInv, SInv, Undisturbed, NEW t \in Threads, NEW r \in Requests, r.kind # "ahead",
         Begin(t, r)
  PROVE  SInv'
<1>1. pc \in [Agents -> {"idle", "off"} \cup AccessPCs \cup FlushPCs] /\ t \in Agents
      /\ entry \in [Entries -> EntryType] /\ request \in [Agents -> Requests]
      /\ budget \in [Agents -> 0 .. MaxRequests + MaxRounds + 1]
  BY EntryTyped DEF IInv, TypeOK, Agents
<1>2. /\ disk' = disk /\ entry' = entry /\ in_ram' = in_ram
      /\ request' = [request EXCEPT ![t] = r] /\ budget' = [budget EXCEPT ![t] = @ - 1]
      /\ pc' = [pc EXCEPT ![t] = "lock"] /\ pc[t] = "idle" /\ budget[t] > 0
  BY DEF Begin, Goto
<1>3. \A u \in Threads \ {t} : request'[u] = request[u]
  BY <1>1, <1>2 DEF Agents
<1>4. pc[Main] = "idle" /\ pc'[Main] = "idle" /\ Roles' /\ PassedWritten'
  <2>1. \A u \in Threads : request'[u].kind \in {"read", "write"}
    BY <1>1, <1>2, <1>3 DEF SInv, Roles, Requests
  <2>2. Roles /\ "lock" \in AccessPCs /\ budget[t] # 0
    BY <1>1, <1>2, CacheAssumption DEF SInv, AccessPCs
  <2>. QED BY <1>2, <2>1, <2>2, ThreadRoles
<1>5. CleanWritten'
  BY <1>2, <1>3, <1>4, CleanKept DEF SInv
<1>6. DirtyCounted'
  <2>1. \A u \in Threads : budget'[u] + Pending(u)' = budget[u] + Pending(u)
    <3>1. Pending(t) = 0 /\ Pending(t)' = 1 /\ \A u \in Threads \ {t} : Pending(u)' = Pending(u)
      BY <1>1, <1>2 DEF Pending, Agents
    <3>2. budget'[t] = budget[t] - 1 /\ \A u \in Threads \ {t} : budget'[u] = budget[u]
      BY <1>1, <1>2 DEF Agents
    <3>3. budget[t] \in Int
      BY <1>1
    <3>. QED BY <3>1, <3>2, <3>3
  <2>2. \A e \in Entries : entry'[e].dirty \in Nat /\ entry'[e].dirty <= entry[e].dirty
    BY <1>1, <1>2, CacheAssumption DEF EntryType
  <2>. QED BY <1>4, <2>1, <2>2, CountKept DEF SInv
<1>. QED BY <1>4, <1>5, <1>6 DEF SInv

\* The victim leaves the cache; another sector is given its entry.
LEMMA EvictionKeeps ==
  ASSUME IInv, SInv, Undisturbed, NEW t \in Threads, Flush(t) \/ Install(t) \/ Fill(t)
  PROVE  SInv'
<1>. USE DEF Goto
<1>. DEFINE e == in_ram[t]
            h == entry[e].holder
<1>1. pc \in [Agents -> {"idle", "off"} \cup AccessPCs \cup FlushPCs] /\ t \in Agents
      /\ entry \in [Entries -> EntryType] /\ disk \in [Sectors -> Contents]
  BY EntryTyped DEF IInv, TypeOK, Agents
<1>2. request' = request /\ budget' = budget /\ in_ram' = in_ram
  BY DEF Flush, Install, Fill
<1>3. \E l \in {"install", "fill", "copy"} : pc' = [pc EXCEPT ![t] = l]
  <2>1. request[t].kind # "ahead"
    BY DEF SInv, Roles
  <2>. QED BY <1>1, <2>1 DEF Flush, Install, Fill, Cached
<1>4. PICK l \in {"install", "fill", "copy"} : pc' = [pc EXCEPT ![t] = l]
  BY <1>3
<1>5. pc[t] \in {"flush", "install", "fill"} /\ e \in Entries
  <2>1. pc[t] \in {"flush", "install", "fill"}
    BY DEF Flush, Install, Fill
  <2>2. EntryLock(t) /\ Place(t)
    BY <1>1 DEF IInv, EntryLockOK, PlaceOK
  <2>. QED BY <2>1, <2>2 DEF EntryLock, EntryPCs, Place
<1>6. pc[Main] = "idle" /\ pc'[Main] = "idle" /\ Roles' /\ PassedWritten'
  <2>1. \A u \in Threads : request'[u].kind \in {"read", "write"}
    BY <1>2 DEF SInv, Roles
  <2>2. Roles /\ l \in AccessPCs
    BY DEF SInv, AccessPCs
  <2>. QED BY <1>4, <1>5, <2>1, <2>2, ThreadRoles
<1>7. DirtyCounted'
  <2>1. \A u \in Threads : budget'[u] + Pending(u)' = budget[u] + Pending(u)
    BY <1>1, <1>2, <1>4, <1>5 DEF Pending, Agents
  <2>2. \A b \in Entries : entry'[b].dirty \in Nat /\ entry'[b].dirty <= entry[b].dirty
    <3>1. \/ entry' = [entry EXCEPT ![e].holder = Nobody,
                                    ![e].dirty = IF entry[e].dirty # 0 THEN 1 ELSE 0]
          \/ entry' = [entry EXCEPT ![e].holder = Sector(t), ![e].lock = Nobody]
          \/ entry' = [entry EXCEPT ![e].data = disk[Sector(t)]]
      BY <1>1, <1>5 DEF Flush, Install, Fill, EntryType
    <3>2. \A b \in Entries : entry[b].dirty \in Nat
      BY <1>1, CacheAssumption DEF EntryType
    <3>. HIDE DEF e, h
    <3>. QED BY <3>1, <3>2, <1>1, <1>5 DEF EntryType
  <2>. QED BY <1>6, <2>1, <2>2, CountKept DEF SInv
<1>8. \A u \in Threads \ {t} : pc'[u] = pc[u]
  BY <1>1, <1>4 DEF Agents
<1>9. CleanWritten'
  <2>. SUFFICES ASSUME NEW b \in Entries, entry'[b].dirty = 0 PROVE Written(b)' \/ Unmarked(b)'
    BY DEF CleanWritten
  <2>1. CASE Flush(t)
    <3>1. pc[t] = "flush" /\ h \in Sectors /\ addr[h] = e
      BY <2>1, <1>5, CacheAssumption DEF Flush, IInv, SectorLockOK, SectorLock, MapsAgree, Agents
    <3>2. entry' = [entry EXCEPT ![e].holder = Nobody,
                                 ![e].dirty = IF entry[e].dirty # 0 THEN 1 ELSE 0]
      BY <2>1, <1>1, <1>5 DEF Flush, EntryType
    <3>3. CASE b = e
      BY <3>2, <3>3, <1>1, <1>5 DEF Written, EntryType
    <3>4. CASE b # e
      <4>1. entry'[b] = entry[b]
        BY <3>2, <3>4, <1>1, <1>5
      <4>2. entry[b].holder # h
        BY <3>1, <3>4 DEF IInv, MapsAgree
      <4>3. \A z \in Sectors \ {h} : disk'[z] = disk[z]
        BY <2>1, <1>1 DEF Flush
      <4>4. entry[b].holder \in Sectors \cup {Nobody}
        BY <1>1 DEF EntryType
      <4>5. Written(b) \/ Unmarked(b)
        BY <4>1 DEF SInv, CleanWritten
      <4>6. CASE Written(b)
        BY <4>1, <4>2, <4>3, <4>4, <4>6 DEF Written
      <4>7. CASE Unmarked(b)
        <5>1. PICK u \in Threads : \/ pc[u] = "fill" /\ Sector(u) = entry[b].holder
                                   \/ pc[u] = "mark" /\ request[u].kind = "write" /\ in_ram[u] = b
          BY <4>7, <1>6 DEF Unmarked
        <5>2. pc'[u] = pc[u]
          BY <5>1, <3>1, <1>8
        <5>. QED BY <5>1, <5>2, <1>2, <4>1 DEF Unmarked, Sector
      <4>. QED BY <4>5, <4>6, <4>7
    <3>. QED BY <3>3, <3>4
  <2>2. CASE Install(t)
    <3>1. pc[t] = "install" /\ disk' = disk
      BY <2>2 DEF Install
    <3>2. entry' = [entry EXCEPT ![e].holder = Sector(t), ![e].lock = Nobody]
      BY <2>2 DEF Install
    <3>3. CASE b = e
      <4>1. pc'[t] = "fill"
        BY <2>2, <1>1 DEF Install
      <4>2. entry'[b].holder = Sector(t)
        BY <3>2, <3>3, <1>1, <1>5 DEF EntryType
      <4>. QED BY <4>1, <4>2, <1>2 DEF Unmarked, Sector
    <3>4. CASE b # e
      <4>1. entry'[b] = entry[b]
        BY <3>2, <3>4, <1>1, <1>5
      <4>2. Written(b) \/ Unmarked(b)
        BY <4>1 DEF SInv, CleanWritten
      <4>3. CASE Unmarked(b)
        <5>1. PICK u \in Threads : \/ pc[u] = "fill" /\ Sector(u) = entry[b].holder
                                   \/ pc[u] = "mark" /\ request[u].kind = "write" /\ in_ram[u] = b
          BY <4>3, <1>6 DEF Unmarked
        <5>2. pc'[u] = pc[u]
          BY <5>1, <3>1, <1>8
        <5>. QED BY <5>1, <5>2, <1>2, <4>1 DEF Unmarked, Sector
      <4>. QED BY <4>1, <4>2, <4>3, <3>1 DEF Written
    <3>. QED BY <3>3, <3>4
  <2>3. CASE Fill(t)
    <3>1. pc[t] = "fill" /\ disk' = disk
      BY <2>3 DEF Fill
    <3>2. entry' = [entry EXCEPT ![e].data = disk[Sector(t)]]
      BY <2>3 DEF Fill
    <3>3. Sector(t) \in Sectors /\ entry[e].holder = Sector(t)
      BY <3>1, <1>1, <1>5 DEF IInv, PlaceOK, Place, MapsAgree, TypeOK, Requests, Sector
    <3>4. CASE b = e
      <4>1. entry'[b].holder = Sector(t) /\ entry'[b].data = disk[Sector(t)]
        BY <3>2, <3>3, <3>4, <1>1, <1>5 DEF EntryType
      <4>. QED BY <4>1, <3>1 DEF Written
    <3>5. CASE b # e
      <4>1. entry'[b] = entry[b]
        BY <3>2, <3>5, <1>1, <1>5
      <4>2. Written(b) \/ Unmarked(b)
        BY <4>1 DEF SInv, CleanWritten
      <4>3. CASE Unmarked(b)
        <5>1. PICK u \in Threads : \/ pc[u] = "fill" /\ Sector(u) = entry[b].holder
                                   \/ pc[u] = "mark" /\ request[u].kind = "write" /\ in_ram[u] = b
          BY <4>3, <1>6 DEF Unmarked
        <5>2. entry[b].holder # Sector(t)
          BY <3>3, <3>5, <1>5 DEF IInv, MapsAgree
        <5>3. pc'[u] = pc[u]
          BY <5>1, <5>2, <3>1, <1>8
        <5>. QED BY <5>1, <5>3, <1>2, <4>1 DEF Unmarked, Sector
      <4>. QED BY <4>1, <4>2, <4>3, <3>1 DEF Written
    <3>. QED BY <3>4, <3>5
  <2>. QED BY <2>1, <2>2, <2>3
<1>. QED BY <1>6, <1>7, <1>9 DEF SInv

\* The copy makes the entry differ from the disk before it marks it dirty; the
\* thread that is about to mark it is known.
LEMMA CopyKeepsStore ==
  ASSUME IInv, SInv, Undisturbed, NEW t \in Threads, Copy(t)
  PROVE  SInv'
<1>. DEFINE e == in_ram[t]
            g == request[t].segment
<1>1. pc \in [Agents -> {"idle", "off"} \cup AccessPCs \cup FlushPCs] /\ t \in Agents
      /\ entry \in [Entries -> EntryType] /\ pc[t] = "copy"
  BY EntryTyped DEF IInv, TypeOK, Agents, Copy
<1>2. /\ request' = request /\ budget' = budget /\ in_ram' = in_ram /\ disk' = disk
      /\ pc' = [pc EXCEPT ![t] = "mark"]
  BY DEF Copy, Goto
<1>3. e \in Entries
  BY <1>1 DEF IInv, PlaceOK, Place
<1>4. \/ request[t].kind = "read" /\ entry' = entry
      \/ /\ request[t].kind = "write"
         /\ entry' = [entry EXCEPT ![e].data = [@ EXCEPT ![g] = request[t].value]]
  BY DEF Copy
<1>5. \A b \in Entries : entry'[b].dirty = entry[b].dirty /\ entry'[b].holder = entry[b].holder
  BY <1>1, <1>3, <1>4 DEF EntryType
<1>6. pc[Main] = "idle" /\ pc'[Main] = "idle" /\ Roles' /\ PassedWritten'
  <2>1. \A u \in Threads : request'[u].kind \in {"read", "write"}
    BY <1>2 DEF SInv, Roles
  <2>2. Roles /\ "mark" \in AccessPCs
    BY DEF SInv, AccessPCs
  <2>. QED BY <1>1, <1>2, <2>1, <2>2, ThreadRoles
<1>7. DirtyCounted'
  <2>1. \A u \in Threads : budget'[u] + Pending(u)' = budget[u] + Pending(u)
    BY <1>1, <1>2 DEF Pending, Agents
  <2>2. \A b \in Entries : entry'[b].dirty \in Nat /\ entry'[b].dirty <= entry[b].dirty
    BY <1>1, <1>5, CacheAssumption DEF EntryType
  <2>. QED BY <1>6, <2>1, <2>2, CountKept DEF SInv
<1>8. CleanWritten'
  <2>. SUFFICES ASSUME NEW b \in Entries, entry'[b].dirty = 0 PROVE Written(b)' \/ Unmarked(b)'
    BY DEF CleanWritten
  <2>1. CASE b = e /\ request[t].kind = "write"
    BY <2>1, <1>1, <1>2 DEF Unmarked
  <2>2. CASE ~ (b = e /\ request[t].kind = "write")
    <3>1. entry'[b] = entry[b]
      BY <2>2, <1>1, <1>3, <1>4
    <3>2. Written(b) \/ Unmarked(b)
      BY <3>1 DEF SInv, CleanWritten
    <3>3. CASE Unmarked(b)
      <4>1. PICK u \in Threads : \/ pc[u] = "fill" /\ Sector(u) = entry[b].holder
                                 \/ pc[u] = "mark" /\ request[u].kind = "write" /\ in_ram[u] = b
        BY <3>3, <1>6 DEF Unmarked
      <4>2. pc'[u] = pc[u]
        BY <4>1, <1>1, <1>2 DEF Agents
      <4>. QED BY <4>1, <4>2, <1>2, <3>1 DEF Unmarked, Sector
    <3>. QED BY <3>1, <3>2, <3>3, <1>2 DEF Written
  <2>. QED BY <2>1, <2>2
<1>. QED BY <1>6, <1>7, <1>8 DEF SInv

\* dirty++ does not wrap: it counts requests of which there are too few.
LEMMA MarkKeepsStore ==
  ASSUME IInv, SInv, Undisturbed, NEW t \in Threads, Mark(t)
  PROVE  SInv'
<1>. DEFINE e == in_ram[t]
            d == IF request[t].kind = "write" THEN (entry[e].dirty + 1) % DirtyMod
                 ELSE entry[e].dirty
<1>1. pc \in [Agents -> {"idle", "off"} \cup AccessPCs \cup FlushPCs] /\ t \in Agents
      /\ entry \in [Entries -> EntryType] /\ pc[t] = "mark"
  BY EntryTyped DEF IInv, TypeOK, Agents, Mark
<1>2. /\ request' = request /\ budget' = budget /\ in_ram' = in_ram /\ disk' = disk
      /\ pc' = [pc EXCEPT ![t] = "unlock"]
  BY DEF Mark, Goto
<1>3. e \in Entries
  BY <1>1 DEF IInv, PlaceOK, Place
<1>4. entry' = [entry EXCEPT ![e].accessed = TRUE, ![e].dirty = d]
  BY <1>1, <1>3 DEF Mark, EntryType
<1>5. \A b \in Entries : /\ entry'[b].data = entry[b].data /\ entry'[b].holder = entry[b].holder
                         /\ b # e => entry'[b].dirty = entry[b].dirty
  <2>. HIDE DEF d
  <2>. QED BY <1>1, <1>3, <1>4 DEF EntryType
<1>6. entry'[e].dirty = d
  <2>. HIDE DEF d
  <2>. QED BY <1>1, <1>3, <1>4 DEF EntryType
<1>7. pc[Main] = "idle" /\ pc'[Main] = "idle" /\ Roles' /\ PassedWritten'
  <2>1. \A u \in Threads : request'[u].kind \in {"read", "write"}
    BY <1>2 DEF SInv, Roles
  <2>2. Roles /\ "unlock" \in AccessPCs
    BY DEF SInv, AccessPCs
  <2>. QED BY <1>1, <1>2, <2>1, <2>2, ThreadRoles
<1>8. entry[e].dirty \in Nat /\ (d = entry[e].dirty \/ d = entry[e].dirty + 1)
      /\ (request[t].kind = "write" => d # 0)
  <2>1. entry[e].dirty \in Nat /\ DirtyMod \in Nat
    BY <1>1, <1>3, CacheAssumption DEF EntryType
  <2>2. entry[e].dirty + 1 < DirtyMod
    BY <1>1, <1>3, RoomLeft DEF SInv
  <2>3. (entry[e].dirty + 1) % DirtyMod = entry[e].dirty + 1
    BY <2>1, <2>2
  <2>. QED BY <2>1, <2>3
<1>9. DirtyCounted'
  <2>1. \A b \in Entries : entry'[b].dirty \in Nat /\ entry'[b].dirty <= entry[b].dirty + 1
    <3>1. ASSUME NEW b \in Entries PROVE entry[b].dirty \in Nat
      BY <1>1, CacheAssumption DEF EntryType
    <3>. HIDE DEF d
    <3>. QED BY <3>1, <1>5, <1>6, <1>8
  <2>2. pc[t] \notin {"idle", "unlock"}
    BY <1>1
  <2>. HIDE DEF e, d
  <2>. QED BY <1>2, <1>7, <2>1, <2>2, CountUp DEF SInv
<1>10. CleanWritten'
  <2>. SUFFICES ASSUME NEW b \in Entries, entry'[b].dirty = 0 PROVE Written(b)' \/ Unmarked(b)'
    BY DEF CleanWritten
  <2>1. entry[b].dirty = 0 /\ ~ (b = e /\ request[t].kind = "write")
    <3>. HIDE DEF d
    <3>1. CASE b = e
      BY <3>1, <1>6, <1>8
    <3>2. CASE b # e
      BY <3>2, <1>5
    <3>. QED BY <3>1, <3>2
  <2>2. Written(b) \/ Unmarked(b)
    BY <2>1 DEF SInv, CleanWritten
  <2>3. CASE Unmarked(b)
    <3>1. PICK u \in Threads : \/ pc[u] = "fill" /\ Sector(u) = entry[b].holder
                               \/ pc[u] = "mark" /\ request[u].kind = "write" /\ in_ram[u] = b
      BY <2>3, <1>7 DEF Unmarked
    <3>2. u # t
      BY <2>1, <3>1, <1>1
    <3>3. pc'[u] = pc[u]
      BY <3>2, <1>1, <1>2 DEF Agents
    <3>. QED BY <3>1, <3>3, <1>2, <1>5 DEF Unmarked, Sector
  <2>. QED BY <2>2, <2>3, <1>2, <1>5 DEF Written
<1>. QED BY <1>7, <1>9, <1>10 DEF SInv

\* A request that goes to the disk has no entry to disagree with.
LEMMA DirectKeepsStore ==
  ASSUME IInv, SInv, Undisturbed, NEW t \in Threads, Direct(t)
  PROVE  SInv'
<1>. DEFINE h == request[t].sector
<1>1. pc \in [Agents -> {"idle", "off"} \cup AccessPCs \cup FlushPCs] /\ t \in Agents
      /\ entry \in [Entries -> EntryType] /\ pc[t] = "direct" /\ disk \in [Sectors -> Contents]
  BY EntryTyped DEF IInv, TypeOK, Agents, Direct
<1>2. /\ request' = request /\ budget' = budget /\ in_ram' = in_ram /\ entry' = entry
      /\ pc' = [pc EXCEPT ![t] = "unlock"]
  BY DEF Direct, Goto
<1>3. h \in Sectors /\ addr[h] = Nobody
  BY <1>1, RequestType DEF IInv, PlaceOK, Place, Sector
<1>4. \A z \in Sectors \ {h} : disk'[z] = disk[z]
  BY <1>1 DEF Direct
<1>5. \A b \in Entries : entry[b].holder # h /\ entry[b].holder \in Sectors \cup {Nobody}
  BY <1>1, <1>3, CacheAssumption DEF IInv, MapsAgree, EntryType
<1>6. pc[Main] = "idle" /\ pc'[Main] = "idle" /\ Roles' /\ PassedWritten'
  <2>1. \A u \in Threads : request'[u].kind \in {"read", "write"}
    BY <1>2 DEF SInv, Roles
  <2>2. Roles /\ "unlock" \in AccessPCs
    BY DEF SInv, AccessPCs
  <2>. QED BY <1>1, <1>2, <2>1, <2>2, ThreadRoles
<1>7. DirtyCounted'
  <2>1. \A b \in Entries : entry'[b].dirty \in Nat /\ entry'[b].dirty <= entry[b].dirty + 1
    BY <1>1, <1>2, CacheAssumption DEF EntryType
  <2>2. pc[t] \notin {"idle", "unlock"}
    BY <1>1
  <2>. QED BY <1>2, <1>6, <2>1, <2>2, CountUp DEF SInv
<1>8. CleanWritten'
  <2>. SUFFICES ASSUME NEW b \in Entries, entry'[b].dirty = 0 PROVE Written(b)' \/ Unmarked(b)'
    BY DEF CleanWritten
  <2>1. Written(b) \/ Unmarked(b)
    BY <1>2 DEF SInv, CleanWritten
  <2>2. CASE Written(b)
    BY <2>2, <1>2, <1>4, <1>5 DEF Written
  <2>3. CASE Unmarked(b)
    <3>1. PICK u \in Threads : \/ pc[u] = "fill" /\ Sector(u) = entry[b].holder
                               \/ pc[u] = "mark" /\ request[u].kind = "write" /\ in_ram[u] = b
      BY <2>3, <1>6 DEF Unmarked
    <3>2. pc'[u] = pc[u]
      BY <3>1, <1>1, <1>2 DEF Agents
    <3>. QED BY <3>1, <3>2, <1>2 DEF Unmarked, Sector
  <2>. QED BY <2>1, <2>2, <2>3
<1>. QED BY <1>6, <1>7, <1>8 DEF SInv

\* The steps of the shutdown, which has the cache for itself: it goes from entry
\* to entry and leaves each as the disk has it (fflush_all).
LEMMA ShutdownKeeps ==
  ASSUME IInv, SInv, Undisturbed,
         \/ filesys_done
         \/ FlushLock(Main) \/ FlushSwap(Main) \/ FlushWrite(Main) \/ FlushDirty(Main)
         \/ FlushUnlock(Main)
  PROVE  SInv'
<1>. USE DEF Goto
<1>. DEFINE e == in_ram[Main]
            h == entry[e].holder
<1>1. pc \in [Agents -> {"idle", "off"} \cup AccessPCs \cup FlushPCs] /\ Main \in Agents
      /\ entry \in [Entries -> EntryType] /\ in_ram \in [Agents -> Entries \cup {Nobody}]
      /\ disk \in [Sectors -> Contents] /\ budget \in [Agents -> 0 .. MaxRequests + MaxRounds + 1]
      /\ Main \notin Threads
  BY EntryTyped, MainAssumption DEF IInv, TypeOK, Agents
<1>2. request' = request
  BY DEF filesys_done, FlushBegin, FlushLock, FlushSwap, FlushWrite, FlushDirty, FlushUnlock
<1>3. \A t \in Threads : budget'[t] = budget[t]
  <2>1. budget' = budget \/ \E k : budget' = [budget EXCEPT ![Main] = k]
    BY DEF filesys_done, FlushBegin, FlushLock, FlushSwap, FlushWrite, FlushDirty, FlushUnlock
  <2>. QED BY <1>1, <2>1 DEF Agents
<1>4. \A t \in Threads : pc[t] = "idle" /\ budget[t] = 0
  <2>1. CASE filesys_done
    BY <2>1 DEF filesys_done
  <2>2. CASE ~ filesys_done
    <3>1. pc[Main] # "idle"
      BY <2>2 DEF FlushLock, FlushSwap, FlushWrite, FlushDirty, FlushUnlock
    <3>. QED BY <3>1 DEF SInv, Roles
  <2>. QED BY <2>1, <2>2
<1>5. \A b \in Entries : Unmarked(b) => pc[Main] = "f_write" /\ b = e
  BY <1>4 DEF Unmarked
<1>6. \A b \in Entries : entry[b].dirty \in 0 .. DirtyMod - 1
  BY <1>1 DEF EntryType
<1>7. Cardinality(Spent) \in Nat /\ \A b \in Entries : entry[b].dirty <= Cardinality(Spent)
  BY SpentFinite DEF SInv, DirtyCounted
<1>8. pc[Main] \in FlushPCs => e \in Entries
  BY <1>1 DEF IInv, EntryLockOK, EntryLock, EntryPCs, FlushPCs
<1>9. ASSUME NEW l \in {"off"} \cup FlushPCs, pc' = [pc EXCEPT ![Main] = l],
             CleanWritten', PassedWritten',
             \A b \in Entries : entry'[b].dirty <= Cardinality(Spent),
             l \in {"f_write", "f_dirty"} => Cardinality(Spent) # 0
      PROVE  SInv'
  <2>1. Roles' /\ pc'[Main] = l /\ \A t \in Threads : pc'[t] = "idle"
    <3>1. Roles
      BY DEF SInv
    <3>. QED BY ONLY <3>1, IInv, <1>2, <1>3, <1>4, <1>9, MainRoles
  <2>2. DirtyCounted'
    BY <2>1, <1>3, <1>4, <1>9, MainCount DEF SInv
  <2>. QED BY <2>1, <2>2, <1>9 DEF SInv
<1>10. CASE filesys_done
  <2>1. /\ pc' = [pc EXCEPT ![Main] = "f_lock"] /\ in_ram' = [in_ram EXCEPT ![Main] = 0]
        /\ entry' = entry /\ disk' = disk /\ pc[Main] = "idle"
    BY <1>10 DEF filesys_done, FlushBegin
  <2>2. pc'[Main] = "f_lock" /\ in_ram'[Main] = 0
    BY <2>1, <1>1
  <2>3. CleanWritten'
    <3>1. \A b \in Entries : entry[b].dirty = 0 => Written(b)
      BY <1>5, <2>1 DEF SInv, CleanWritten
    <3>. QED BY <2>1, <3>1 DEF CleanWritten, Written
  <2>4. PassedWritten'
    <3>1. \A b \in Entries : ~ (b < 0)
      BY DEF Entries
    <3>. QED BY <2>2, <3>1 DEF PassedWritten, Passed
  <2>. QED BY <1>7, <1>9, <2>1, <2>3, <2>4 DEF FlushPCs
<1>11. CASE FlushLock(Main)
  <2>1. /\ entry' = [entry EXCEPT ![e].lock = Main] /\ disk' = disk /\ in_ram' = in_ram
        /\ pc[Main] = "f_lock"
    BY <1>11 DEF FlushLock
  <2>2. \A b \in Entries : /\ entry'[b].holder = entry[b].holder
                           /\ entry'[b].data = entry[b].data /\ entry'[b].dirty = entry[b].dirty
    BY <1>1, <2>1, <1>8 DEF EntryType, FlushPCs
  <2>3. PICK l \in {"f_swap", "f_unlock"} : /\ pc' = [pc EXCEPT ![Main] = l]
                                            /\ l = "f_unlock" => h = Nobody
    BY <1>11 DEF FlushLock
  <2>4. pc'[Main] = l
    BY <1>1, <2>3
  <2>5. CleanWritten'
    <3>1. \A b \in Entries : entry[b].dirty = 0 => Written(b)
      BY <1>5, <2>1 DEF SInv, CleanWritten
    <3>. QED BY <2>1, <2>2, <3>1 DEF CleanWritten, Written
  <2>6. PassedWritten'
    <3>1. ASSUME NEW b \in Entries, Passed(b)' PROVE Written(b)'
      <4>1. b < e \/ (b = e /\ h = Nobody)
        BY <3>1, <2>1, <2>3, <2>4 DEF Passed
      <4>2. Written(b)
        BY <4>1, <2>1 DEF SInv, PassedWritten, Passed, FlushPCs, Written
      <4>. QED BY <4>2, <2>1, <2>2 DEF Written
    <3>. QED BY <3>1 DEF PassedWritten
  <2>. QED BY <1>7, <1>9, <2>2, <2>3, <2>5, <2>6 DEF FlushPCs
<1>12. CASE FlushSwap(Main)
  <2>1. /\ entry' = [entry EXCEPT ![e].dirty = 0] /\ disk' = disk /\ in_ram' = in_ram
        /\ pc[Main] = "f_swap"
    BY <1>12 DEF FlushSwap
  <2>2. e \in Entries /\ 0 \in 0 .. DirtyMod - 1
    BY <1>8, <2>1, CacheAssumption DEF FlushPCs
  <2>3. \A b \in Entries : /\ entry'[b].holder = entry[b].holder
                           /\ entry'[b].data = entry[b].data
                           /\ entry'[b].dirty = IF b = e THEN 0 ELSE entry[b].dirty
    BY <1>1, <2>1, <2>2 DEF EntryType
  <2>4. PICK l \in {"f_write", "f_unlock"} : /\ pc' = [pc EXCEPT ![Main] = l]
                                             /\ l = "f_unlock" <=> entry[e].dirty = 0
    BY <1>12 DEF FlushSwap
  <2>5. pc'[Main] = l
    BY <1>1, <2>4
  <2>6. \A b \in Entries : entry[b].dirty = 0 => Written(b)
    BY <1>5, <2>1 DEF SInv, CleanWritten
  <2>7. CleanWritten'
    <3>1. ASSUME NEW b \in Entries, entry'[b].dirty = 0 PROVE Written(b)' \/ Unmarked(b)'
      <4>1. CASE b = e /\ l = "f_write"
        BY <4>1, <2>1, <2>5 DEF Unmarked
      <4>2. CASE ~ (b = e /\ l = "f_write")
        <5>1. Written(b)
          BY <4>2, <3>1, <2>3, <2>4, <2>6
        <5>. QED BY <5>1, <2>1, <2>3 DEF Written
      <4>. QED BY <4>1, <4>2
    <3>. QED BY <3>1 DEF CleanWritten
  <2>8. PassedWritten'
    <3>1. ASSUME NEW b \in Entries, Passed(b)' PROVE Written(b)'
      <4>1. b < e \/ (b = e /\ entry[e].dirty = 0)
        BY <3>1, <2>1, <2>4, <2>5 DEF Passed
      <4>2. Written(b)
        BY <4>1, <2>1, <2>6 DEF SInv, PassedWritten, Passed, FlushPCs
      <4>. QED BY <4>2, <2>1, <2>3 DEF Written
    <3>. QED BY <3>1 DEF PassedWritten
  <2>9. \A b \in Entries : entry'[b].dirty <= Cardinality(Spent)
    BY <1>7, <2>3
  <2>10. l = "f_write" => Cardinality(Spent) # 0
    BY <1>6, <1>7, <2>2, <2>4
  <2>. QED BY <1>9, <2>4, <2>7, <2>8, <2>9, <2>10 DEF FlushPCs
<1>13. CASE FlushWrite(Main)
  <2>1. /\ disk' = [disk EXCEPT ![h] = entry[e].data] /\ entry' = entry /\ in_ram' = in_ram
        /\ pc[Main] = "f_write" /\ pc' = [pc EXCEPT ![Main] = "f_dirty"]
    BY <1>13 DEF FlushWrite
  <2>2. e \in Entries /\ h \in Sectors /\ addr[h] = e
    BY <1>1, <1>8, <2>1 DEF IInv, EntryLockOK, EntryLock, EntryType, MapsAgree, FlushPCs
  <2>3. ASSUME NEW b \in Entries, b = e PROVE Written(b)'
    BY <1>1, <2>1, <2>2, <2>3 DEF Written
  <2>4. ASSUME NEW b \in Entries, Written(b) PROVE Written(b)'
    <3>1. CASE b = e
      BY <3>1, <2>3
    <3>2. CASE b # e
      <4>1. entry[b].holder # h /\ entry[b].holder \in Sectors \cup {Nobody}
        BY <3>2, <2>2, <1>1 DEF IInv, MapsAgree, EntryType
      <4>. QED BY <4>1, <2>1, <2>4, <1>1 DEF Written
    <3>. QED BY <3>1, <3>2
  <2>5. pc'[Main] = "f_dirty"
    BY <1>1, <2>1
  <2>6. CleanWritten'
    <3>1. ASSUME NEW b \in Entries, entry'[b].dirty = 0 PROVE Written(b)'
      <4>1. CASE b = e
        BY <4>1, <2>3
      <4>2. CASE b # e
        BY <4>2, <3>1, <2>1, <2>4, <1>5 DEF SInv, CleanWritten
      <4>. QED BY <4>1, <4>2
    <3>. QED BY <3>1 DEF CleanWritten
  <2>7. PassedWritten'
    <3>1. ASSUME NEW b \in Entries, Passed(b)' PROVE Written(b)'
      <4>1. CASE b = e
        BY <4>1, <2>3
      <4>2. CASE b # e
        <5>1. b < e
          BY <3>1, <4>2, <2>1, <2>5 DEF Passed
        <5>2. Written(b)
          BY <5>1, <2>1 DEF SInv, PassedWritten, Passed, FlushPCs
        <5>. QED BY <5>2, <2>4
      <4>. QED BY <4>1, <4>2
    <3>. QED BY <3>1 DEF PassedWritten
  <2>8. Cardinality(Spent) # 0
    BY <2>1 DEF SInv, DirtyCounted
  <2>. QED BY <1>7, <1>9, <2>1, <2>6, <2>7, <2>8 DEF FlushPCs
<1>14. CASE FlushDirty(Main)
  <2>1. /\ entry' = [entry EXCEPT ![e].dirty = 1] /\ disk' = disk /\ in_ram' = in_ram
        /\ pc[Main] = "f_dirty" /\ pc' = [pc EXCEPT ![Main] = "f_unlock"]
    BY <1>14 DEF FlushDirty
  <2>2. e \in Entries
    BY <1>8, <2>1 DEF FlushPCs
  <2>3. \A b \in Entries : /\ entry'[b].holder = entry[b].holder
                           /\ entry'[b].data = entry[b].data
                           /\ entry'[b].dirty = IF b = e THEN 1 ELSE entry[b].dirty
    BY <1>1, <2>1, <2>2 DEF EntryType
  <2>4. pc'[Main] = "f_unlock"
    BY <1>1, <2>1
  <2>5. ASSUME NEW b \in Entries, Written(b) PROVE Written(b)'
    BY <2>1, <2>3, <2>5 DEF Written
  <2>6. CleanWritten'
    <3>1. \A b \in Entries : entry[b].dirty = 0 => Written(b)
      BY <1>5, <2>1 DEF SInv, CleanWritten
    <3>. QED BY <2>3, <2>5, <3>1 DEF CleanWritten
  <2>7. PassedWritten'
    <3>1. ASSUME NEW b \in Entries, Passed(b)' PROVE Written(b)'
      <4>1. b < e \/ b = e
        BY <3>1, <2>1, <2>4 DEF Passed
      <4>2. Written(b)
        BY <4>1, <2>1 DEF SInv, PassedWritten, Passed, FlushPCs
      <4>. QED BY <4>2, <2>5
    <3>. QED BY <3>1 DEF PassedWritten
  <2>8. \A b \in Entries : entry'[b].dirty <= Cardinality(Spent)
    <3>1. Cardinality(Spent) # 0
      BY <2>1 DEF SInv, DirtyCounted
    <3>. QED BY <1>7, <2>3, <3>1
  <2>. QED BY <1>9, <2>1, <2>6, <2>7, <2>8 DEF FlushPCs
<1>15. CASE FlushUnlock(Main)
  <2>1. entry' = [entry EXCEPT ![e].lock = Nobody] /\ disk' = disk /\ pc[Main] = "f_unlock"
    BY <1>15 DEF FlushUnlock
  <2>2. e \in Entries
    BY <1>8, <2>1 DEF FlushPCs
  <2>3. \A b \in Entries : /\ entry'[b].holder = entry[b].holder
                           /\ entry'[b].data = entry[b].data /\ entry'[b].dirty = entry[b].dirty
    BY <1>1, <2>1, <2>2 DEF EntryType
  <2>4. PICK l \in {"f_lock", "off"} :
          /\ pc' = [pc EXCEPT ![Main] = l]
          /\ l = "f_lock" => in_ram' = [in_ram EXCEPT ![Main] = e + 1]
          /\ l = "off" => e = BufferLen - 1
    BY <1>15 DEF FlushUnlock
  <2>5. pc'[Main] = l
    BY <1>1, <2>4
  <2>6. ASSUME NEW b \in Entries, Written(b) PROVE Written(b)'
    BY <2>1, <2>3, <2>6 DEF Written
  <2>7. CleanWritten'
    <3>1. \A b \in Entries : entry[b].dirty = 0 => Written(b)
      BY <1>5, <2>1 DEF SInv, CleanWritten
    <3>. QED BY <2>3, <2>6, <3>1 DEF CleanWritten
  <2>8. PassedWritten'
    <3>1. ASSUME NEW b \in Entries, Passed(b)' PROVE Written(b)'
      <4>1. b <= e
        <5>1. CASE l = "f_lock"
          <6>1. in_ram'[Main] = e + 1
            BY <5>1, <2>4, <1>1
          <6>2. b < in_ram'[Main]
            BY <5>1, <3>1, <2>5 DEF Passed
          <6>. QED BY <6>1, <6>2, <2>2 DEF Entries
        <5>2. CASE l = "off"
          BY <5>2, <2>4, CacheAssumption DEF Entries
        <5>. QED BY <5>1, <5>2
      <4>2. b < e \/ b = e
        BY <4>1, <2>2 DEF Entries
      <4>3. Written(b)
        BY <4>2, <2>1 DEF SInv, PassedWritten, Passed, FlushPCs
      <4>. QED BY <4>3, <2>6
    <3>. QED BY <3>1 DEF PassedWritten
  <2>. QED BY <1>7, <1>9, <2>3, <2>4, <2>7, <2>8 DEF FlushPCs
<1>. QED BY <1>10, <1>11, <1>12, <1>13, <1>14, <1>15

-----------------------------------------------------------------------------
LEMMA InitStore == ASSUME Init, Undisturbed PROVE SInv /\ Abstract!Init
<1>. USE CacheAssumption DEF Init
<1>1. \A a \in Agents : pc[a] = "idle"
  OBVIOUS
<1>2. Roles
  BY <1>1 DEF Roles, Agents
<1>3. CleanWritten
  BY DEF CleanWritten, Written
<1>4. PassedWritten
  BY DEF PassedWritten, Written
<1>5. DirtyCounted
  <2>1. \A t \in Threads : budget[t] = MaxRequests /\ Pending(t) = 0
    BY <1>1 DEF Pending, Agents
  <2>2. \A t \in Threads : budget[t] + Pending(t) <= MaxRequests
    <3>1. MaxRequests \in Nat
      OBVIOUS
    <3>. QED BY ONLY <2>1, <3>1
  <2>3. \A e \in Entries : entry[e].dirty = 0
    OBVIOUS
  <2>4. Cardinality(Spent) \in Nat
    BY SpentFinite
  <2>5. pc[Main] = "idle"
    BY <1>1 DEF Agents
  <2>. QED BY <2>2, <2>3, <2>4, <2>5 DEF DirtyCounted
<1>6. Abstract!Init
  <2>1. Store = [z \in Sectors |-> [g \in Segments |-> InitialValue]]
    BY DEF Store
  <2>2. [t \in Threads |-> request[t]] \in [Threads -> Abstract!Requests]
    <3>1. (CHOOSE z \in Sectors : TRUE) \in Sectors /\ (CHOOSE g \in Segments : TRUE) \in Segments
      OBVIOUS
    <3>2. ASSUME NEW t \in Threads PROVE request[t] \in Abstract!Requests
      BY <3>1, <3>2 DEF Agents, Abstract!Requests
    <3>. QED BY <3>2
  <2>3. [t \in Threads |-> Status(t)] = [t \in Threads |-> "none"]
    <3>1. \A t \in Threads : Status(t) = "none"
      BY <1>1 DEF Status, Agents
    <3>. QED BY <3>1
  <2>. QED BY <2>1, <2>2, <2>3 DEF Abstract!Init
<1>. QED BY <1>2, <1>3, <1>4, <1>5, <1>6 DEF SInv

\* Every step keeps the invariant and is one of the store, or none.
LEMMA NextStore ==
  ASSUME IInv, SInv, Undisturbed, [Next]_vars
  PROVE  SInv' /\ [Abstract!Next]_(Abstract!vars)
<1>. Flushers = {} /\ Roles /\ CleanWritten
  BY DEF Undisturbed, SInv
<1>1. ASSUME NEW t \in Threads, NEW r \in Requests, r.kind # "ahead", Begin(t, r)
      PROVE  SInv' /\ Abstract!Next
  BY <1>1, BeginKeepsStore, BeginStep DEF Abstract!Next
<1>2. CASE Start
  <2>1. CASE \E t \in Threads, z \in Sectors, g \in Segments :
               \/ cached_block_read_segment(t, z, g)
               \/ \E v \in Values : cached_block_write_segment(t, z, g, v)
    <3>1. PICK t \in Threads, z \in Sectors, g \in Segments :
               \/ cached_block_read_segment(t, z, g)
               \/ \E v \in Values : cached_block_write_segment(t, z, g, v)
      BY <2>1
    <3>2. CASE cached_block_read_segment(t, z, g)
      <4>. DEFINE r == [kind |-> "read", sector |-> z, segment |-> g, value |-> InitialValue]
      <4>1. r \in Requests /\ r.kind # "ahead" BY CacheAssumption DEF Requests
      <4>2. Begin(t, r) BY <3>2 DEF cached_block_read_segment
      <4>. HIDE DEF r
      <4>. QED BY <1>1, <4>1, <4>2
    <3>3. ASSUME NEW v \in Values, cached_block_write_segment(t, z, g, v)
          PROVE  SInv' /\ Abstract!Next
      <4>. DEFINE r == [kind |-> "write", sector |-> z, segment |-> g, value |-> v]
      <4>1. r \in Requests /\ r.kind # "ahead" BY DEF Requests
      <4>2. Begin(t, r) BY <3>3 DEF cached_block_write_segment
      <4>. HIDE DEF r
      <4>. QED BY <1>1, <4>1, <4>2
    <3>. QED BY <3>1, <3>2, <3>3
  <2>2. CASE filesys_done
    <3>1. SInv'
      BY <2>2, ShutdownKeeps
    <3>2. UNCHANGED Abstract!vars
      <4>1. /\ pc' = [pc EXCEPT ![Main] = "f_lock"] /\ pc[Main] = "idle" /\ disk' = disk
            /\ addr' = addr /\ entry' = entry /\ request' = request /\ got' = got
        BY <2>2 DEF filesys_done, FlushBegin, Goto
      <4>2. pc \in [Agents -> {"idle", "off"} \cup AccessPCs \cup FlushPCs] /\ Main \in Agents
            /\ Main \notin Threads
        BY MainAssumption DEF IInv, TypeOK, Agents
      <4>3. \A z \in Sectors : Filling(z)' <=> Filling(z)
        BY <4>1, <4>2, FillingKept
      <4>4. Store' = Store
        BY <4>1, <4>3, StoreKept
      <4>. QED BY ONLY <4>1, <4>2, <4>4, Invisible
    <3>. QED BY <3>1, <3>2
  <2>. QED BY <1>2, <2>1, <2>2 DEF Start
<1>3. ASSUME NEW a \in Agents, Step(a) PROVE SInv' /\ [Abstract!Next]_(Abstract!vars)
  <2>1. CASE a \in Threads
    <3>1. pc[a] \notin FlushPCs
      BY <2>1 DEF Roles, AccessPCs, FlushPCs
    <3>2. ~ (FlushLock(a) \/ FlushSwap(a) \/ FlushWrite(a) \/ FlushDirty(a) \/ FlushUnlock(a))
      BY <3>1 DEF FlushLock, FlushSwap, FlushWrite, FlushDirty, FlushUnlock, FlushPCs
    <3>3. CASE \/ ReadLock(a) \/ UpgradeBegin(a) \/ UpgradeEnd(a) \/ EvictFail(a)
               \/ EvictTry(a) \/ Claimed(a)
      BY <2>1, <3>3, SearchKeeps, QuietStep
    <3>4. CASE Flush(a) \/ Install(a) \/ Fill(a)
      BY <2>1, <3>4, EvictionKeeps, FlushStep, InstallStep, FillStep
    <3>5. CASE Copy(a)
      BY <2>1, <3>5, CopyKeepsStore, CopyStep DEF Abstract!Next
    <3>6. CASE Mark(a)
      BY <2>1, <3>6, MarkKeepsStore, QuietStep
    <3>7. CASE Direct(a)
      BY <2>1, <3>7, DirectKeepsStore, DirectStep DEF Abstract!Next
    <3>8. CASE Unlock(a)
      BY <2>1, <3>8, SearchKeeps, UnlockStep DEF Abstract!Next
    <3>. QED BY <1>3, <3>2, <3>3, <3>4, <3>5, <3>6, <3>7, <3>8 DEF Step
  <2>2. CASE a = Main
    <3>1. pc[a] \notin AccessPCs
      BY <2>2 DEF Roles, AccessPCs, FlushPCs
    <3>2. FlushLock(a) \/ FlushSwap(a) \/ FlushWrite(a) \/ FlushDirty(a) \/ FlushUnlock(a)
      BY <1>3, <3>1 DEF Step, ReadLock, UpgradeBegin, UpgradeEnd, EvictFail, EvictTry, Claimed,
         Flush, Install, Fill, Copy, Mark, Direct, Unlock, AccessPCs
    <3>3. SInv'
      BY <2>2, <3>2, ShutdownKeeps
    <3>4. UNCHANGED Abstract!vars
      BY <3>2, QuietStep, FlushWriteStep
    <3>. QED BY <3>3, <3>4
  <2>. QED BY <2>1, <2>2 DEF Agents
<1>4. CASE UNCHANGED vars
  <2>1. SInv'
    BY <1>4 DEF vars, SInv, Roles, CleanWritten, Written, Unmarked, Sector, PassedWritten, Passed,
       DirtyCounted, Spent, Pending
  <2>2. Store' = Store
    BY <1>4 DEF vars, Store, Filling, Sector
  <2>3. [t \in Threads |-> Status(t)]' = [t \in Threads |-> Status(t)]
    BY <1>4 DEF vars, Status
  <2>. QED BY <1>4, <2>1, <2>2, <2>3 DEF vars, Abstract!vars
<1>. QED BY <1>2, <1>3, <1>4 DEF Next, Done

\* DurableAtShutdown: what the threads wrote last is on the disk when the
\* machine goes off, whatever was evicted, read back and written again before
\* (filesys_done, fflush_all, evict), unless a flusher runs or so many writes are
\* made that the uint16_t dirty wraps.
THEOREM DurableAtShutdownHolds ==
  ASSUME Undisturbed PROVE Spec => []DurableAtShutdown
<1>1. IInv /\ SInv => DurableAtShutdown
  <2>. SUFFICES ASSUME IInv, SInv, pc[Main] = "off" PROVE disk = Store
    BY DEF DurableAtShutdown
  <2>1. \A t \in Threads : pc[t] = "idle"
    BY DEF SInv, Roles
  <2>2. \A z \in Sectors : ~ Filling(z)
    BY <2>1 DEF Filling, Agents, Undisturbed
  <2>3. ASSUME NEW z \in Sectors, addr[z] # Nobody PROVE entry[addr[z]].data = disk[z]
    <3>1. PICK e \in Entries : addr[z] = e
      BY <2>3 DEF IInv, TypeOK
    <3>2. entry[e].holder = z /\ z # Nobody
      BY <3>1, CacheAssumption DEF IInv, MapsAgree
    <3>3. Written(e)
      BY DEF SInv, PassedWritten, Passed
    <3>. QED BY <3>1, <3>2, <3>3 DEF Written
  <2>4. disk \in [Sectors -> Contents]
    BY DEF IInv, TypeOK
  <2>. QED BY <2>2, <2>3, <2>4 DEF Store
<1>2. Init => SInv BY InitStore
<1>3. IInv /\ SInv /\ [Next]_vars => SInv' BY NextStore
<1>. QED BY <1>1, <1>2, <1>3, Invariance, PTL DEF Spec

\* ImplementsStore: concurrent cached reads and writes are atomic operations on
\* an array of sectors, through misses, upgrades, evictions and requests that
\* find no entry (cached_block_read_segment, cached_block_write_segment), under
\* the same condition.
THEOREM CacheImplementsStore ==
  ASSUME Undisturbed PROVE Spec => ImplementsStore
<1>1. Init => SInv /\ Abstract!Init BY InitStore
<1>2. IInv /\ SInv /\ [Next]_vars => SInv' /\ [Abstract!Next]_(Abstract!vars) BY NextStore
<1>. QED BY <1>1, <1>2, Invariance, PTL DEF Spec, ImplementsStore, Abstract!Spec

-----------------------------------------------------------------------------
(***************************************************************************)
(* The read-ahead ring of the same file (ReadAhead), for every number of   *)
(* readers, size of the ring and size of the disk.                         *)
(*                                                                         *)
(* RingTypeOK is inductive by itself, and ValidSector with it: whatever is *)
(* in a slot, or in the memory behind the ring, get < Size was checked     *)
(* before read_ahead is called, and get % QUEUE_N is not larger than get.  *)
(***************************************************************************)

\* A slot number modulo QUEUE_N is a slot, and no larger than the number.
LEMMA ModRing ==
  ASSUME NEW n \in Nat, NEW k \in Nat \ {0}
  PROVE  n % k \in 0 .. k - 1 /\ n % k <= n
  OBVIOUS

\* The ring starts empty, its slots with whatever malloc has found there.
LEMMA RingInitTyped == RingInit => RingTypeOK /\ ValidSector
<1>. SUFFICES ASSUME RingInit PROVE RingTypeOK /\ ValidSector
  OBVIOUS
<1>1. QueueN \in 0 .. QueueN /\ 0 \in Word
  BY RingAssumption DEF Word
<1>. QED BY <1>1, RingAssumption DEF RingInit, RingTypeOK, ValidSector

\* The two halves of a request, and the flusher, keep the types.
LEMMA RingStepTyped == RingTypeOK /\ ValidSector /\ [RingNext]_ringVars => RingTypeOK' /\ ValidSector'
<1>. SUFFICES ASSUME RingTypeOK, ValidSector, [RingNext]_ringVars PROVE RingTypeOK' /\ ValidSector'
  OBVIOUS
<1>. USE RingAssumption DEF RingTypeOK, ValidSector, Word
<1>1. ASSUME NEW t \in Readers, NEW s \in 0 .. Size - 1, Reserve(t, s)
      PROVE  RingTypeOK' /\ ValidSector'
  <2>1. queue_e % QueueN \in 0 .. QueueN
    <3>1. queue_e \in Nat
      OBVIOUS
    <3>2. queue_e % QueueN \in 0 .. QueueN - 1
      BY <3>1, ModRing
    <3>. QED BY <3>2
  <2>2. s + 1 \in 0 .. Size
    BY <1>1 DEF Reserve
  <2>3. slot' \in [Readers -> 0 .. QueueN] /\ pushed' \in [Readers -> 0 .. Size]
    BY <1>1, <2>1, <2>2 DEF Reserve
  <2>. QED BY <1>1, <2>2, <2>3 DEF Reserve
<1>2. ASSUME NEW t \in Readers, FillSlot(t)
      PROVE  RingTypeOK' /\ ValidSector'
  <2>1. slot[t] \in 0 .. QueueN - 1 /\ pushed[t] \in 0 .. Size
    BY <1>2 DEF FillSlot
  <2>. QED BY <1>2, <2>1 DEF FillSlot
<1>3. CASE Take
  <2>1. PICK get \in Word : Call(get)
    BY <1>3 DEF Take
  <2>2. queue_s' \in Nat
    BY <2>1 DEF Call
  <2>3. ahead' \subseteq Word /\ \A s \in ahead' : s < Size
    <3>1. CASE get < Size /\ ahead' = {get % QueueN}
      <4>1. get \in Nat
        OBVIOUS
      <4>2. get % QueueN \in 0 .. QueueN - 1 /\ get % QueueN <= get
        BY <4>1, ModRing
      <4>3. get % QueueN \in 0 .. Size - 1
        BY <3>1, <4>1, <4>2
      <4>. QED BY <3>1, <4>3
    <3>2. CASE ahead' = {}
      BY <3>2
    <3>. QED BY <2>1, <3>1, <3>2 DEF Call
  <2>. QED BY <1>3, <2>2, <2>3 DEF Take
<1>4. CASE UNCHANGED ringVars
  BY <1>4 DEF ringVars
<1>. QED BY <1>1, <1>2, <1>3, <1>4 DEF RingNext

\* What every step keeps holds in every state.
LEMMA RingKept == RingSpec => [](RingTypeOK /\ ValidSector)
  BY RingInitTyped, RingStepTyped, PTL DEF RingSpec

\* A thread only ever fills a slot of the ring, although fetch_and_add counts
\* on without end (cached_block_read_segment).
THEOREM RingTyped == RingSpec => []RingTypeOK
  BY RingKept, PTL

\* Whatever the flusher reads from the ring or from the memory behind it,
\* read_ahead is called with a sector of the disk (fflusher).
THEOREM ValidSectorHolds == RingSpec => []ValidSector
  BY RingKept, PTL
=============================================================================
