------------------------------- MODULE Inode -------------------------------
(***************************************************************************)
(* One open inode (filesys/inode.c) that several threads read, write and   *)
(* extend, with the free map it allocates from (filesys/free-map.c).       *)
(*                                                                         *)
(* Every inode has a reader-writer lock.  Readers and writers both take    *)
(* it for reading; a writer that has to add blocks upgrades.  The lock is  *)
(* the one of RWLock, reduced to what its callers see (SharedLock): a      *)
(* thread that would wait is a thread whose step is not enabled.           *)
(*                                                                         *)
(* A file is a length and an index tree.  The tree has three levels of map *)
(* sectors above its data sectors; it is modelled as a function from the   *)
(* paths that exist to the sectors they are in: <<>> is the lvl1 sector,   *)
(* <<a>> and <<a, b>> the maps below it, <<a, b, c>> a data sector.        *)
(* The buffer cache below is a sector store (SectorStore), so that reading *)
(* or writing one sector is one step.                                      *)
(***************************************************************************)
EXTENDS Integers, Sequences, FiniteSets, FiniteSetsExt, Functions

CONSTANTS Threads,
          NoThread,        \* the NULL of w_holder
          BlockSize,       \* BLOCK_SECTOR_SIZE, 512 in the code
          Fanout,          \* entries used of a map sector, 32 in the code
          Sectors,         \* the sectors of the free map, numbers
          InitialLength,   \* the LENGTH of the inode_create that made the file
          Writes, Reads,   \* the <<offset, size>> that callers ask for
          MaxGap,          \* how far past the end of file a write may start
          MaxOps,          \* bound: the calls that are made in all
          MaxDeny,         \* bound: openers that deny writes at a time
          MaxOthers        \* bound: sectors of other files

ASSUME InodeAssumption ==
  /\ NoThread \notin Threads
  /\ BlockSize \in Nat \ {0} /\ Fanout \in Nat \ {0, 1}
  /\ Sectors \subseteq Nat /\ IsFiniteSet(Sectors)
  /\ InitialLength \in Nat
  /\ Writes \subseteq Nat \X (Nat \ {0}) /\ Reads \subseteq Nat \X (Nat \ {0})
  /\ MaxGap \in Nat /\ MaxOps \in Nat /\ MaxDeny \in Nat
  /\ MaxOthers \in Nat

VARIABLES w_holder, level,   \* inode->rwlock
          deny_write_cnt,
          length,            \* meta_data->length on disk
          tree,              \* the index tree on disk
          bytes,             \* what the data sectors hold
          free,              \* the sectors that are clear in the free map
          others,            \* the sectors that other files have
          pc, op,            \* the call of each thread and its locals
          pointers,          \* sectors that a lookup allocated, not yet in the tree
          seen,              \* the bytes that a read has copied out
          ops,               \* calls made
          past               \* ghost: which of Events have happened

lockVars == <<w_holder, level>>
fileVars == <<length, tree, bytes>>
mapVars == <<free, others>>
ghostVars == <<ops, past>>
vars == <<w_holder, level, deny_write_cnt, length, tree, bytes, free, others,
          pc, op, pointers, seen, ops, past>>

DivRoundUp(n) == (n + BlockSize - 1) \div BlockSize

\* The map entries a, b, c that lead to block upage, and the tree nodes on
\* the way there, the lvl1 sector (which every inode has) left out.
Path(upage) == <<upage \div (Fanout * Fanout), (upage \div Fanout) % Fanout,
                 upage % Fanout>>
Nodes(upage) == {SubSeq(Path(upage), 1, k) : k \in 1 .. 3}

\* lookup (..., false, ...) finds the block.
Present(upage) == Path(upage) \in DOMAIN tree

Positions == 0 .. BlockSize - 1
\* A byte that nobody wrote, one that a writer of this file wrote, and one
\* that is left over from another file.
Byte == {"zero", "data", "junk"}

InitialNodes ==
  {<<>>} \cup UNION {Nodes(upage) : upage \in 0 .. DivRoundUp(InitialLength)}

\* The file as inode_create left it, filled up to its length.
Init ==
  /\ w_holder = NoThread /\ level = 0
  /\ deny_write_cnt = 0
  /\ length = InitialLength
  /\ \E S \in kSubset(Cardinality(InitialNodes), Sectors) :
       /\ \A s \in S, r \in Sectors \ S : s < r
       /\ tree = CHOOSE f \in [InitialNodes -> S] : IsInjective(f)
       /\ free = Sectors \ S
  /\ others = {}
  /\ bytes = [s \in Sectors |-> [p \in Positions |->
       IF \E upage \in 0 .. DivRoundUp(InitialLength) : tree[Path(upage)] = s
       THEN IF \E upage \in 0 .. DivRoundUp(InitialLength) :
                 tree[Path(upage)] = s /\ upage * BlockSize + p < InitialLength
            THEN "data" ELSE "zero"
       ELSE "junk"]]
  /\ pc = [t \in Threads |-> "idle"]
  /\ op = [t \in Threads |-> [off |-> 0, size |-> 0, len |-> 0, block |-> 0]]
  /\ pointers = [t \in Threads |-> << >>]
  /\ seen = [t \in Threads |-> {}]
  /\ ops = 0
  /\ past = {}

-----------------------------------------------------------------------------
\* What the promises below depend on: a write began past the end of file, an
\* allocation failed, a write was refused.
Events == {"gap", "full", "refused"}
Note(event) == past' = past \cup {event}

\* Taking the lock for reading, the first step of both calls.
Begin(t, request, next) ==
  /\ pc[t] = "idle" /\ ops < MaxOps
  /\ w_holder = NoThread
  /\ level' = level + 1
  /\ op' = [op EXCEPT ![t].off = request[1], ![t].size = request[2]]
  /\ seen' = [seen EXCEPT ![t] = {}]
  /\ ops' = ops + 1
  /\ pc' = [pc EXCEPT ![t] = next]
  /\ UNCHANGED <<w_holder, deny_write_cnt, pointers, fileVars, mapVars>>

\* The part of SIZE that lies in the sector of the offset and in the file.
ChunkSize(t) ==
  Min({op[t].size, op[t].len - op[t].off, BlockSize - (op[t].off % BlockSize)})

Chunk(t) == {(op[t].off % BlockSize) + k : k \in 0 .. ChunkSize(t) - 1}

CanCopy(t) ==
  /\ op[t].size > 0
  /\ Present(op[t].off \div BlockSize)
  /\ ChunkSize(t) > 0

SectorAt(t) == tree[Path(op[t].off \div BlockSize)]

Advance(t) ==
  op' = [op EXCEPT ![t].off = @ + ChunkSize(t), ![t].size = @ - ChunkSize(t)]

\* Mutant: an upgraded writer does not release the lock.
Release_readers_only(t) ==
  /\ pc[t] = "release"
  /\ IF w_holder = t
     THEN UNCHANGED lockVars
     ELSE level' = level - 1 /\ UNCHANGED w_holder
  /\ pc' = [pc EXCEPT ![t] = "idle"]
  /\ UNCHANGED <<deny_write_cnt, op, pointers, seen, ghostVars, fileVars, mapVars>>

\* w_lock_release after an upgrade, r_lock_release otherwise.
Release(t) ==
  /\ pc[t] = "release"
  /\ IF w_holder = t
     THEN w_holder' = NoThread /\ UNCHANGED level
     ELSE level' = level - 1 /\ UNCHANGED w_holder
  /\ pc' = [pc EXCEPT ![t] = "idle"]
  /\ UNCHANGED <<deny_write_cnt, op, pointers, seen, ghostVars, fileVars, mapVars>>

-----------------------------------------------------------------------------
(* inode_read_at                                                           *)

ReadBegin(t) ==
  \E request \in Reads : Begin(t, request, "read_meta") /\ UNCHANGED past

ReadMeta(t) ==
  /\ pc[t] = "read_meta"
  /\ op' = [op EXCEPT ![t].len = length]
  /\ pc' = [pc EXCEPT ![t] = "read"]
  /\ UNCHANGED <<deny_write_cnt, pointers, seen, ghostVars, lockVars, fileVars, mapVars>>

ReadChunk(t) ==
  /\ pc[t] = "read" /\ CanCopy(t)
  /\ seen' = [seen EXCEPT ![t] = @ \cup {bytes[SectorAt(t)][p] : p \in Chunk(t)}]
  /\ Advance(t)
  /\ UNCHANGED <<deny_write_cnt, pc, pointers, ghostVars, lockVars, fileVars, mapVars>>

ReadEnd(t) ==
  /\ pc[t] = "read" /\ ~ CanCopy(t)
  /\ pc' = [pc EXCEPT ![t] = "release"]
  /\ UNCHANGED <<deny_write_cnt, op, pointers, seen, ghostVars, lockVars, fileVars, mapVars>>

-----------------------------------------------------------------------------
(* inode_write_at                                                          *)

WriteBegin(t) ==
  \E request \in Writes :
    /\ request[1] <= length + MaxGap
    /\ Begin(t, request, "check_deny")
    /\ IF request[1] > length THEN Note("gap") ELSE UNCHANGED past

\* A denied write returns 0 here, and keeps the lock.
CheckDeny(t) ==
  /\ pc[t] = "check_deny"
  /\ \/ /\ deny_write_cnt # 0
        /\ pc' = [pc EXCEPT ![t] = "idle"]
        /\ Note("refused")
     \/ /\ deny_write_cnt = 0
        /\ pc' = [pc EXCEPT ![t] = "write_meta"]
        /\ UNCHANGED past
  /\ UNCHANGED <<deny_write_cnt, op, pointers, seen, ops, lockVars, fileVars, mapVars>>

LastBlock(t) == DivRoundUp(op[t].off + op[t].size)

\* MAX (meta_data->length, offset + size)
Grown(t, len) == Max({len, op[t].off + op[t].size})

\* Mutant: the new length is stored before the bytes are.
WriteMeta_length_first(t) ==
  /\ pc[t] = "write_meta"
  /\ Present(LastBlock(t))
  /\ op' = [op EXCEPT ![t].len = Grown(t, length)]
  /\ length' = Grown(t, length)
  /\ pc' = [pc EXCEPT ![t] = "write"]
  /\ UNCHANGED <<level, tree, bytes, w_holder, deny_write_cnt, pointers, seen, ghostVars, mapVars>>

\* The length is read here, before the upgrade gives up the read hold.
WriteMeta(t) ==
  /\ pc[t] = "write_meta"
  /\ \/ /\ Present(LastBlock(t))
        /\ op' = [op EXCEPT ![t].len = Grown(t, length)]
        /\ pc' = [pc EXCEPT ![t] = "write"]
        /\ UNCHANGED level
     \/ /\ ~ Present(LastBlock(t))
        /\ op' = [op EXCEPT ![t].len = length, ![t].block = LastBlock(t)]
        /\ pc' = [pc EXCEPT ![t] = "upgrade"]
        /\ level' = level - 1
  /\ UNCHANGED <<w_holder, deny_write_cnt, pointers, seen, ghostVars, fileVars, mapVars>>

Upgrade(t) ==
  /\ pc[t] = "upgrade"
  /\ w_holder = NoThread /\ level = 0
  /\ w_holder' = t
  /\ pc' = [pc EXCEPT ![t] = "lookup"]
  /\ UNCHANGED <<level, deny_write_cnt, op, pointers, seen, ghostVars, fileVars, mapVars>>

\* The nodes that lookup (..., i, true, NULL) has still to allocate.
Missing(t) == Nodes(op[t].block) \ (DOMAIN tree \cup DOMAIN pointers[t])

\* One free_map_allocate of lookup, the uppermost missing node first.
Allocate(t) ==
  /\ pc[t] = "lookup" /\ Missing(t) # {}
  /\ free # {}
  /\ \E node \in Missing(t) :
       /\ \A other \in Missing(t) : Len(node) <= Len(other)
       /\ pointers' = [pointers EXCEPT ![t] =
                         [n \in DOMAIN @ \cup {node} |->
                            IF n = node THEN Min(free) ELSE @[n]]]
  /\ free' = free \ {Min(free)}
  /\ UNCHANGED <<deny_write_cnt, pc, op, seen, ghostVars, others, lockVars, fileVars>>

\* The loop over the blocks is left with the length set all the same.
GrowthEnds(t) ==
  /\ op' = [op EXCEPT ![t].len = Grown(t, @)]
  /\ pc' = [pc EXCEPT ![t] = "write"]

\* Mutant: the sectors that lookup had are not given back.
LookupFails_leaks(t) ==
  /\ pc[t] = "lookup" /\ Missing(t) # {}
  /\ free = {}
  /\ pointers' = [pointers EXCEPT ![t] = << >>]
  /\ GrowthEnds(t)
  /\ Note("full")
  /\ UNCHANGED <<free, deny_write_cnt, seen, ops, others, lockVars, fileVars>>

\* free_map_allocate failed: lookup gives its sectors back.
LookupFails(t) ==
  /\ pc[t] = "lookup" /\ Missing(t) # {}
  /\ free = {}
  /\ free' = free \cup Range(pointers[t])
  /\ pointers' = [pointers EXCEPT ![t] = << >>]
  /\ GrowthEnds(t)
  /\ Note("full")
  /\ UNCHANGED <<deny_write_cnt, seen, ops, others, lockVars, fileVars>>

\* lookup found the block, and the loop ends there.
LookupFinds(t) ==
  /\ pc[t] = "lookup" /\ Missing(t) = {} /\ DOMAIN pointers[t] = {}
  /\ GrowthEnds(t)
  /\ UNCHANGED <<deny_write_cnt, pointers, seen, ghostVars, lockVars, fileVars, mapVars>>

\* Mutant: a new data sector is not cleared.
LookupAdds_no_zeros(t) ==
  /\ pc[t] = "lookup" /\ Missing(t) = {} /\ DOMAIN pointers[t] # {}
  /\ tree' = [n \in DOMAIN tree \cup DOMAIN pointers[t] |->
                IF n \in DOMAIN tree THEN tree[n] ELSE pointers[t][n]]
  /\ pointers' = [pointers EXCEPT ![t] = << >>]
  /\ \/ /\ op[t].block > 0
        /\ op' = [op EXCEPT ![t].block = @ - 1]
        /\ UNCHANGED pc
     \/ op[t].block = 0 /\ GrowthEnds(t)
  /\ UNCHANGED <<length, bytes, deny_write_cnt, seen, ghostVars, lockVars, mapVars>>

\* Mutant: only the last block is added.
LookupAdds_last_only(t) ==
  /\ pc[t] = "lookup" /\ Missing(t) = {} /\ DOMAIN pointers[t] # {}
  /\ bytes' = [bytes EXCEPT ![pointers[t][Path(op[t].block)]] =
                 [p \in Positions |-> "zero"]]
  /\ tree' = [n \in DOMAIN tree \cup DOMAIN pointers[t] |->
                IF n \in DOMAIN tree THEN tree[n] ELSE pointers[t][n]]
  /\ pointers' = [pointers EXCEPT ![t] = << >>]
  /\ GrowthEnds(t)
  /\ UNCHANGED <<length, deny_write_cnt, seen, ghostVars, lockVars, mapVars>>

\* lookup clears the new data sector, links the new nodes into the tree, and
\* the loop goes on with the block before this one.
LookupAdds(t) ==
  /\ pc[t] = "lookup" /\ Missing(t) = {} /\ DOMAIN pointers[t] # {}
  /\ bytes' = [bytes EXCEPT ![pointers[t][Path(op[t].block)]] =
                 [p \in Positions |-> "zero"]]
  /\ tree' = [n \in DOMAIN tree \cup DOMAIN pointers[t] |->
                IF n \in DOMAIN tree THEN tree[n] ELSE pointers[t][n]]
  /\ pointers' = [pointers EXCEPT ![t] = << >>]
  /\ \/ /\ op[t].block > 0
        /\ op' = [op EXCEPT ![t].block = @ - 1]
        /\ UNCHANGED pc
     \/ op[t].block = 0 /\ GrowthEnds(t)
  /\ UNCHANGED <<length, deny_write_cnt, seen, ghostVars, lockVars, mapVars>>

WriteChunk(t) ==
  /\ pc[t] = "write" /\ CanCopy(t)
  /\ bytes' = [bytes EXCEPT ![SectorAt(t)] =
                 [p \in Positions |-> IF p \in Chunk(t) THEN "data" ELSE @[p]]]
  /\ Advance(t)
  /\ UNCHANGED <<length, tree, deny_write_cnt, pc, pointers, seen, ghostVars, lockVars, mapVars>>

\* The whole of meta_data goes back to the disk, its length included.
WriteEnd(t) ==
  /\ pc[t] = "write" /\ ~ CanCopy(t)
  /\ length' = op[t].len
  /\ pc' = [pc EXCEPT ![t] = "release"]
  /\ UNCHANGED <<tree, bytes, deny_write_cnt, op, pointers, seen, ghostVars, lockVars, mapVars>>

-----------------------------------------------------------------------------
inode_deny_write ==
  /\ deny_write_cnt < MaxDeny
  /\ deny_write_cnt' = deny_write_cnt + 1
  /\ UNCHANGED <<pc, op, pointers, seen, ghostVars, lockVars, fileVars, mapVars>>

inode_allow_write ==
  /\ deny_write_cnt > 0
  /\ deny_write_cnt' = deny_write_cnt - 1
  /\ UNCHANGED <<pc, op, pointers, seen, ghostVars, lockVars, fileVars, mapVars>>

\* Other files allocate from the same free map, fill their sectors, and are
\* deleted again.
free_map_allocate ==
  /\ free # {} /\ Cardinality(others) < MaxOthers
  /\ others' = others \cup {Min(free)}
  /\ free' = free \ {Min(free)}
  /\ bytes' = [bytes EXCEPT ![Min(free)] = [p \in Positions |-> "junk"]]
  /\ UNCHANGED <<length, tree, deny_write_cnt, pc, op, pointers, seen, ghostVars, lockVars>>

free_map_release ==
  \E s \in others :
    /\ others' = others \ {s}
    /\ free' = free \cup {s}
    /\ UNCHANGED <<deny_write_cnt, pc, op, pointers, seen, ghostVars, lockVars, fileVars>>

Step(t) ==
  \/ CheckDeny(t) \/ WriteMeta(t) \/ Upgrade(t)
  \/ Allocate(t) \/ LookupFails(t) \/ LookupFinds(t) \/ LookupAdds(t)
  \/ WriteChunk(t) \/ WriteEnd(t)
  \/ ReadMeta(t) \/ ReadChunk(t) \/ ReadEnd(t)
  \/ Release(t)

Next ==
  \/ \E t \in Threads : WriteBegin(t) \/ ReadBegin(t) \/ Step(t)
  \/ inode_deny_write \/ inode_allow_write
  \/ free_map_allocate \/ free_map_release

Spec == Init /\ [][Next]_vars

\* The scheduler runs every thread that can run.
LiveSpec == Spec /\ \A t \in Threads : WF_vars(Step(t))
-----------------------------------------------------------------------------
(* Properties                                                              *)

PC == {"idle", "read_meta", "read", "check_deny", "write_meta", "upgrade",
       "lookup", "write", "release"}

\* Every variable has its type: the read count of the lock never drops
\* below zero and the tree only has nodes of three levels.
TypeOK ==
  /\ w_holder \in Threads \cup {NoThread} /\ level \in Nat
  /\ deny_write_cnt \in 0 .. MaxDeny
  /\ length \in Nat
  /\ \A n \in DOMAIN tree : n \in Seq(Nat) /\ Len(n) <= 3 /\ tree[n] \in Sectors
  /\ bytes \in [Sectors -> [Positions -> Byte]]
  /\ free \subseteq Sectors /\ others \subseteq Sectors
  /\ pc \in [Threads -> PC]
  /\ op \in [Threads -> [off : Nat, size : Nat, len : Nat, block : Nat]]
  /\ \A t \in Threads : Range(pointers[t]) \subseteq Sectors
  /\ seen \in [Threads -> SUBSET Byte]
  /\ ops \in 0 .. MaxOps
  /\ past \subseteq Events

\* Whatever the interleaving of extending writers, failing lookups and other
\* files, a sector is at any time free, in another file, in the tree or in
\* the hands of one lookup, and in one place only: none is shared by two
\* blocks and none is lost (lookup, free_map_allocate, free_map_release).
SectorsAccounted ==
  LET Uses == {<<"free", << >>, s>> : s \in free}
              \cup {<<"others", << >>, s>> : s \in others}
              \cup {<<"tree", n, tree[n]>> : n \in DOMAIN tree}
              \cup UNION {{<<t, n, pointers[t][n]>> : n \in DOMAIN pointers[t]}
                          : t \in Threads}
  IN \A s \in Sectors : Cardinality({use \in Uses : use[3] = s}) = 1

\* A read never returns what another, deleted file left in a sector: lookup
\* clears a data sector before the sector can be reached through the tree.
NoStaleBytes == \A t \in Threads : "junk" \notin seen[t]

\* When every write starts inside the file or at its end and the disk does
\* not fill up, a read returns only bytes that were written, however it
\* overlaps with the writers that extend the file: the length is stored
\* after the bytes it covers (inode_write_at, inode_read_at).
ReadsOnlyWritten ==
  {"gap", "full"} \cap past = {} => \A t \in Threads : seen[t] \subseteq {"data"}

\* A read returns bytes of this file (inode_read_at, inode_write_at, lookup).
ContentsRight == TypeOK /\ NoStaleBytes /\ ReadsOnlyWritten

\* dir_add: "inode_read_at() will only return a short read at end of file."
\* A read that copied fewer bytes than it was asked for has reached the end
\* of the file: no block below the length is missing.
ShortReadOnlyAtEnd ==
  \A t \in Threads :
    pc[t] = "read" /\ op[t].size > 0 /\ ~ CanCopy(t) => op[t].off >= op[t].len

\* That holds as long as the disk has not filled up during a write: growth
\* adds blocks from the last one down until it meets one that exists, and
\* still leaves no hole (inode_write_at, inode_read_at).
NoHoles == "full" \notin past => ShortReadOnlyAtEnd

\* Threads that extend a file at the same time do not undo each other's
\* work: the length of a file never decreases (inode_write_at).
LengthNeverShrinks == [][length' >= length]_length

\* Once inode_deny_write has returned, no write changes the file until
\* inode_allow_write.
DenyStopsWrites ==
  [][deny_write_cnt > 0 => \A t \in Threads : ~ WriteChunk(t)]_vars

\* Every call of inode_read_at and inode_write_at returns: nobody waits for
\* the inode's lock for ever.
CallsReturn == \A t \in Threads : pc[t] # "idle" ~> pc[t] = "idle"

\* As above, until a write was refused: with two upgrades, readers and a
\* failing growth under way, the lock always comes free again.
CallsReturnUnlessRefused ==
  \A t \in Threads : pc[t] # "idle" ~> (pc[t] = "idle" \/ "refused" \in past)
=============================================================================
