---------------------------- MODULE InodeProofs ----------------------------
(***************************************************************************)
(* Proofs about Inode.  The inductive invariant has three parts.  Core     *)
(* says who holds the lock, who has which sector, and that nothing of      *)
(* another file is in the tree.  Grows holds until the disk fills up: the  *)
(* blocks of every length in use are there, although a growth adds them    *)
(* from the last one down.  Wrote holds until a write leaves a gap, too:   *)
(* the bytes below the length, and those below what a call is about to     *)
(* store as the length, have been written.                                 *)
(***************************************************************************)
EXTENDS Inode, WellFoundedInduction, FiniteSetTheorems, SequenceTheorems, TLAPS

-----------------------------------------------------------------------------
\* Lemmas on the operators of the model.

\* Division leaves a remainder, ...
LEMMA Division ==
  ASSUME NEW n \in Nat, NEW k \in Nat \ {0}
  PROVE  /\ n \div k \in Nat /\ n % k \in 0 .. k - 1
         /\ n = k * (n \div k) + (n % k)
OBVIOUS

\* ... which is unique, ...
LEMMA DivisionUnique ==
  ASSUME NEW k \in Nat \ {0}, NEW a \in Nat, NEW b \in Nat, NEW r \in 0 .. k - 1,
         NEW s \in 0 .. k - 1, k * a + r = k * b + s
  PROVE  a = b /\ r = s
<1>1. k * (a - b) = s - r
  OBVIOUS
<1>2. CASE a > b
  <2>1. a - b >= 1 BY <1>2
  <2>2. k * (a - b) >= k * 1 BY <2>1
  <2>. QED BY <1>1, <2>2
<1>3. CASE a < b
  <2>1. b - a >= 1 BY <1>3
  <2>2. k * (b - a) >= k * 1 BY <2>1
  <2>3. k * (b - a) = r - s BY <1>1
  <2>. QED BY <2>2, <2>3
<1>. QED BY <1>2, <1>3

\* ... and does not reverse the order.
LEMMA DivisionGrows ==
  ASSUME NEW k \in Nat \ {0}, NEW m \in Nat, NEW n \in Nat, m <= n
  PROVE  m \div k <= n \div k
<1>. DEFINE a == m \div k
            b == n \div k
<1>1. /\ a \in Nat /\ b \in Nat /\ k * a <= m /\ n < k * b + k
  BY Division
<1>. HIDE DEF a, b
<1>2. CASE a > b
  <2>1. a >= b + 1 BY <1>1, <1>2
  <2>2. k * a >= k * (b + 1) BY <1>1, <2>1
  <2>3. k * (b + 1) = k * b + k BY <1>1
  <2>. QED BY <1>1, <2>2, <2>3
<1>3. a <= b
  BY <1>1, <1>2
<1>. QED BY <1>3 DEF a, b

\* A nonempty set of numbers has a least element.
LEMMA LeastElement ==
  ASSUME NEW S \in SUBSET Nat, S # {}
  PROVE  Min(S) \in S /\ \A y \in S : Min(S) <= y
<1>1. PICK x \in S : \A y \in S : ~ (<<y, x>> \in OpToRel(<, Nat))
  BY NatLessThanWellFounded, WFMin
<1>2. ASSUME NEW y \in S, y < x PROVE FALSE
  <2>1. <<y, x>> \in {ss \in Nat \X Nat : ss[1] < ss[2]}
    BY <1>2
  <2>. QED BY <1>1, <2>1 DEF OpToRel
<1>3. \A y \in S : x <= y
  BY <1>2
<1>. QED BY <1>3 DEF Min

\* The least of three integers is one of them, and at most each of them.
LEMMA LeastOfThree ==
  ASSUME NEW a \in Int, NEW b \in Int, NEW c \in Int
  PROVE  /\ Min({a, b, c}) \in {a, b, c}
         /\ Min({a, b, c}) <= a /\ Min({a, b, c}) <= b /\ Min({a, b, c}) <= c
<1>1. \E x \in {a, b, c} : \A y \in {a, b, c} : x <= y
  OBVIOUS
<1>. QED BY <1>1 DEF Min

\* The greater of two numbers.
LEMMA GreaterOfTwo ==
  ASSUME NEW a \in Nat, NEW b \in Nat
  PROVE  /\ Max({a, b}) \in {a, b} /\ a <= Max({a, b}) /\ b <= Max({a, b})
<1>1. \E x \in {a, b} : \A y \in {a, b} : x >= y
  OBVIOUS
<1>. QED BY <1>1 DEF Max

\* Dividing twice by k is dividing by its square.
LEMMA DivisionTwice ==
  ASSUME NEW k \in Nat \ {0}, NEW n \in Nat
  PROVE  (n \div k) \div k = n \div (k * k)
<1>. DEFINE a == n \div k
            b == a \div k
            r == n % k
            s == a % k
            m == k * k
            c == n \div m
            q == n % m
<1>1. /\ a \in Nat /\ r \in 0 .. k - 1 /\ n = k * a + r
  BY Division
<1>2. /\ b \in Nat /\ s \in 0 .. k - 1 /\ a = k * b + s
  BY <1>1, Division
<1>3. m \in Nat \ {0}
  OBVIOUS
<1>4. /\ c \in Nat /\ q \in 0 .. m - 1 /\ n = m * c + q
  BY <1>3, Division
<1>. HIDE DEF a, b, c, r, s, q
<1>5. k * a = m * b + k * s
  <2>1. k * (k * b + s) = (k * k) * b + k * s BY <1>2
  <2>. QED BY <1>2, <2>1
<1>6. n = m * b + (k * s + r)
  BY <1>1, <1>2, <1>5
<1>7. k * s + r \in 0 .. m - 1
  <2>1. k * s <= k * (k - 1) BY <1>2
  <2>2. k * (k - 1) = k * k - k OBVIOUS
  <2>3. k * s >= 0 BY <1>2
  <2>. QED BY <1>1, <1>2, <2>1, <2>2, <2>3
<1>. HIDE DEF m
<1>8. b = c
  BY <1>2, <1>3, <1>4, <1>6, <1>7, DivisionUnique
<1>. QED BY <1>8 DEF a, b, c, m

\* The path to a block and the nodes on it.
LEMMA PathNodes ==
  ASSUME NEW u \in Nat
  PROVE  /\ Path(u) \in Seq(Nat) /\ Len(Path(u)) = 3 /\ Path(u) \in Nodes(u)
         /\ \A n \in Nodes(u) : /\ n \in Seq(Nat) /\ Len(n) \in 1 .. 3
                                /\ Len(n) = 3 => n = Path(u)
<1>. DEFINE p == Path(u)
<1>. /\ Fanout \in Nat \ {0} /\ Fanout * Fanout \in Nat \ {0}
  BY InodeAssumption
<1>1. u \div (Fanout * Fanout) \in Nat
  BY Division
<1>2. u \div Fanout \in Nat /\ u % Fanout \in Nat
  BY Division
<1>3. (u \div Fanout) % Fanout \in Nat
  BY <1>2, Division
<1>4. p \in Seq(Nat) /\ Len(p) = 3
  BY <1>1, <1>2, <1>3 DEF Path
<1>. HIDE DEF p
<1>5. ASSUME NEW k \in 1 .. 3
      PROVE  SubSeq(p, 1, k) \in Seq(Nat) /\ Len(SubSeq(p, 1, k)) = k
  <2>1. \A i \in 1 .. Len(p) : p[i] \in Nat BY <1>4, ElementOfSeq
  <2>3. \A i \in 1 .. k : p[i] \in Nat BY <1>4, <2>1
  <2>2. /\ SubSeq(p, 1, k) \in Seq(Nat)
        /\ Len(SubSeq(p, 1, k)) = IF 1 <= k THEN k - 1 + 1 ELSE 0
    BY <2>3, SubSeqProperties
  <2>. QED BY <2>2
<1>6. SubSeq(p, 1, 3) = p
  BY <1>4, SubSeqFull
<1>7. Nodes(u) = {SubSeq(p, 1, k) : k \in 1 .. 3}
  BY DEF Nodes, p
<1>8. p \in Nodes(u)
  BY <1>6, <1>7
<1>9. \A n \in Nodes(u) : n \in Seq(Nat) /\ Len(n) \in 1 .. 3 /\ (Len(n) = 3 => n = p)
  BY <1>5, <1>6, <1>7
<1>. QED BY <1>4, <1>8, <1>9 DEF p

\* Two blocks with the same path are the same block.
LEMMA PathInjective ==
  ASSUME NEW u \in Nat, NEW v \in Nat, Path(u) = Path(v)
  PROVE  u = v
<1>. DEFINE F == Fanout
            a == u \div F
            b == v \div F
<1>0. F \in Nat \ {0} /\ F * F \in Nat \ {0}
  BY InodeAssumption
<1>1. /\ u \div (F * F) = v \div (F * F)
      /\ a % F = b % F /\ u % F = v % F
  BY DEF Path
<1>2. /\ u \div F \in Nat /\ u % F \in 0 .. F - 1 /\ u = F * (u \div F) + (u % F)
      /\ v \div F \in Nat /\ v % F \in 0 .. F - 1 /\ v = F * (v \div F) + (v % F)
  BY <1>0, Division
<1>3. /\ a \div F \in Nat /\ a % F \in 0 .. F - 1 /\ a = F * (a \div F) + (a % F)
      /\ b \div F \in Nat /\ b % F \in 0 .. F - 1 /\ b = F * (b \div F) + (b % F)
  BY <1>0, <1>2, Division
<1>4. a \div F = u \div (F * F) /\ b \div F = v \div (F * F)
  BY <1>0, <1>2, <1>3, DivisionTwice
<1>5. a = b
  BY <1>1, <1>3, <1>4
<1>. QED BY <1>1, <1>2, <1>5

-----------------------------------------------------------------------------
\* The inductive invariant.

\* The threads that hold the inode's lock for reading.
Reading(t) ==
  \/ pc[t] \in {"read_meta", "read", "check_deny", "write_meta"}
  \/ pc[t] \in {"write", "release"} /\ w_holder # t

Holders == {t \in Threads : Reading(t)}

\* A thread in lookup has upgraded; nobody else holds the lock then.  A write
\* that is refused keeps its hold, so that level may exceed the holders.
LockOK ==
  /\ \A t \in Threads : pc[t] = "lookup" => w_holder = t
  /\ \A t \in Threads : w_holder = t => pc[t] \in {"lookup", "write", "release"}
  /\ w_holder # NoThread => level = 0
  /\ IsFiniteSet(Holders) /\ Cardinality(Holders) <= level

\* A lookup has sectors only while it runs, and only for the nodes on the way
\* to its block that the tree lacks.
LookupOK ==
  /\ DOMAIN pointers = Threads
  /\ \A t \in Threads : pc[t] # "lookup" => DOMAIN pointers[t] = {}
  /\ \A t \in Threads : DOMAIN pointers[t] \subseteq Nodes(op[t].block) \ DOMAIN tree

\* No sector has two uses, ...
Unshared ==
  /\ IsInjective(tree) /\ \A t \in Threads : IsInjective(pointers[t])
  /\ free \cap others = {}
  /\ Range(tree) \cap (free \cup others) = {}
  /\ \A t \in Threads :
       Range(pointers[t]) \cap (free \cup others \cup Range(tree)) = {}

\* ... and none is lost.
NoneLost ==
  \A s \in Sectors : \/ s \in free \/ s \in others \/ s \in Range(tree)
                     \/ \E t \in Threads : s \in Range(pointers[t])

\* A block that is present can be reached through the maps above it.
PrefixClosed == \A u \in Nat : Present(u) => Nodes(u) \subseteq DOMAIN tree

\* No data sector of the file holds a byte of another file.
NoJunk ==
  \A n \in DOMAIN tree : Len(n) = 3 => \A p \in Positions : bytes[tree[n]][p] # "junk"

Core ==
  /\ TypeOK /\ LockOK /\ LookupOK /\ Unshared /\ NoneLost
  /\ PrefixClosed /\ NoJunk /\ NoStaleBytes

-----------------------------------------------------------------------------
\* Every block of a file of n bytes is present, and the one after it.
Filled(n) == \A v \in 0 .. DivRoundUp(n) : Present(v)

\* The blocks that a growth under way has added.
Adding(t, u) ==
  pc[t] = "lookup" /\ u \in op[t].block + 1 .. LastBlock(t)

\* Blocks are added from the last one down, so that every block below one
\* that is present is present too, but for the growth under way.
DownTo(u) == \A v \in 0 .. u : Present(v)

\* The blocks of every length that is stored, or that a call works with, exist.
LensFilled ==
  /\ Filled(length)
  /\ \A t \in Threads :
       pc[t] \in {"read", "upgrade", "lookup", "write"} => Filled(op[t].len)

\* How far a growth is: the blocks above the one it looks up are there.
GrowthPlace ==
  \A t \in Threads :
    /\ pc[t] = "upgrade" => op[t].block = LastBlock(t)
    /\ pc[t] = "lookup" =>
         /\ op[t].block <= LastBlock(t)
         /\ \A u \in op[t].block + 1 .. LastBlock(t) : Present(u)

NoneSkipped ==
  \A u \in Nat : Present(u) => DownTo(u) \/ \E t \in Threads : Adding(t, u)

Growth == LensFilled /\ GrowthPlace /\ NoneSkipped

-----------------------------------------------------------------------------
\* The byte at offset q of the file is one that was written.
Written(q) ==
  /\ Present(q \div BlockSize)
  /\ bytes[tree[Path(q \div BlockSize)]][q % BlockSize] = "data"

WrittenTo(n) == \A q \in 0 .. n - 1 : Written(q)

Begun == {"check_deny", "write_meta", "upgrade", "lookup", "write"}

\* What a call relies on: a reader that the bytes up to the length it read are
\* written, a writer that those before its offset are, and in the end, as the
\* length it is about to store says, all but those it has still to write.
CallsWritten ==
  \A t \in Threads :
    /\ pc[t] \in {"read", "upgrade", "lookup"} => WrittenTo(op[t].len)
    /\ pc[t] \in Begun => WrittenTo(op[t].off)
    /\ pc[t] = "write" =>
         /\ op[t].off + op[t].size <= op[t].len
         /\ \A q \in op[t].off + op[t].size .. op[t].len - 1 : Written(q)

SeenWritten == \A t \in Threads : seen[t] \subseteq {"data"}

Contents == WrittenTo(length) /\ CallsWritten /\ SeenWritten

Grows == "full" \notin past => Growth
Wrote == {"gap", "full"} \cap past = {} => Contents

IInv == Core /\ Grows /\ Wrote

-----------------------------------------------------------------------------
\* What one step of a copy does: at least one byte, inside the sector, inside
\* the file and inside what was asked for.
LEMMA ChunkBounds ==
  ASSUME TypeOK, NEW t \in Threads
  PROVE  /\ op[t].off % BlockSize \in Positions
         /\ op[t].off \div BlockSize \in Nat
         /\ op[t].off = BlockSize * (op[t].off \div BlockSize) + (op[t].off % BlockSize)
         /\ ChunkSize(t) \in {op[t].size, op[t].len - op[t].off,
                              BlockSize - (op[t].off % BlockSize)}
         /\ ChunkSize(t) \in Int /\ ChunkSize(t) <= op[t].size
         /\ ChunkSize(t) <= op[t].len - op[t].off
         /\ ChunkSize(t) <= BlockSize - (op[t].off % BlockSize)
<1>1. /\ BlockSize \in Nat \ {0}
      /\ op[t].off \in Nat /\ op[t].size \in Nat /\ op[t].len \in Nat
  BY InodeAssumption DEF TypeOK
<1>. DEFINE p == op[t].off % BlockSize
<1>2. /\ p \in 0 .. BlockSize - 1 /\ op[t].off \div BlockSize \in Nat
      /\ op[t].off = BlockSize * (op[t].off \div BlockSize) + p
  BY <1>1, Division
<1>. HIDE DEF p
<1>. DEFINE a == op[t].size
            b == op[t].len - op[t].off
            c == BlockSize - p
<1>3. ChunkSize(t) = Min({a, b, c})
  BY DEF ChunkSize, p
<1>4. a \in Int /\ b \in Int /\ c \in Int
  BY <1>1, <1>2
<1>. HIDE DEF a, b, c
<1>5. /\ ChunkSize(t) \in {a, b, c}
      /\ ChunkSize(t) <= a /\ ChunkSize(t) <= b /\ ChunkSize(t) <= c
  <2>1. /\ Min({a, b, c}) \in {a, b, c}
        /\ Min({a, b, c}) <= a /\ Min({a, b, c}) <= b /\ Min({a, b, c}) <= c
    BY <1>4, LeastOfThree
  <2>. QED BY <1>3, <2>1
<1>6. ChunkSize(t) \in Int
  BY <1>4, <1>5
<1>7. p \in Positions
  BY <1>2 DEF Positions
<1>. QED BY <1>2, <1>5, <1>6, <1>7 DEF p, a, b, c

LEMMA ChunkInSector ==
  ASSUME TypeOK, NEW t \in Threads, CanCopy(t)
  PROVE  /\ Chunk(t) \subseteq Positions
         /\ op[t].off + ChunkSize(t) \in Nat /\ op[t].size - ChunkSize(t) \in Nat
         /\ SectorAt(t) \in Sectors
<1>. DEFINE p == op[t].off % BlockSize
<1>1. /\ BlockSize \in Nat \ {0} /\ op[t].off \in Nat /\ op[t].size \in Nat
  BY InodeAssumption DEF TypeOK
<1>2. /\ ChunkSize(t) \in Int /\ ChunkSize(t) > 0
      /\ ChunkSize(t) <= op[t].size /\ ChunkSize(t) <= BlockSize - p
      /\ p \in 0 .. BlockSize - 1
  BY ChunkBounds DEF CanCopy, Positions
<1>. HIDE DEF p
<1>3. \A k \in 0 .. ChunkSize(t) - 1 : p + k \in 0 .. BlockSize - 1
  BY <1>1, <1>2
<1>4. Chunk(t) \subseteq Positions
  BY <1>3 DEF Chunk, Positions, p
<1>5. SectorAt(t) \in Sectors
  BY DEF SectorAt, CanCopy, Present, TypeOK
<1>. QED BY <1>1, <1>2, <1>4, <1>5

LEMMA BlocksAreNumbers ==
  ASSUME NEW n \in Nat
  PROVE  DivRoundUp(n) \in Nat
<1>1. BlockSize \in Nat \ {0} /\ n + BlockSize - 1 \in Nat
  BY InodeAssumption
<1>2. (n + BlockSize - 1) \div BlockSize \in Nat
  BY <1>1, Division
<1>. QED BY <1>2 DEF DivRoundUp

\* The block of a byte of the file is one of those the length counts.
LEMMA BlockOfByte ==
  ASSUME NEW n \in Nat, NEW q \in Nat, q < n
  PROVE  q \div BlockSize <= DivRoundUp(n)
<1>1. /\ BlockSize \in Nat \ {0} /\ n + BlockSize - 1 \in Nat
      /\ q <= n + BlockSize - 1
  BY InodeAssumption
<1>2. q \div BlockSize <= (n + BlockSize - 1) \div BlockSize
  BY <1>1, DivisionGrows
<1>. QED BY <1>2 DEF DivRoundUp

\* The steps that leave the tree, the free map and the lookups alone.
Quiet == UNCHANGED <<tree, free, others, pointers>>

Moves(t) ==
  \/ WriteBegin(t) \/ ReadBegin(t) \/ Step(t)

LEMMA NextCases ==
  ASSUME Next
  PROVE  \/ \E t \in Threads : Moves(t)
         \/ inode_deny_write \/ inode_allow_write
         \/ free_map_allocate \/ free_map_release
BY DEF Next, Moves

\* The read holds.
LEMMA LevelPositive ==
  ASSUME LockOK, TypeOK, NEW t \in Threads, Reading(t)
  PROVE  level > 0 /\ w_holder = NoThread
<1>1. t \in Holders BY DEF Holders
<1>2. IsFiniteSet(Holders) /\ Cardinality(Holders) <= level BY DEF LockOK
<1>3. Cardinality(Holders) \in Nat /\ Cardinality(Holders) # 0
  BY <1>1, <1>2, FS_CardinalityType, FS_EmptySet
<1>4. level \in Nat BY DEF TypeOK
<1>5. level > 0 BY <1>2, <1>3, <1>4
<1>. QED BY <1>4, <1>5 DEF LockOK

\* One thread comes to hold the lock for reading, ...
LEMMA HoldersGrow ==
  ASSUME LockOK, TypeOK, NEW t \in Threads, Holders' = Holders \cup {t}, level' = level + 1
  PROVE  IsFiniteSet(Holders') /\ Cardinality(Holders') <= level'
<1>1. IsFiniteSet(Holders) /\ Cardinality(Holders) <= level BY DEF LockOK
<1>2. /\ IsFiniteSet(Holders')
      /\ Cardinality(Holders') = IF t \in Holders THEN Cardinality(Holders)
                                 ELSE Cardinality(Holders) + 1
  BY <1>1, FS_AddElement
<1>3. Cardinality(Holders) \in Nat /\ level \in Nat
  BY <1>1, FS_CardinalityType DEF TypeOK
<1>. QED BY <1>1, <1>2, <1>3

\* ... or no longer does, and gives its hold back or keeps it.
LEMMA HoldersDrop ==
  ASSUME LockOK, TypeOK, NEW t \in Holders, Holders' = Holders \ {t},
         level' = level - 1 \/ level' = level
  PROVE  IsFiniteSet(Holders') /\ Cardinality(Holders') <= level'
<1>1. IsFiniteSet(Holders) /\ Cardinality(Holders) <= level BY DEF LockOK
<1>2. /\ IsFiniteSet(Holders') /\ Cardinality(Holders') = Cardinality(Holders) - 1
  BY <1>1, FS_RemoveElement
<1>3. Cardinality(Holders) \in Nat /\ level \in Nat
  BY <1>1, FS_CardinalityType DEF TypeOK
<1>. QED BY <1>1, <1>2, <1>3

LEMMA HoldersSame ==
  ASSUME LockOK, Holders' = Holders, level' = level
  PROVE  IsFiniteSet(Holders') /\ Cardinality(Holders') <= level'
BY DEF LockOK

\* A step of t that keeps its hold of the lock, or its lack of one.
LEMMA LockKept ==
  ASSUME LockOK, TypeOK, NEW t \in Threads, NEW x,
         pc' = [pc EXCEPT ![t] = x], UNCHANGED lockVars,
         Reading(t)' <=> Reading(t),
         x # "lookup", w_holder = t => x \in {"write", "release"}
  PROVE  LockOK'
<1>1. pc \in [Threads -> PC]
  BY DEF TypeOK
<1>2. \A u \in Threads : Reading(u)' <=> Reading(u)
  BY <1>1 DEF Reading, lockVars
<1>3. Holders' = Holders /\ level' = level /\ w_holder' = w_holder
  BY <1>2 DEF Holders, lockVars
<1>4. IsFiniteSet(Holders') /\ Cardinality(Holders') <= level'
  BY <1>3, HoldersSame
<1>5. \A u \in Threads : pc'[u] = "lookup" => w_holder' = u
  BY <1>1, <1>3 DEF LockOK
<1>6. \A u \in Threads : w_holder' = u => pc'[u] \in {"lookup", "write", "release"}
  BY <1>1, <1>3 DEF LockOK
<1>. QED BY <1>3, <1>4, <1>5, <1>6 DEF LockOK

LEMMA LockUntouched ==
  ASSUME LockOK, UNCHANGED <<pc, w_holder, level>>
  PROVE  LockOK'
<1>1. Holders' = Holders
  BY DEF Holders, Reading
<1>. QED BY <1>1 DEF LockOK

LEMMA LockStep ==
  ASSUME TypeOK, LockOK, [Next]_vars
  PROVE  LockOK'
<1>0. NoThread \notin Threads
  BY InodeAssumption
<1>t. pc \in [Threads -> PC]
  BY DEF TypeOK
<1>1. ASSUME NEW t \in Threads, Moves(t) PROVE LockOK'
  <2>0. \A u \in Threads \ {t} : pc'[u] = pc[u]
    BY <1>1, <1>t DEF Moves, WriteBegin, ReadBegin, Begin, Step, CheckDeny, WriteMeta, Upgrade,
         Allocate, LookupFails, LookupFinds, LookupAdds, GrowthEnds, WriteChunk, WriteEnd,
         ReadMeta, ReadChunk, ReadEnd, Release
  <2>1. ASSUME NEW request, NEW next \in {"read_meta", "check_deny"}, Begin(t, request, next)
        PROVE  LockOK'
    <3>1. /\ pc[t] = "idle" /\ pc' = [pc EXCEPT ![t] = next]
          /\ w_holder = NoThread /\ w_holder' = w_holder /\ level' = level + 1
      BY <2>1 DEF Begin
    <3>2. Holders' = Holders \cup {t}
      BY <1>t, <3>1 DEF Holders, Reading
    <3>3. IsFiniteSet(Holders') /\ Cardinality(Holders') <= level'
      BY <3>1, <3>2, HoldersGrow
    <3>4. \A u \in Threads : pc'[u] # "lookup"
      BY <1>0, <1>t, <2>0, <3>1 DEF LockOK
    <3>. QED BY <1>0, <3>1, <3>3, <3>4 DEF LockOK
  <2>2. ASSUME pc[t] \in {"check_deny", "write_meta", "release"}, w_holder # t,
               NEW x \in {"idle", "upgrade"}, pc' = [pc EXCEPT ![t] = x],
               w_holder' = w_holder, level' = level - 1 \/ level' = level
        PROVE  LockOK'
    <3>1. Reading(t) /\ t \in Holders
      BY <2>2 DEF Reading, Holders
    <3>2. w_holder = NoThread
      BY <3>1, LevelPositive
    <3>3. Holders' = Holders \ {t}
      BY <1>t, <2>2 DEF Holders, Reading
    <3>4. IsFiniteSet(Holders') /\ Cardinality(Holders') <= level'
      BY <2>2, <3>1, <3>3, HoldersDrop
    <3>5. \A u \in Threads : pc'[u] # "lookup"
      BY <1>0, <1>t, <2>0, <2>2, <3>2 DEF LockOK
    <3>. QED BY <1>0, <2>2, <3>2, <3>4, <3>5 DEF LockOK
  <2>3. CASE WriteBegin(t) \/ ReadBegin(t)
    BY <2>1, <2>3 DEF WriteBegin, ReadBegin
  <2>4. CASE CheckDeny(t)
    <3>0. pc[t] = "check_deny" /\ w_holder # t /\ UNCHANGED lockVars
      BY <2>4 DEF CheckDeny, LockOK
    <3>1. CASE pc' = [pc EXCEPT ![t] = "idle"]
      BY <2>2, <3>0, <3>1 DEF lockVars
    <3>2. CASE pc' = [pc EXCEPT ![t] = "write_meta"]
      <4>1. Reading(t)' <=> Reading(t)
        BY <1>t, <3>0, <3>2 DEF Reading
      <4>. QED BY <3>0, <3>2, <4>1, LockKept
    <3>. QED BY <2>4, <3>1, <3>2 DEF CheckDeny
  <2>5. CASE WriteMeta(t)
    <3>0. pc[t] = "write_meta" /\ w_holder # t /\ w_holder' = w_holder
      BY <2>5 DEF WriteMeta, LockOK
    <3>1. CASE level' = level - 1 /\ pc' = [pc EXCEPT ![t] = "upgrade"]
      BY <2>2, <3>0, <3>1
    <3>2. CASE level' = level /\ pc' = [pc EXCEPT ![t] = "write"]
      <4>1. Reading(t)' <=> Reading(t)
        BY <1>t, <3>0, <3>2 DEF Reading
      <4>. QED BY <3>0, <3>2, <4>1, LockKept DEF lockVars
    <3>. QED BY <2>5, <3>1, <3>2 DEF WriteMeta
  <2>6. CASE Upgrade(t)
    <3>1. /\ pc[t] = "upgrade" /\ pc' = [pc EXCEPT ![t] = "lookup"]
          /\ w_holder = NoThread /\ w_holder' = t /\ level = 0 /\ level' = level
      BY <2>6 DEF Upgrade
    <3>2. \A u \in Threads : Reading(u)' <=> Reading(u)
      BY <1>0, <1>t, <3>1 DEF Reading
    <3>3. IsFiniteSet(Holders') /\ Cardinality(Holders') <= level'
      <4>1. Holders' = Holders BY <3>2 DEF Holders
      <4>. QED BY <3>1, <4>1, HoldersSame
    <3>4. \A u \in Threads : pc'[u] = "lookup" => u = t
      BY <1>0, <1>t, <2>0, <3>1 DEF LockOK
    <3>5. pc'[t] = "lookup"
      BY <1>t, <3>1
    <3>. QED BY <3>1, <3>3, <3>4, <3>5 DEF LockOK
  <2>7. CASE Allocate(t) \/ WriteChunk(t) \/ ReadChunk(t)
    <3>1. UNCHANGED <<pc, w_holder, level>>
      BY <2>7 DEF Allocate, WriteChunk, ReadChunk, lockVars
    <3>. QED BY <3>1, LockUntouched
  <2>8. CASE LookupFails(t) \/ LookupFinds(t) \/ LookupAdds(t)
    <3>0. UNCHANGED lockVars /\ pc[t] = "lookup" /\ w_holder = t
      BY <2>8 DEF LookupFails, LookupFinds, LookupAdds, LockOK
    <3>1. CASE pc' = pc
      BY <3>0, <3>1, LockUntouched DEF lockVars
    <3>2. CASE pc' = [pc EXCEPT ![t] = "write"]
      <4>1. Reading(t)' <=> Reading(t)
        BY <1>t, <3>0, <3>2 DEF Reading, lockVars
      <4>. QED BY <3>0, <3>2, <4>1, LockKept
    <3>. QED BY <2>8, <3>1, <3>2 DEF LookupFails, LookupFinds, LookupAdds, GrowthEnds
  <2>9. CASE WriteEnd(t) \/ ReadEnd(t)
    <3>1. /\ pc[t] \in {"write", "read"} /\ pc' = [pc EXCEPT ![t] = "release"]
          /\ UNCHANGED lockVars
      BY <2>9 DEF WriteEnd, ReadEnd
    <3>2. pc[t] = "read" => w_holder # t
      BY DEF LockOK
    <3>3. Reading(t)' <=> Reading(t)
      BY <1>t, <3>1, <3>2 DEF Reading, lockVars
    <3>. QED BY <3>1, <3>3, LockKept
  <2>10. CASE ReadMeta(t)
    <3>1. /\ pc[t] = "read_meta" /\ pc' = [pc EXCEPT ![t] = "read"]
          /\ UNCHANGED lockVars
      BY <2>10 DEF ReadMeta
    <3>2. w_holder # t
      BY <3>1 DEF LockOK
    <3>3. Reading(t)' <=> Reading(t)
      BY <1>t, <3>1 DEF Reading
    <3>. QED BY <3>1, <3>2, <3>3, LockKept
  <2>11. CASE Release(t)
    <3>0. pc[t] = "release" /\ pc' = [pc EXCEPT ![t] = "idle"]
      BY <2>11 DEF Release
    <3>1. CASE w_holder # t
      <4>1. w_holder' = w_holder /\ level' = level - 1
        BY <2>11, <3>1 DEF Release
      <4>. QED BY <2>2, <3>0, <3>1, <4>1
    <3>2. CASE w_holder = t
      <4>1. w_holder' = NoThread /\ level' = level /\ level = 0
        BY <1>0, <2>11, <3>2 DEF Release, LockOK
      <4>2. Holders = {}
        BY <1>0, <3>2, LevelPositive DEF Holders
      <4>3. \A u \in Threads : ~ Reading(u)'
        BY <1>0, <1>t, <2>0, <3>0, <3>2, <4>1, <4>2 DEF Holders, Reading, LockOK
      <4>4. Holders' = Holders
        BY <4>2, <4>3 DEF Holders
      <4>5. IsFiniteSet(Holders') /\ Cardinality(Holders') <= level'
        BY <4>1, <4>4, HoldersSame
      <4>6. \A u \in Threads : pc'[u] # "lookup"
        BY <1>t, <2>0, <3>0, <3>2 DEF LockOK
      <4>. QED BY <1>0, <4>1, <4>5, <4>6 DEF LockOK
    <3>. QED BY <3>1, <3>2
  <2>. QED BY <1>1, <2>3, <2>4, <2>5, <2>6, <2>7, <2>8, <2>9, <2>10, <2>11 DEF Moves, Step
<1>2. CASE \/ inode_deny_write \/ inode_allow_write
           \/ free_map_allocate \/ free_map_release \/ UNCHANGED vars
  <2>1. UNCHANGED <<pc, w_holder, level>>
    BY <1>2 DEF inode_deny_write, inode_allow_write, free_map_allocate, free_map_release,
                lockVars, vars
  <2>. QED BY <2>1, LockUntouched
<1>. QED BY <1>1, <1>2, NextCases

\* The bytes of one sector replaced, others kept.
LEMMA BytesType ==
  ASSUME bytes \in [Sectors -> [Positions -> Byte]], NEW s,
         NEW new \in [Positions -> Byte], bytes' = [bytes EXCEPT ![s] = new]
  PROVE  bytes' \in [Sectors -> [Positions -> Byte]]
OBVIOUS

\* Types whose variables a step leaves alone.
LEMMA TypeUntouched ==
  ASSUME TypeOK, UNCHANGED vars
  PROVE  TypeOK'
BY DEF TypeOK, vars

LEMMA TypeBegin ==
  ASSUME TypeOK, NEW t \in Threads, WriteBegin(t) \/ ReadBegin(t)
  PROVE  TypeOK'
<1>1. PICK request \in Nat \X (Nat \ {0}), next \in {"read_meta", "check_deny"} :
        Begin(t, request, next)
  BY InodeAssumption DEF WriteBegin, ReadBegin
<1>2. request[1] \in Nat /\ request[2] \in Nat
  OBVIOUS
<1>. HIDE <1>1
<1>3. /\ pc' = [pc EXCEPT ![t] = next] /\ level' = level + 1
      /\ op' = [op EXCEPT ![t].off = request[1], ![t].size = request[2]]
      /\ seen' = [seen EXCEPT ![t] = {}] /\ ops' = ops + 1 /\ ops < MaxOps
      /\ UNCHANGED <<w_holder, deny_write_cnt, pointers, length, tree, bytes, free, others>>
  BY <1>1 DEF Begin, fileVars, mapVars
<1>4. op' \in [Threads -> [off : Nat, size : Nat, len : Nat, block : Nat]]
  BY <1>2, <1>3 DEF TypeOK
<1>5. pc' \in [Threads -> PC]
  BY <1>3 DEF TypeOK, PC
<1>6. seen' \in [Threads -> SUBSET Byte] /\ level' \in Nat
  BY <1>3 DEF TypeOK
<1>7. ops' \in 0 .. MaxOps
  <2>1. MaxOps \in Nat /\ ops \in 0 .. MaxOps BY InodeAssumption DEF TypeOK
  <2>. QED BY <1>3, <2>1
<1>8. past' \subseteq Events
  BY DEF WriteBegin, ReadBegin, TypeOK, Note, Events
<1>. QED BY <1>3, <1>4, <1>5, <1>6, <1>7, <1>8 DEF TypeOK

LEMMA TypeMeta ==
  ASSUME TypeOK, LockOK, NEW t \in Threads,
         CheckDeny(t) \/ WriteMeta(t) \/ Upgrade(t) \/ ReadMeta(t) \/ ReadEnd(t)
           \/ Release(t)
  PROVE  TypeOK'
<1>0. /\ t \in Threads /\ op[t].off \in Nat /\ op[t].size \in Nat /\ length \in Nat
      /\ level \in Nat
  BY DEF TypeOK
<1>1. UNCHANGED <<deny_write_cnt, pointers, seen, ops, length, tree, bytes, free, others>>
  BY DEF CheckDeny, WriteMeta, Upgrade, ReadMeta, ReadEnd, Release, ghostVars, fileVars, mapVars
<1>2. pc' \in [Threads -> PC]
  BY DEF CheckDeny, WriteMeta, Upgrade, ReadMeta, ReadEnd, Release, TypeOK, PC
<1>3. past' \subseteq Events
  BY DEF CheckDeny, WriteMeta, Upgrade, ReadMeta, ReadEnd, Release, ghostVars, TypeOK, Note, Events
<1>4. LastBlock(t) \in Nat /\ Grown(t, length) \in Nat
  <2>1. op[t].off + op[t].size \in Nat BY <1>0
  <2>2. LastBlock(t) \in Nat BY <2>1, BlocksAreNumbers DEF LastBlock
  <2>3. Max({length, op[t].off + op[t].size}) \in {length, op[t].off + op[t].size}
    BY <1>0, <2>1, GreaterOfTwo
  <2>4. Grown(t, length) \in Nat BY <1>0, <2>1, <2>3 DEF Grown
  <2>. QED BY <2>2, <2>4
<1>5. op' \in [Threads -> [off : Nat, size : Nat, len : Nat, block : Nat]]
  <2>. DEFINE Op == [off : Nat, size : Nat, len : Nat, block : Nat]
  <2>1. op \in [Threads -> Op] BY DEF TypeOK
  <2>2. CASE op' = op BY <2>1, <2>2
  <2>3. CASE \/ op' = [op EXCEPT ![t].len = length] \/ op' = [op EXCEPT ![t].len = Grown(t, length)]
    BY <1>0, <1>4, <2>1, <2>3
  <2>4. CASE op' = [op EXCEPT ![t].len = length, ![t].block = LastBlock(t)]
    BY <1>0, <1>4, <2>1, <2>4
  <2>5. \/ op' = op
        \/ op' = [op EXCEPT ![t].len = length] \/ op' = [op EXCEPT ![t].len = Grown(t, length)]
        \/ op' = [op EXCEPT ![t].len = length, ![t].block = LastBlock(t)]
    BY DEF CheckDeny, WriteMeta, Upgrade, ReadMeta, ReadEnd, Release
  <2>. QED BY <2>2, <2>3, <2>4, <2>5
<1>6. w_holder' \in Threads \cup {NoThread}
  BY DEF CheckDeny, WriteMeta, Upgrade, ReadMeta, ReadEnd, Release, TypeOK, lockVars
<1>7. level' \in Nat
  <2>1. CASE level' = level BY <1>0, <2>1
  <2>2. CASE level' = level - 1 /\ Reading(t)
    BY <1>0, <2>2, LevelPositive
  <2>3. level' = level \/ (level' = level - 1 /\ Reading(t))
    BY DEF CheckDeny, WriteMeta, Upgrade, ReadMeta, ReadEnd, Release, lockVars, Reading
  <2>. QED BY <2>1, <2>2, <2>3
<1>. QED BY <1>1, <1>2, <1>3, <1>5, <1>6, <1>7 DEF TypeOK

LEMMA TypeCopy ==
  ASSUME TypeOK, NEW t \in Threads, ReadChunk(t) \/ WriteChunk(t)
  PROVE  TypeOK'
<1>0. CanCopy(t)
  BY DEF ReadChunk, WriteChunk
<1>1. /\ Chunk(t) \subseteq Positions /\ SectorAt(t) \in Sectors
      /\ op[t].off + ChunkSize(t) \in Nat /\ op[t].size - ChunkSize(t) \in Nat
  BY <1>0, ChunkInSector
<1>2. /\ UNCHANGED <<w_holder, level, deny_write_cnt, pc, pointers, ops, past, length, tree,
                    free, others>>
      /\ op' = [op EXCEPT ![t].off = @ + ChunkSize(t), ![t].size = @ - ChunkSize(t)]
  BY DEF ReadChunk, WriteChunk, Advance, ghostVars, fileVars, mapVars, lockVars
<1>3. op' \in [Threads -> [off : Nat, size : Nat, len : Nat, block : Nat]]
  BY <1>1, <1>2 DEF TypeOK
<1>4. bytes[SectorAt(t)] \in [Positions -> Byte]
  BY <1>1 DEF TypeOK
<1>5. bytes' \in [Sectors -> [Positions -> Byte]]
  <2>1. CASE ReadChunk(t)
    BY <2>1 DEF ReadChunk, fileVars, TypeOK
  <2>2. CASE WriteChunk(t)
    <3>. DEFINE new == [p \in Positions |->
                          IF p \in Chunk(t) THEN "data" ELSE bytes[SectorAt(t)][p]]
    <3>1. new \in [Positions -> Byte]
      BY <1>4 DEF Byte
    <3>2. bytes' = [bytes EXCEPT ![SectorAt(t)] = new]
      BY <1>1, <2>2 DEF WriteChunk, TypeOK
    <3>. QED BY <3>1, <3>2, BytesType DEF TypeOK
  <2>. QED BY <2>1, <2>2
<1>6. seen' \in [Threads -> SUBSET Byte]
  <2>1. CASE ReadChunk(t)
    <3>1. {bytes[SectorAt(t)][p] : p \in Chunk(t)} \subseteq Byte
      BY <1>1, <1>4
    <3>. QED BY <2>1, <3>1 DEF ReadChunk, TypeOK
  <2>2. CASE WriteChunk(t)
    BY <2>2 DEF WriteChunk, TypeOK
  <2>. QED BY <2>1, <2>2
<1>. QED BY <1>2, <1>3, <1>5, <1>6 DEF TypeOK

\* Min(free) is a free sector.
LEMMA FirstFree ==
  ASSUME TypeOK, free # {}
  PROVE  Min(free) \in free /\ Min(free) \in Sectors
<1>1. Sectors \subseteq Nat /\ free \subseteq Sectors
  BY InodeAssumption DEF TypeOK
<1>2. free \in SUBSET Nat
  BY <1>1
<1>3. Min(free) \in free
  BY <1>2, LeastElement
<1>. QED BY <1>1, <1>3

\* What Allocate hands to a lookup.
LEMMA AllocateGives ==
  ASSUME TypeOK, DOMAIN pointers = Threads, NEW t \in Threads, Allocate(t)
  PROVE  \E node \in Missing(t) :
           /\ DOMAIN pointers' = Threads
           /\ \A u \in Threads \ {t} : pointers'[u] = pointers[u]
           /\ DOMAIN pointers'[t] = DOMAIN pointers[t] \cup {node}
           /\ node \notin DOMAIN pointers[t]
           /\ pointers'[t][node] = Min(free)
           /\ \A n \in DOMAIN pointers[t] : pointers'[t][n] = pointers[t][n]
           /\ Range(pointers'[t]) = Range(pointers[t]) \cup {Min(free)}
<1>1. PICK node \in Missing(t) :
        pointers' = [pointers EXCEPT ![t] =
                       [n \in DOMAIN @ \cup {node} |-> IF n = node THEN Min(free) ELSE @[n]]]
  BY DEF Allocate
<1>2. node \notin DOMAIN pointers[t]
  BY DEF Missing
<1>. DEFINE new == [n \in DOMAIN pointers[t] \cup {node} |->
                      IF n = node THEN Min(free) ELSE pointers[t][n]]
<1>3. pointers' = [pointers EXCEPT ![t] = new]
  BY <1>1
<1>4. pointers'[t] = new
  BY <1>3
<1>5. Range(new) = Range(pointers[t]) \cup {Min(free)}
  <2>1. \A n \in DOMAIN pointers[t] : new[n] = pointers[t][n]
    BY <1>2
  <2>2. new[node] = Min(free) /\ DOMAIN new = DOMAIN pointers[t] \cup {node}
    OBVIOUS
  <2>. HIDE DEF new
  <2>. QED BY <2>1, <2>2 DEF Range
<1>6. /\ DOMAIN pointers' = Threads
      /\ \A u \in Threads \ {t} : pointers'[u] = pointers[u]
  BY <1>3
<1>7. /\ DOMAIN pointers'[t] = DOMAIN pointers[t] \cup {node}
      /\ pointers'[t][node] = Min(free)
      /\ \A n \in DOMAIN pointers[t] : pointers'[t][n] = pointers[t][n]
  BY <1>2, <1>4
<1>8. Range(pointers'[t]) = Range(pointers[t]) \cup {Min(free)}
  BY <1>4, <1>5
<1>. QED BY <1>2, <1>6, <1>7, <1>8

\* What a lookup that ends, in either way, leaves behind.
LEMMA LookupEmpties ==
  ASSUME DOMAIN pointers = Threads, NEW t \in Threads, pointers' = [pointers EXCEPT ![t] = << >>]
  PROVE  /\ DOMAIN pointers' = Threads
         /\ \A u \in Threads \ {t} : pointers'[u] = pointers[u]
         /\ DOMAIN pointers'[t] = {} /\ Range(pointers'[t]) = {}
BY DEF Range

\* The tree after LookupAdds.
LEMMA TreeGrows ==
  ASSUME LookupOK, NEW t \in Threads,
         tree' = [n \in DOMAIN tree \cup DOMAIN pointers[t] |->
                    IF n \in DOMAIN tree THEN tree[n] ELSE pointers[t][n]]
  PROVE  /\ DOMAIN tree' = DOMAIN tree \cup DOMAIN pointers[t]
         /\ DOMAIN tree \cap DOMAIN pointers[t] = {}
         /\ \A n \in DOMAIN tree : tree'[n] = tree[n]
         /\ \A n \in DOMAIN pointers[t] : tree'[n] = pointers[t][n]
         /\ Range(tree') = Range(tree) \cup Range(pointers[t])
<1>1. DOMAIN tree \cap DOMAIN pointers[t] = {}
  BY DEF LookupOK
<1>2. /\ DOMAIN tree' = DOMAIN tree \cup DOMAIN pointers[t]
      /\ \A n \in DOMAIN tree : tree'[n] = tree[n]
      /\ \A n \in DOMAIN pointers[t] : tree'[n] = pointers[t][n]
  BY <1>1
<1>3. Range(tree') = Range(tree) \cup Range(pointers[t])
  BY <1>2 DEF Range
<1>. QED BY <1>1, <1>2, <1>3

\* The end of a growth.
LEMMA GrowthEndsType ==
  ASSUME TypeOK, NEW t \in Threads, GrowthEnds(t)
  PROVE  /\ op' \in [Threads -> [off : Nat, size : Nat, len : Nat, block : Nat]]
         /\ pc' \in [Threads -> PC] /\ Grown(t, op[t].len) \in Nat
<1>1. /\ op[t].off \in Nat /\ op[t].size \in Nat /\ op[t].len \in Nat
      /\ op[t].off + op[t].size \in Nat
  BY DEF TypeOK
<1>2. Max({op[t].len, op[t].off + op[t].size}) \in {op[t].len, op[t].off + op[t].size}
  BY <1>1, GreaterOfTwo
<1>3. Grown(t, op[t].len) \in Nat
  BY <1>1, <1>2 DEF Grown
<1>4. op' = [op EXCEPT ![t].len = Grown(t, op[t].len)]
  BY DEF GrowthEnds, TypeOK
<1>. QED BY <1>3, <1>4 DEF GrowthEnds, TypeOK, PC

LEMMA TypeLookup ==
  ASSUME TypeOK, LookupOK, NEW t \in Threads,
         Allocate(t) \/ LookupFails(t) \/ LookupFinds(t) \/ LookupAdds(t) \/ WriteEnd(t)
  PROVE  TypeOK'
<1>. DEFINE OpType == [Threads -> [off : Nat, size : Nat, len : Nat, block : Nat]]
<1>0. DOMAIN pointers = Threads /\ Range(pointers[t]) \subseteq Sectors
  BY DEF LookupOK, TypeOK
<1>1. CASE Allocate(t)
  <2>1. /\ UNCHANGED <<w_holder, level, deny_write_cnt, length, tree, bytes, others, pc, op,
                      seen, ops, past>>
        /\ free # {} /\ free' = free \ {Min(free)}
    BY <1>1 DEF Allocate, lockVars, fileVars, ghostVars
  <2>2. Min(free) \in Sectors
    BY <2>1, FirstFree
  <2>3. PICK node \in Missing(t) :
           /\ \A u \in Threads \ {t} : pointers'[u] = pointers[u]
           /\ Range(pointers'[t]) = Range(pointers[t]) \cup {Min(free)}
    BY <1>0, <1>1, AllocateGives
  <2>4. \A u \in Threads : Range(pointers'[u]) \subseteq Sectors
    <3>1. \A u \in Threads \ {t} : Range(pointers'[u]) \subseteq Sectors
      BY <2>3 DEF TypeOK
    <3>2. Range(pointers'[t]) \subseteq Sectors
      BY <1>0, <2>2, <2>3
    <3>. QED BY <3>1, <3>2
  <2>5. free' \subseteq Sectors
    BY <2>1 DEF TypeOK
  <2>. QED BY <2>1, <2>4, <2>5 DEF TypeOK
<1>2. CASE LookupFails(t)
  <2>1. /\ UNCHANGED <<w_holder, level, deny_write_cnt, length, tree, bytes, others,
                      seen, ops>>
        /\ free' = free \cup Range(pointers[t]) /\ past' \subseteq Events
        /\ pointers' = [pointers EXCEPT ![t] = << >>] /\ GrowthEnds(t)
    BY <1>2 DEF LookupFails, lockVars, fileVars, ghostVars, Note, Events, TypeOK
  <2>2. op' \in OpType /\ pc' \in [Threads -> PC]
    BY <2>1, GrowthEndsType
  <2>3. \A u \in Threads : Range(pointers'[u]) \subseteq Sectors
    BY <1>0, <2>1, LookupEmpties DEF TypeOK
  <2>4. free' \subseteq Sectors
    BY <1>0, <2>1 DEF TypeOK
  <2>. QED BY <2>1, <2>2, <2>3, <2>4 DEF TypeOK
<1>3. CASE LookupFinds(t)
  <2>1. /\ UNCHANGED <<w_holder, level, deny_write_cnt, length, tree, bytes, free, others,
                      pointers, seen, ops, past>>
        /\ GrowthEnds(t)
    BY <1>3 DEF LookupFinds, lockVars, fileVars, ghostVars, mapVars
  <2>2. op' \in OpType /\ pc' \in [Threads -> PC]
    BY <2>1, GrowthEndsType
  <2>. QED BY <2>1, <2>2 DEF TypeOK
<1>4. CASE LookupAdds(t)
  <2>1. /\ UNCHANGED <<w_holder, level, deny_write_cnt, length, free, others,
                      seen, ops, past>>
        /\ pointers' = [pointers EXCEPT ![t] = << >>]
        /\ bytes' = [bytes EXCEPT ![pointers[t][Path(op[t].block)]] = [p \in Positions |-> "zero"]]
        /\ tree' = [n \in DOMAIN tree \cup DOMAIN pointers[t] |->
                      IF n \in DOMAIN tree THEN tree[n] ELSE pointers[t][n]]
    BY <1>4 DEF LookupAdds, lockVars, fileVars, ghostVars, mapVars
  <2>2. op' \in OpType /\ pc' \in [Threads -> PC]
    <3>1. CASE GrowthEnds(t)
      BY <3>1, GrowthEndsType
    <3>2. CASE op[t].block > 0 /\ op' = [op EXCEPT ![t].block = @ - 1] /\ pc' = pc
      <4>1. op[t].block - 1 \in Nat BY <3>2 DEF TypeOK
      <4>. QED BY <3>2, <4>1 DEF TypeOK
    <3>. QED BY <1>4, <3>1, <3>2 DEF LookupAdds
  <2>3. \A u \in Threads : Range(pointers'[u]) \subseteq Sectors
    BY <1>0, <2>1, LookupEmpties DEF TypeOK
  <2>4. bytes' \in [Sectors -> [Positions -> Byte]]
    <3>1. [p \in Positions |-> "zero"] \in [Positions -> Byte]
      BY DEF Byte
    <3>. QED BY <2>1, <3>1, BytesType DEF TypeOK
  <2>5. \A n \in DOMAIN tree' : n \in Seq(Nat) /\ Len(n) <= 3 /\ tree'[n] \in Sectors
    <3>0. /\ DOMAIN tree' = DOMAIN tree \cup DOMAIN pointers[t]
          /\ \A n \in DOMAIN tree : tree'[n] = tree[n]
          /\ \A n \in DOMAIN pointers[t] : tree'[n] = pointers[t][n]
      BY <2>1, TreeGrows
    <3>1. \A n \in DOMAIN tree : n \in Seq(Nat) /\ Len(n) <= 3 /\ tree'[n] \in Sectors
      BY <3>0 DEF TypeOK
    <3>2. ASSUME NEW n \in DOMAIN pointers[t]
          PROVE  n \in Seq(Nat) /\ Len(n) <= 3 /\ tree'[n] \in Sectors
      <4>1. n \in Nodes(op[t].block) /\ op[t].block \in Nat
        BY DEF LookupOK, TypeOK
      <4>2. n \in Seq(Nat) /\ Len(n) \in 1 .. 3
        BY <4>1, PathNodes
      <4>3. pointers[t][n] \in Range(pointers[t])
        BY DEF Range
      <4>4. tree'[n] \in Sectors
        BY <1>0, <3>0, <4>3
      <4>5. Len(n) <= 3
        <5>1. \A k \in 1 .. 3 : k <= 3 OBVIOUS
        <5>. QED BY <4>2, <5>1, Zenon
      <4>. QED BY <4>2, <4>4, <4>5
    <3>. QED BY <3>0, <3>1, <3>2
  <2>. QED BY <2>1, <2>2, <2>3, <2>4, <2>5 DEF TypeOK
<1>5. CASE WriteEnd(t)
  <2>1. /\ UNCHANGED <<w_holder, level, deny_write_cnt, tree, bytes, free, others,
                      pointers, op, seen, ops, past>>
        /\ pc' = [pc EXCEPT ![t] = "release"] /\ length' = op[t].len
    BY <1>5 DEF WriteEnd, lockVars, fileVars, ghostVars, mapVars
  <2>2. pc' \in [Threads -> PC] /\ length' \in Nat
    BY <2>1 DEF TypeOK, PC
  <2>. QED BY <2>1, <2>2 DEF TypeOK
<1>. QED BY <1>1, <1>2, <1>3, <1>4, <1>5

LEMMA TypeOthers ==
  ASSUME TypeOK,
         inode_deny_write \/ inode_allow_write \/ free_map_allocate \/ free_map_release
  PROVE  TypeOK'
<1>1. CASE inode_deny_write \/ inode_allow_write
  <2>1. /\ UNCHANGED <<w_holder, level, length, tree, bytes, free, others, pc, op,
                      pointers, seen, ops, past>>
    BY <1>1 DEF inode_deny_write, inode_allow_write, lockVars, fileVars, ghostVars, mapVars
  <2>2. deny_write_cnt' \in 0 .. MaxDeny
    <3>1. MaxDeny \in Nat /\ deny_write_cnt \in 0 .. MaxDeny
      BY InodeAssumption DEF TypeOK
    <3>. QED BY <1>1, <3>1 DEF inode_deny_write, inode_allow_write
  <2>. QED BY <2>1, <2>2 DEF TypeOK
<1>2. CASE free_map_allocate
  <2>1. /\ UNCHANGED <<w_holder, level, deny_write_cnt, length, tree, pc, op,
                      pointers, seen, ops, past>>
        /\ free # {} /\ others' = others \cup {Min(free)} /\ free' = free \ {Min(free)}
        /\ bytes' = [bytes EXCEPT ![Min(free)] = [p \in Positions |-> "junk"]]
    BY <1>2 DEF free_map_allocate, lockVars, fileVars, ghostVars, mapVars
  <2>2. others' \subseteq Sectors /\ free' \subseteq Sectors
    BY <2>1, FirstFree DEF TypeOK
  <2>3. bytes' \in [Sectors -> [Positions -> Byte]]
    <3>1. [p \in Positions |-> "junk"] \in [Positions -> Byte]
      BY DEF Byte
    <3>. QED BY <2>1, <3>1, BytesType DEF TypeOK
  <2>. QED BY <2>1, <2>2, <2>3 DEF TypeOK
<1>3. CASE free_map_release
  <2>1. /\ UNCHANGED <<w_holder, level, deny_write_cnt, length, tree, bytes, pc, op,
                      pointers, seen, ops, past>>
        /\ free' \subseteq Sectors /\ others' \subseteq Sectors
    BY <1>3 DEF free_map_release, lockVars, fileVars, ghostVars, TypeOK
  <2>. QED BY <2>1 DEF TypeOK
<1>. QED BY <1>1, <1>2, <1>3

LEMMA TypeStep ==
  ASSUME TypeOK, LockOK, LookupOK, [Next]_vars
  PROVE  TypeOK'
<1>1. ASSUME NEW t \in Threads, Moves(t) PROVE TypeOK'
  BY <1>1, TypeBegin, TypeMeta, TypeCopy, TypeLookup DEF Moves, Step
<1>. QED BY <1>1, TypeOthers, TypeUntouched, NextCases

\* What a lookup works with stays between its block and the tree.
LEMMA LookupStep ==
  ASSUME TypeOK, LockOK, LookupOK, [Next]_vars
  PROVE  LookupOK'
<1>t. /\ pc \in [Threads -> PC]
      /\ op \in [Threads -> [off : Nat, size : Nat, len : Nat, block : Nat]]
  BY DEF TypeOK
<1>l. /\ DOMAIN pointers = Threads
      /\ \A u \in Threads : pc[u] # "lookup" => DOMAIN pointers[u] = {}
      /\ \A u \in Threads : DOMAIN pointers[u] \subseteq Nodes(op[u].block) \ DOMAIN tree
  BY DEF LookupOK
<1>q. ASSUME pointers' = pointers, tree' = tree,
             \A u \in Threads : \/ DOMAIN pointers[u] = {}
                                \/ pc'[u] = pc[u] /\ op'[u].block = op[u].block
      PROVE  LookupOK'
  <2>1. \A u \in Threads : pc'[u] # "lookup" => DOMAIN pointers'[u] = {}
    BY <1>l, <1>q
  <2>2. \A u \in Threads : DOMAIN pointers'[u] \subseteq Nodes(op'[u].block) \ DOMAIN tree'
    <3>1. TAKE u \in Threads
    <3>2. CASE DOMAIN pointers[u] = {} BY <1>q, <3>2
    <3>3. CASE op'[u].block = op[u].block BY <1>l, <1>q, <3>3
    <3>. QED BY <1>q, <3>2, <3>3
  <2>3. Nodes(0)' = Nodes(0) /\ \A u \in Threads : Nodes(op[u].block)' = Nodes(op'[u].block)
    BY DEF Nodes, Path
  <2>. QED BY <1>l, <1>q, <2>1, <2>2, <2>3 DEF LookupOK
<1>1. ASSUME NEW t \in Threads, Moves(t) PROVE LookupOK'
  <2>1. CASE \/ WriteBegin(t) \/ ReadBegin(t) \/ CheckDeny(t) \/ WriteMeta(t) \/ Upgrade(t)
             \/ ReadMeta(t) \/ ReadEnd(t) \/ Release(t) \/ ReadChunk(t) \/ WriteChunk(t)
             \/ WriteEnd(t) \/ LookupFinds(t)
    <3>1. pointers' = pointers /\ tree' = tree
      BY <2>1 DEF WriteBegin, ReadBegin, Begin, CheckDeny, WriteMeta, Upgrade, ReadMeta, ReadEnd,
           Release, ReadChunk, WriteChunk, WriteEnd, LookupFinds, fileVars
    <3>2. \A u \in Threads \ {t} : pc'[u] = pc[u] /\ op'[u] = op[u]
      BY <1>t, <2>1 DEF WriteBegin, ReadBegin, Begin, CheckDeny, WriteMeta, Upgrade, ReadMeta,
           ReadEnd, Release, ReadChunk, WriteChunk, WriteEnd, LookupFinds, GrowthEnds, Advance
    <3>3. DOMAIN pointers[t] = {}
      BY <1>l, <2>1 DEF WriteBegin, ReadBegin, Begin, CheckDeny, WriteMeta, Upgrade, ReadMeta,
           ReadEnd, Release, ReadChunk, WriteChunk, WriteEnd, LookupFinds
    <3>4. \A u \in Threads : \/ DOMAIN pointers[u] = {}
                             \/ pc'[u] = pc[u] /\ op'[u].block = op[u].block
      BY <3>2, <3>3
    <3>. QED BY <1>q, <3>1, <3>4
  <2>2. CASE Allocate(t)
    <3>1. UNCHANGED <<pc, op, tree>> /\ pc[t] = "lookup"
      BY <2>2 DEF Allocate, fileVars
    <3>2. PICK node \in Missing(t) :
           /\ DOMAIN pointers' = Threads
           /\ \A u \in Threads \ {t} : pointers'[u] = pointers[u]
           /\ DOMAIN pointers'[t] = DOMAIN pointers[t] \cup {node}
      BY <1>l, <2>2, AllocateGives
    <3>3. node \in Nodes(op[t].block) \ DOMAIN tree
      BY DEF Missing
    <3>4. \A u \in Threads : DOMAIN pointers'[u] \subseteq Nodes(op[u].block) \ DOMAIN tree
      BY <1>l, <3>2, <3>3
    <3>5. \A u \in Threads : pc[u] # "lookup" => DOMAIN pointers'[u] = {}
      BY <1>l, <3>1, <3>2
    <3>6. \A u \in Threads : Nodes(op[u].block)' = Nodes(op[u].block)
      BY <3>1 DEF Nodes, Path
    <3>. QED BY <3>1, <3>2, <3>4, <3>5, <3>6 DEF LookupOK
  <2>3. CASE LookupFails(t) \/ LookupAdds(t)
    <3>1. pointers' = [pointers EXCEPT ![t] = << >>] /\ pc[t] = "lookup" /\ w_holder = t
      BY <2>3 DEF LookupFails, LookupAdds, LockOK
    <3>2. \A u \in Threads \ {t} : DOMAIN pointers[u] = {}
      BY <1>l, <3>1 DEF LockOK
    <3>3. DOMAIN pointers' = Threads /\ \A u \in Threads : DOMAIN pointers'[u] = {}
      BY <1>l, <3>1, <3>2, LookupEmpties
    <3>. QED BY <3>3 DEF LookupOK
  <2>. QED BY <1>1, <2>1, <2>2, <2>3 DEF Moves, Step
<1>2. CASE \/ inode_deny_write \/ inode_allow_write
           \/ free_map_allocate \/ free_map_release \/ UNCHANGED vars
  <2>1. UNCHANGED <<pointers, tree, pc, op>>
    BY <1>2 DEF inode_deny_write, inode_allow_write, free_map_allocate, free_map_release,
                fileVars, vars
  <2>. QED BY <1>q, <2>1
<1>. QED BY <1>1, <1>2, NextCases

\* The steps that move sectors, and all others.
LEMMA SectorMoves ==
  ASSUME [Next]_vars
  PROVE  \/ Quiet
         \/ \E t \in Threads : Allocate(t) \/ LookupFails(t) \/ LookupAdds(t)
         \/ free_map_allocate \/ free_map_release
<1>1. ASSUME NEW t \in Threads, Moves(t), ~ Allocate(t), ~ LookupFails(t), ~ LookupAdds(t)
      PROVE  Quiet
  BY <1>1 DEF Moves, Step, Quiet, WriteBegin, ReadBegin, Begin, CheckDeny, WriteMeta, Upgrade,
       ReadMeta, ReadEnd, Release, ReadChunk, WriteChunk, WriteEnd, LookupFinds,
       fileVars, mapVars
<1>2. inode_deny_write \/ inode_allow_write \/ UNCHANGED vars => Quiet
  BY DEF inode_deny_write, inode_allow_write, vars, Quiet, fileVars, mapVars
<1>. QED BY <1>1, <1>2, NextCases

\* A sector keeps at most one use.
LEMMA UnsharedStep ==
  ASSUME TypeOK, LockOK, LookupOK, Unshared, [Next]_vars
  PROVE  Unshared'
<1>l. /\ DOMAIN pointers = Threads
      /\ \A u \in Threads : pc[u] # "lookup" => DOMAIN pointers[u] = {}
  BY DEF LookupOK
<1>u. /\ IsInjective(tree) /\ \A u \in Threads : IsInjective(pointers[u])
      /\ free \cap others = {}
      /\ Range(tree) \cap (free \cup others) = {}
      /\ \A u \in Threads : Range(pointers[u]) \cap (free \cup others \cup Range(tree)) = {}
  BY DEF Unshared
<1>1. CASE Quiet
  BY <1>1 DEF Quiet, Unshared
<1>2. ASSUME NEW t \in Threads, Allocate(t) PROVE Unshared'
  <2>1. /\ UNCHANGED <<tree, others>> /\ free # {} /\ free' = free \ {Min(free)}
        /\ pc[t] = "lookup" /\ w_holder = t
    BY <1>2 DEF Allocate, fileVars, LockOK
  <2>2. Min(free) \in free
    BY <2>1, FirstFree
  <2>3. PICK node :
           /\ DOMAIN pointers' = Threads
           /\ \A u \in Threads \ {t} : pointers'[u] = pointers[u]
           /\ DOMAIN pointers'[t] = DOMAIN pointers[t] \cup {node}
           /\ node \notin DOMAIN pointers[t]
           /\ pointers'[t][node] = Min(free)
           /\ \A n \in DOMAIN pointers[t] : pointers'[t][n] = pointers[t][n]
           /\ Range(pointers'[t]) = Range(pointers[t]) \cup {Min(free)}
    BY <1>l, <1>2, AllocateGives
  <2>4. \A n \in DOMAIN pointers[t] : pointers[t][n] # Min(free)
    BY <1>u, <2>2 DEF Range
  <2>5. IsInjective(pointers'[t])
    BY <1>u, <2>3, <2>4 DEF IsInjective
  <2>6. \A u \in Threads : IsInjective(pointers'[u])
    BY <1>u, <2>3, <2>5
  <2>7. \A u \in Threads \ {t} : Range(pointers'[u]) = {}
    BY <1>l, <2>1, <2>3 DEF LockOK, Range
  <2>8. Range(pointers'[t]) \cap (free' \cup others \cup Range(tree)) = {}
    BY <1>u, <2>1, <2>2, <2>3
  <2>9. \A u \in Threads : Range(pointers'[u]) \cap (free' \cup others \cup Range(tree)) = {}
    BY <2>7, <2>8
  <2>10. free' \cap others = {} /\ Range(tree) \cap (free' \cup others) = {}
    BY <1>u, <2>1
  <2>. QED BY <1>u, <2>1, <2>6, <2>9, <2>10 DEF Unshared
<1>3. ASSUME NEW t \in Threads, LookupFails(t) \/ LookupAdds(t) PROVE Unshared'
  <2>1. /\ pointers' = [pointers EXCEPT ![t] = << >>] /\ pc[t] = "lookup" /\ w_holder = t
        /\ others' = others
    BY <1>3 DEF LookupFails, LookupAdds, LockOK, mapVars
  <2>2. \A u \in Threads \ {t} : DOMAIN pointers[u] = {}
    BY <1>l, <2>1 DEF LockOK
  <2>3. \A u \in Threads : DOMAIN pointers'[u] = {}
    BY <1>l, <2>1, <2>2, LookupEmpties
  <2>4. \A u \in Threads : IsInjective(pointers'[u]) /\ Range(pointers'[u]) = {}
    BY <2>3 DEF IsInjective, Range
  <2>5. CASE LookupFails(t)
    <3>1. tree' = tree /\ free' = free \cup Range(pointers[t])
      BY <2>5 DEF LookupFails, fileVars
    <3>2. free' \cap others = {} /\ Range(tree) \cap (free' \cup others) = {}
      BY <1>u, <3>1
    <3>. QED BY <1>u, <2>1, <2>4, <3>1, <3>2 DEF Unshared
  <2>6. CASE LookupAdds(t)
    <3>1. /\ free' = free
          /\ DOMAIN tree' = DOMAIN tree \cup DOMAIN pointers[t]
          /\ \A n \in DOMAIN tree : tree'[n] = tree[n]
          /\ \A n \in DOMAIN pointers[t] : tree'[n] = pointers[t][n]
          /\ Range(tree') = Range(tree) \cup Range(pointers[t])
      BY <2>6, TreeGrows DEF LookupAdds, mapVars
    <3>2. \A m \in DOMAIN tree, n \in DOMAIN pointers[t] : tree[m] # pointers[t][n]
      BY <1>u DEF Range
    <3>3. IsInjective(tree')
      BY <1>u, <3>1, <3>2 DEF IsInjective
    <3>4. Range(tree') \cap (free \cup others) = {}
      BY <1>u, <3>1
    <3>. QED BY <1>u, <2>1, <2>4, <3>1, <3>3, <3>4 DEF Unshared
  <2>. QED BY <1>3, <2>5, <2>6
<1>4. CASE free_map_allocate \/ free_map_release
  <2>1. tree' = tree /\ pointers' = pointers
    BY <1>4 DEF free_map_allocate, free_map_release, fileVars
  <2>2. free' \cup others' = free \cup others /\ free' \cap others' = {}
    <3>1. CASE free_map_allocate
      <4>1. /\ free # {} /\ others' = others \cup {Min(free)} /\ free' = free \ {Min(free)}
        BY <3>1 DEF free_map_allocate
      <4>2. Min(free) \in free BY <4>1, FirstFree
      <4>. QED BY <1>u, <4>1, <4>2
    <3>2. CASE free_map_release
      <4>1. PICK s \in others : others' = others \ {s} /\ free' = free \cup {s}
        BY <3>2 DEF free_map_release
      <4>. QED BY <1>u, <4>1
    <3>. QED BY <1>4, <3>1, <3>2
  <2>3. /\ Range(tree) \cap (free' \cup others') = {}
        /\ \A u \in Threads : Range(pointers[u]) \cap (free' \cup others' \cup Range(tree)) = {}
    BY <1>u, <2>2
  <2>. QED BY <1>u, <2>1, <2>2, <2>3 DEF Unshared
<1>. QED BY <1>1, <1>2, <1>3, <1>4, SectorMoves

\* A sector keeps at least one use.
LEMMA NoneLostStep ==
  ASSUME TypeOK, LockOK, LookupOK, NoneLost, [Next]_vars
  PROVE  NoneLost'
<1>l. /\ DOMAIN pointers = Threads
      /\ \A u \in Threads : pc[u] # "lookup" => DOMAIN pointers[u] = {}
  BY DEF LookupOK
<1>n. \A s \in Sectors : \/ s \in free \/ s \in others \/ s \in Range(tree)
                         \/ \E u \in Threads : s \in Range(pointers[u])
  BY DEF NoneLost
<1>1. CASE Quiet
  BY <1>1 DEF Quiet, NoneLost
<1>2. ASSUME NEW t \in Threads, Allocate(t) PROVE NoneLost'
  <2>1. UNCHANGED <<tree, others>> /\ free' = free \ {Min(free)}
    BY <1>2 DEF Allocate, fileVars
  <2>2. PICK node :
           /\ \A u \in Threads \ {t} : pointers'[u] = pointers[u]
           /\ Range(pointers'[t]) = Range(pointers[t]) \cup {Min(free)}
    BY <1>l, <1>2, AllocateGives
  <2>3. \A u \in Threads : Range(pointers[u]) \subseteq Range(pointers'[u])
    BY <2>2
  <2>4. Min(free) \in Range(pointers'[t])
    BY <2>2
  <2>5. \A s \in Sectors : \/ s \in free' \/ s \in others \/ s \in Range(tree)
                           \/ \E u \in Threads : s \in Range(pointers'[u])
    BY <1>n, <2>1, <2>3, <2>4
  <2>. QED BY <2>1, <2>5 DEF NoneLost
<1>3. ASSUME NEW t \in Threads, LookupFails(t) \/ LookupAdds(t) PROVE NoneLost'
  <2>1. pc[t] = "lookup" /\ w_holder = t /\ others' = others
    BY <1>3 DEF LookupFails, LookupAdds, LockOK, mapVars
  <2>2. \A u \in Threads \ {t} : Range(pointers[u]) = {}
    BY <1>l, <2>1 DEF LockOK, Range
  <2>3. \A s \in Sectors : s \in free \cup others \cup Range(tree) \cup Range(pointers[t])
    BY <1>n, <2>2
  <2>4. \A s \in Sectors : s \in free' \cup others' \cup Range(tree')
    <3>1. CASE LookupFails(t)
      <4>1. tree' = tree /\ free' = free \cup Range(pointers[t])
        BY <3>1 DEF LookupFails, fileVars
      <4>. QED BY <2>1, <2>3, <4>1
    <3>2. CASE LookupAdds(t)
      <4>1. free' = free /\ Range(tree') = Range(tree) \cup Range(pointers[t])
        BY <3>2, TreeGrows DEF LookupAdds, mapVars
      <4>. QED BY <2>1, <2>3, <4>1
    <3>. QED BY <1>3, <3>1, <3>2
  <2>. QED BY <2>4 DEF NoneLost
<1>4. CASE free_map_allocate \/ free_map_release
  <2>1. tree' = tree /\ pointers' = pointers
    BY <1>4 DEF free_map_allocate, free_map_release, fileVars
  <2>2. \A s : s \in free \cup others => s \in free' \cup others'
    BY <1>4 DEF free_map_allocate, free_map_release
  <2>. QED BY <1>n, <2>1, <2>2 DEF NoneLost
<1>. QED BY <1>1, <1>2, <1>3, <1>4, SectorMoves

\* LookupAdds links one block, and that block was not there.
LEMMA BlockAdded ==
  ASSUME TypeOK, LookupOK, PrefixClosed, NEW t \in Threads, LookupAdds(t)
  PROVE  /\ op[t].block \in Nat
         /\ ~ Present(op[t].block)
         /\ Path(op[t].block) \in DOMAIN pointers[t]
         /\ Nodes(op[t].block) \subseteq DOMAIN tree'
         /\ \A n \in DOMAIN pointers[t] : Len(n) = 3 => n = Path(op[t].block)
         /\ \A u \in Nat : Present(u)' <=> Present(u) \/ u = op[t].block
<1>. DEFINE b == op[t].block
<1>1. b \in Nat
  BY DEF TypeOK
<1>2. /\ Nodes(b) \subseteq DOMAIN tree \cup DOMAIN pointers[t] /\ DOMAIN pointers[t] # {}
      /\ DOMAIN pointers[t] \subseteq Nodes(b) \ DOMAIN tree
  BY DEF LookupAdds, Missing, LookupOK
<1>3. DOMAIN tree' = DOMAIN tree \cup DOMAIN pointers[t]
  BY TreeGrows DEF LookupAdds
<1>. HIDE DEF b
<1>4. ~ Present(b)
  <2>1. ASSUME Present(b) PROVE FALSE
    <3>1. Nodes(b) \subseteq DOMAIN tree
      BY <1>1, <2>1 DEF PrefixClosed
    <3>. QED BY <1>2, <3>1
  <2>. QED BY <2>1
<1>5. /\ Path(b) \in Nodes(b)
      /\ \A n \in Nodes(b) : Len(n) = 3 => n = Path(b)
  BY <1>1, PathNodes
<1>6. Path(b) \in DOMAIN pointers[t]
  BY <1>2, <1>4, <1>5 DEF Present
<1>7. \A n \in DOMAIN pointers[t] : Len(n) = 3 => n = Path(b)
  BY <1>2, <1>5
<1>8. ASSUME NEW u \in Nat PROVE Present(u)' <=> Present(u) \/ u = b
  <2>1. Present(u)' <=> Path(u) \in DOMAIN tree \/ Path(u) \in DOMAIN pointers[t]
    BY <1>3 DEF Present, Path
  <2>2. ASSUME Path(u) \in DOMAIN pointers[t] PROVE u = b
    <3>1. Len(Path(u)) = 3 BY PathNodes
    <3>2. Path(u) = Path(b) BY <1>7, <2>2, <3>1
    <3>. QED BY <1>1, <3>2, PathInjective
  <2>. QED BY <1>6, <2>1, <2>2 DEF Present
<1>9. Nodes(b) \subseteq DOMAIN tree'
  BY <1>2, <1>3
<1>. QED BY <1>1, <1>4, <1>6, <1>7, <1>8, <1>9 DEF b

\* The steps that leave the tree alone.
LEMMA TreeMoves ==
  ASSUME [Next]_vars
  PROVE  tree' = tree \/ \E t \in Threads : LookupAdds(t)
<1>1. Quiet \/ free_map_allocate \/ free_map_release => tree' = tree
  BY DEF Quiet, free_map_allocate, free_map_release, fileVars
<1>2. \A t \in Threads : Allocate(t) \/ LookupFails(t) => tree' = tree
  BY DEF Allocate, LookupFails, fileVars
<1>. QED BY <1>1, <1>2, SectorMoves

\* A block that is present stays present.
LEMMA PresentStays ==
  ASSUME TypeOK, LookupOK, PrefixClosed, [Next]_vars
  PROVE  \A u \in Nat : Present(u) => Present(u)'
<1>1. CASE tree' = tree
  BY <1>1 DEF Present, Path
<1>2. CASE \E t \in Threads : LookupAdds(t)
  BY <1>2, BlockAdded
<1>. QED BY <1>1, <1>2, TreeMoves

LEMMA PrefixStep ==
  ASSUME TypeOK, LookupOK, PrefixClosed, [Next]_vars
  PROVE  PrefixClosed'
<1>1. CASE tree' = tree
  BY <1>1 DEF PrefixClosed, Present, Nodes, Path
<1>2. ASSUME NEW t \in Threads, LookupAdds(t) PROVE PrefixClosed'
  <2>1. DOMAIN tree \subseteq DOMAIN tree'
    BY <1>2, TreeGrows DEF LookupAdds
  <2>2. \A u \in Nat : Present(u)' => Nodes(u) \subseteq DOMAIN tree'
    <3>1. TAKE u \in Nat
    <3>2. CASE u = op[t].block
      BY <1>2, <3>2, BlockAdded
    <3>3. CASE Present(u)
      <4>1. Nodes(u) \subseteq DOMAIN tree BY <3>3 DEF PrefixClosed
      <4>. QED BY <2>1, <4>1
    <3>. QED BY <1>2, <3>2, <3>3, BlockAdded
  <2>3. \A u \in Nat : Nodes(u)' = Nodes(u)
    BY DEF Nodes, Path
  <2>. QED BY <2>2, <2>3 DEF PrefixClosed
<1>. QED BY <1>1, <1>2, TreeMoves

\* The contents of one sector replaced.
LEMMA OneSector ==
  ASSUME bytes \in [Sectors -> [Positions -> Byte]], NEW s, NEW new,
         bytes' = [bytes EXCEPT ![s] = new]
  PROVE  /\ \A r \in Sectors : r # s => bytes'[r] = bytes[r]
         /\ s \in Sectors => bytes'[s] = new
OBVIOUS

\* What a step may do to the bytes of a sector that is in the tree.
LEMMA BytesMove ==
  ASSUME TypeOK, LookupOK, Unshared, PrefixClosed, [Next]_vars, NEW n \in DOMAIN tree
  PROVE  /\ n \in DOMAIN tree' /\ tree'[n] = tree[n]
         /\ \A p \in Positions :
              \/ bytes'[tree[n]][p] = bytes[tree[n]][p]
              \/ bytes'[tree[n]][p] = "data"
<1>b. bytes \in [Sectors -> [Positions -> Byte]] /\ tree[n] \in Sectors
  BY DEF TypeOK
<1>r. tree[n] \in Range(tree)
  BY DEF Range
<1>1. n \in DOMAIN tree' /\ tree'[n] = tree[n]
  BY TreeMoves, TreeGrows DEF LookupAdds
<1>2. CASE bytes' = bytes
  BY <1>1, <1>2
<1>3. ASSUME NEW t \in Threads, LookupAdds(t)
      PROVE  bytes'[tree[n]] = bytes[tree[n]]
  <2>1. bytes' = [bytes EXCEPT ![pointers[t][Path(op[t].block)]] = [p \in Positions |-> "zero"]]
    BY <1>3 DEF LookupAdds
  <2>2. pointers[t][Path(op[t].block)] \in Range(pointers[t])
    BY <1>3, BlockAdded DEF Range
  <2>3. pointers[t][Path(op[t].block)] # tree[n]
    BY <1>r, <2>2 DEF Unshared
  <2>. QED BY <1>b, <2>1, <2>3, OneSector
<1>4. ASSUME free_map_allocate
      PROVE  bytes'[tree[n]] = bytes[tree[n]]
  <2>1. bytes' = [bytes EXCEPT ![Min(free)] = [p \in Positions |-> "junk"]] /\ free # {}
    BY <1>4 DEF free_map_allocate
  <2>2. Min(free) # tree[n]
    BY <1>r, <2>1, FirstFree DEF Unshared
  <2>. QED BY <1>b, <2>1, <2>2, OneSector
<1>5. ASSUME NEW t \in Threads, WriteChunk(t), NEW p \in Positions
      PROVE  bytes'[tree[n]][p] = bytes[tree[n]][p] \/ bytes'[tree[n]][p] = "data"
  <2>1. bytes' = [bytes EXCEPT ![SectorAt(t)] =
                   [q \in Positions |-> IF q \in Chunk(t) THEN "data" ELSE @[q]]]
    BY <1>5 DEF WriteChunk
  <2>2. CASE tree[n] = SectorAt(t)
    BY <1>b, <2>1, <2>2
  <2>3. CASE tree[n] # SectorAt(t)
    BY <1>b, <2>1, <2>3
  <2>. QED BY <2>2, <2>3
<1>6. \/ bytes' = bytes \/ free_map_allocate
      \/ \E t \in Threads : LookupAdds(t) \/ WriteChunk(t)
  <2>1. ASSUME NEW t \in Threads, Moves(t), ~ LookupAdds(t), ~ WriteChunk(t)
        PROVE  bytes' = bytes
    BY <2>1 DEF Moves, Step, WriteBegin, ReadBegin, Begin, CheckDeny, WriteMeta, Upgrade,
       ReadMeta, ReadEnd, Release, ReadChunk, WriteEnd, LookupFinds, LookupFails, Allocate, fileVars
  <2>2. inode_deny_write \/ inode_allow_write \/ free_map_release \/ UNCHANGED vars => bytes' = bytes
    BY DEF inode_deny_write, inode_allow_write, free_map_release, vars, fileVars
  <2>. QED BY <2>1, <2>2, NextCases
<1>. QED BY <1>1, <1>2, <1>3, <1>4, <1>5, <1>6

LEMMA NoJunkStep ==
  ASSUME TypeOK, LookupOK, Unshared, PrefixClosed, NoJunk, [Next]_vars
  PROVE  NoJunk'
<1>1. ASSUME NEW n \in DOMAIN tree, Len(n) = 3, NEW p \in Positions
      PROVE  bytes'[tree'[n]][p] # "junk"
  <2>1. tree'[n] = tree[n]
    BY BytesMove
  <2>2. bytes'[tree[n]][p] = bytes[tree[n]][p] \/ bytes'[tree[n]][p] = "data"
    BY BytesMove
  <2>3. bytes[tree[n]][p] # "junk"
    BY <1>1 DEF NoJunk
  <2>. QED BY <2>1, <2>2, <2>3
<1>2. CASE tree' = tree
  BY <1>1, <1>2 DEF NoJunk, Positions
<1>3. ASSUME NEW t \in Threads, LookupAdds(t) PROVE NoJunk'
  <2>1. /\ DOMAIN tree' = DOMAIN tree \cup DOMAIN pointers[t]
        /\ \A n \in DOMAIN pointers[t] : tree'[n] = pointers[t][n]
    BY <1>3, TreeGrows DEF LookupAdds
  <2>2. ASSUME NEW n \in DOMAIN pointers[t], Len(n) = 3, NEW p \in Positions
        PROVE  bytes'[tree'[n]][p] # "junk"
    <3>1. n = Path(op[t].block)
      BY <1>3, <2>2, BlockAdded
    <3>2. bytes' = [bytes EXCEPT ![pointers[t][Path(op[t].block)]] = [q \in Positions |-> "zero"]]
      BY <1>3 DEF LookupAdds
    <3>3. pointers[t][n] \in Sectors
      BY DEF TypeOK, Range
    <3>4. bytes'[pointers[t][n]] = [q \in Positions |-> "zero"]
      BY <3>1, <3>2, <3>3 DEF TypeOK
    <3>. QED BY <2>1, <3>4
  <2>. QED BY <1>1, <2>1, <2>2 DEF NoJunk, Positions
<1>. QED BY <1>2, <1>3, TreeMoves

LEMMA NoStaleStep ==
  ASSUME TypeOK, NoJunk, NoStaleBytes, [Next]_vars
  PROVE  NoStaleBytes'
<1>s. seen \in [Threads -> SUBSET Byte]
  BY DEF TypeOK
<1>1. ASSUME NEW t \in Threads, ReadChunk(t) PROVE NoStaleBytes'
  <2>1. /\ seen' = [seen EXCEPT ![t] = @ \cup {bytes[SectorAt(t)][p] : p \in Chunk(t)}]
        /\ CanCopy(t)
    BY <1>1 DEF ReadChunk
  <2>2. op[t].off \div BlockSize \in Nat
    BY ChunkBounds
  <2>3. Path(op[t].off \div BlockSize) \in DOMAIN tree /\ Len(Path(op[t].off \div BlockSize)) = 3
    BY <2>1, <2>2, PathNodes DEF CanCopy, Present
  <2>4. Chunk(t) \subseteq Positions
    BY <2>1, ChunkInSector
  <2>5. \A p \in Chunk(t) : bytes[SectorAt(t)][p] # "junk"
    BY <2>3, <2>4 DEF NoJunk, SectorAt
  <2>6. "junk" \notin {bytes[SectorAt(t)][p] : p \in Chunk(t)}
    BY <2>5
  <2>. QED BY <1>s, <2>1, <2>6 DEF NoStaleBytes
<1>2. ASSUME NEW t \in Threads, Moves(t), ~ ReadChunk(t) PROVE NoStaleBytes'
  <2>1. seen' = seen \/ seen' = [seen EXCEPT ![t] = {}]
    BY <1>2 DEF Moves, Step, WriteBegin, ReadBegin, Begin, CheckDeny, WriteMeta, Upgrade,
       ReadMeta, ReadEnd, Release, WriteChunk, WriteEnd, LookupFinds, LookupFails, LookupAdds, Allocate
  <2>. QED BY <1>s, <2>1 DEF NoStaleBytes
<1>3. CASE \/ inode_deny_write \/ inode_allow_write
           \/ free_map_allocate \/ free_map_release \/ UNCHANGED vars
  <2>1. seen' = seen
    BY <1>3 DEF inode_deny_write, inode_allow_write, free_map_allocate, free_map_release, vars
  <2>. QED BY <2>1 DEF NoStaleBytes
<1>. QED BY <1>1, <1>2, <1>3, NextCases

LEMMA CoreStep ==
  ASSUME Core, [Next]_vars
  PROVE  Core'
<1>1. TypeOK' /\ LockOK' /\ LookupOK'
  BY TypeStep, LockStep, LookupStep DEF Core
<1>2. Unshared' /\ NoneLost' /\ PrefixClosed'
  BY UnsharedStep, NoneLostStep, PrefixStep DEF Core
<1>3. NoJunk' /\ NoStaleBytes'
  BY NoJunkStep, NoStaleStep DEF Core
<1>. QED BY <1>1, <1>2, <1>3 DEF Core

\* A sector with one use at least, and no second one, has exactly one.
LEMMA Accounted ==
  ASSUME Core
  PROVE  SectorsAccounted
<1>. DEFINE F == {<<"free", << >>, s>> : s \in free}
            O == {<<"others", << >>, s>> : s \in others}
            T == {<<"tree", n, tree[n]>> : n \in DOMAIN tree}
            P == UNION {{<<t, n, pointers[t][n]>> : n \in DOMAIN pointers[t]} : t \in Threads}
            Uses == F \cup O \cup T \cup P
            Of(s) == {use \in Uses : use[3] = s}
<1>u. /\ IsInjective(tree) /\ \A t \in Threads : IsInjective(pointers[t])
      /\ free \cap others = {}
      /\ Range(tree) \cap (free \cup others) = {}
      /\ \A t \in Threads : Range(pointers[t]) \cap (free \cup others \cup Range(tree)) = {}
  BY DEF Core, Unshared
<1>p. \A t \in Threads, u \in Threads :
        t # u => Range(pointers[t]) = {} \/ Range(pointers[u]) = {}
  BY DEF Core, LockOK, LookupOK, Range
<1>1. ASSUME NEW s \in Sectors, NEW use, use \in F, use[3] = s
      PROVE  s \in free /\ use = <<"free", << >>, s>>
  BY <1>1
<1>2. ASSUME NEW s \in Sectors, NEW use, use \in O, use[3] = s
      PROVE  s \in others /\ use = <<"others", << >>, s>>
  BY <1>2
<1>3. ASSUME NEW s \in Sectors, NEW use, use \in T, use[3] = s
      PROVE  \E n \in DOMAIN tree : tree[n] = s /\ use = <<"tree", n, s>>
  BY <1>3
<1>4. ASSUME NEW s \in Sectors, NEW use, use \in P, use[3] = s
      PROVE  \E t \in Threads : \E n \in DOMAIN pointers[t] :
               pointers[t][n] = s /\ use = <<t, n, s>>
  BY <1>4
<1>5. ASSUME NEW s \in Sectors, NEW n \in DOMAIN tree, tree[n] = s
      PROVE  s \in Range(tree)
  BY <1>5 DEF Range
<1>6. ASSUME NEW s \in Sectors, NEW t \in Threads, NEW n \in DOMAIN pointers[t],
             pointers[t][n] = s
      PROVE  s \in Range(pointers[t])
  BY <1>6 DEF Range
<1>7. /\ \A s \in free : <<"free", << >>, s>> \in F /\ <<"free", << >>, s>>[3] = s
      /\ \A s \in others : <<"others", << >>, s>> \in O /\ <<"others", << >>, s>>[3] = s
      /\ \A n \in DOMAIN tree : <<"tree", n, tree[n]>> \in T
                                /\ <<"tree", n, tree[n]>>[3] = tree[n]
      /\ \A t \in Threads : \A n \in DOMAIN pointers[t] :
           <<t, n, pointers[t][n]>> \in P /\ <<t, n, pointers[t][n]>>[3] = pointers[t][n]
  OBVIOUS
<1>. HIDE DEF F, O, T, P
<1>8. ASSUME NEW s \in Sectors PROVE \E x : Of(s) = {x}
  <2>1. CASE s \in free
    <3>1. s \notin others /\ s \notin Range(tree)
          /\ \A t \in Threads : s \notin Range(pointers[t])
      BY <1>u, <2>1
    <3>2. Of(s) = {<<"free", << >>, s>>}
      BY <1>1, <1>2, <1>3, <1>4, <1>5, <1>6, <1>7, <2>1, <3>1
    <3>. QED BY <3>2
  <2>2. CASE s \in others
    <3>1. s \notin free /\ s \notin Range(tree)
          /\ \A t \in Threads : s \notin Range(pointers[t])
      BY <1>u, <2>2
    <3>2. Of(s) = {<<"others", << >>, s>>}
      BY <1>1, <1>2, <1>3, <1>4, <1>5, <1>6, <1>7, <2>2, <3>1
    <3>. QED BY <3>2
  <2>3. CASE s \in Range(tree)
    <3>1. s \notin free /\ s \notin others
          /\ \A t \in Threads : s \notin Range(pointers[t])
      BY <1>u, <2>3
    <3>2. PICK n \in DOMAIN tree : tree[n] = s
      BY <2>3 DEF Range
    <3>3. \A m \in DOMAIN tree : tree[m] = s => m = n
      BY <1>u, <3>2 DEF IsInjective
    <3>4. Of(s) = {<<"tree", n, s>>}
      BY <1>1, <1>2, <1>3, <1>4, <1>6, <1>7, <3>1, <3>2, <3>3
    <3>. QED BY <3>4
  <2>4. ASSUME NEW t \in Threads, s \in Range(pointers[t]) PROVE \E x : Of(s) = {x}
    <3>1. s \notin free /\ s \notin others /\ s \notin Range(tree)
      BY <1>u, <2>4
    <3>2. PICK n \in DOMAIN pointers[t] : pointers[t][n] = s
      BY <2>4 DEF Range
    <3>3. \A m \in DOMAIN pointers[t] : pointers[t][m] = s => m = n
      BY <1>u, <3>2 DEF IsInjective
    <3>4. \A u \in Threads : s \in Range(pointers[u]) => u = t
      BY <1>p, <2>4
    <3>5. \A u \in Threads : \A m \in DOMAIN pointers[u] : pointers[u][m] = s => u = t /\ m = n
      BY <1>6, <3>3, <3>4
    <3>6. Of(s) = {<<t, n, s>>}
      BY <1>1, <1>2, <1>3, <1>4, <1>5, <1>7, <3>1, <3>2, <3>5
    <3>. QED BY <3>6
  <2>. QED BY <2>1, <2>2, <2>3, <2>4 DEF Core, NoneLost
<1>9. \A s \in Sectors : Cardinality(Of(s)) = 1
  BY <1>8, FS_Singleton
<1>. QED BY <1>9 DEF SectorsAccounted, F, O, T, P

-----------------------------------------------------------------------------
\* The file that inode_create made.

LEMMA InitialNodesFinite == IsFiniteSet(InitialNodes)
<1>. DEFINE N == DivRoundUp(InitialLength)
            D == (0 .. N) \X (1 .. 3)
            f == [d \in D |-> SubSeq(Path(d[1]), 1, d[2])]
            E == {SubSeq(Path(u), 1, k) : u \in 0 .. N, k \in 1 .. 3}
<1>1. N \in Nat
  BY BlocksAreNumbers, InodeAssumption
<1>2. IsFiniteSet(0 .. N) /\ IsFiniteSet(1 .. 3)
  <2>1. N \in Int /\ 0 \in Int /\ 1 \in Int /\ 3 \in Int BY <1>1
  <2>. HIDE DEF N
  <2>2. IsFiniteSet(0 .. N) BY <2>1, FS_Interval
  <2>3. IsFiniteSet(1 .. 3) BY <2>1, FS_Interval
  <2>. QED BY <2>2, <2>3
<1>3. IsFiniteSet(D)
  BY <1>2, FS_Product
<1>4. f \in Surjection(D, E)
  <2>1. \A u \in 0 .. N, k \in 1 .. 3 : <<u, k>> \in D /\ f[<<u, k>>] = SubSeq(Path(u), 1, k)
    OBVIOUS
  <2>2. f \in [D -> E]
    OBVIOUS
  <2>3. ASSUME NEW e \in E PROVE \E d \in D : f[d] = e
    <3>1. PICK u \in 0 .. N, k \in 1 .. 3 : e = SubSeq(Path(u), 1, k)
      OBVIOUS
    <3>2. <<u, k>> \in D /\ f[<<u, k>>] = e
      BY <2>1, <3>1
    <3>. HIDE DEF f, D
    <3>. QED BY <3>2
  <2>. HIDE DEF f, D, E
  <2>. QED BY <2>2, <2>3 DEF Surjection
<1>5. IsFiniteSet(E)
  <2>. HIDE DEF D, E, f
  <2>. QED BY <1>3, <1>4, FS_Surjection
<1>6. InitialNodes = {<< >>} \cup E
  BY DEF InitialNodes, Nodes
<1>. HIDE DEF E
<1>7. IsFiniteSet({<< >>})
  BY FS_Singleton
<1>. QED BY <1>5, <1>6, <1>7, FS_Union

\* What the tree leads to at first: every block up to the end of the file and
\* one more.
LEMMA InitialPaths ==
  /\ \A n \in InitialNodes : n \in Seq(Nat) /\ Len(n) <= 3
  /\ \A n \in InitialNodes : Len(n) = 3 =>
       \E u \in 0 .. DivRoundUp(InitialLength) : n = Path(u)
  /\ \A u \in Nat : Path(u) \in InitialNodes <=> u <= DivRoundUp(InitialLength)
  /\ \A u \in 0 .. DivRoundUp(InitialLength) : Nodes(u) \subseteq InitialNodes
<1>. DEFINE N == DivRoundUp(InitialLength)
<1>1. N \in Nat
  BY BlocksAreNumbers, InodeAssumption
<1>2. InitialNodes = {<< >>} \cup UNION {Nodes(u) : u \in 0 .. N}
  BY DEF InitialNodes
<1>. HIDE DEF N
<1>3. << >> \in Seq(Nat) /\ Len(<< >>) = 0
  OBVIOUS
<1>4. ASSUME NEW u \in 0 .. N, NEW n \in Nodes(u)
      PROVE  n \in Seq(Nat) /\ Len(n) \in 1 .. 3 /\ (Len(n) = 3 => n = Path(u))
  <2>1. u \in Nat BY <1>1
  <2>. QED BY <2>1, PathNodes
<1>5. \A k \in 1 .. 3 : k <= 3
  OBVIOUS
<1>6. \A n \in InitialNodes : n = << >> \/ \E u \in 0 .. N : n \in Nodes(u)
  BY <1>2
<1>7. ASSUME NEW n \in InitialNodes
      PROVE  /\ n \in Seq(Nat) /\ Len(n) <= 3
             /\ Len(n) = 3 => \E u \in 0 .. N : n = Path(u)
  <2>1. CASE n = << >>
    BY <1>3, <2>1
  <2>2. ASSUME NEW u \in 0 .. N, n \in Nodes(u)
        PROVE  /\ n \in Seq(Nat) /\ Len(n) <= 3
               /\ Len(n) = 3 => \E v \in 0 .. N : n = Path(v)
    BY <1>4, <1>5, <2>2, Zenon
  <2>. QED BY <1>6, <2>1, <2>2
<1>8. \A u \in 0 .. N : Nodes(u) \subseteq InitialNodes
  BY <1>2
<1>9. ASSUME NEW u \in Nat PROVE Path(u) \in InitialNodes <=> u <= N
  <2>0. Len(Path(u)) = 3 /\ Path(u) \in Nodes(u)
    BY PathNodes
  <2>1. ASSUME Path(u) \in InitialNodes PROVE u <= N
    <3>1. PICK v \in 0 .. N : Path(u) = Path(v)
      BY <1>7, <2>0, <2>1
    <3>2. v \in Nat /\ v <= N BY <1>1
    <3>3. u = v
      BY <3>1, <3>2, PathInjective
    <3>. QED BY <3>2, <3>3
  <2>2. ASSUME u <= N PROVE Path(u) \in InitialNodes
    <3>1. u \in 0 .. N BY <1>1, <2>2
    <3>. QED BY <1>8, <2>0, <3>1
  <2>. QED BY <2>1, <2>2
<1>. QED BY <1>7, <1>8, <1>9 DEF N

LEMMA InitialTree ==
  ASSUME Init
  PROVE  /\ tree \in [InitialNodes -> Sectors] /\ IsInjective(tree)
         /\ free = Sectors \ Range(tree)
<1>1. PICK S \in kSubset(Cardinality(InitialNodes), Sectors) :
        /\ tree = CHOOSE f \in [InitialNodes -> S] : IsInjective(f)
        /\ free = Sectors \ S
  BY DEF Init
<1>2. S \subseteq Sectors /\ Cardinality(S) = Cardinality(InitialNodes)
  BY DEF kSubset
<1>3. IsFiniteSet(S)
  BY <1>2, FS_Subset, InodeAssumption
<1>4. ExistsBijection(InitialNodes, S)
  BY <1>2, <1>3, InitialNodesFinite, FS_SameCardinalityBij
<1>5. \E f \in [InitialNodes -> S] : IsInjective(f)
  BY <1>4 DEF ExistsBijection, Bijection, Injection
<1>6. tree \in [InitialNodes -> S] /\ IsInjective(tree)
  BY <1>1, <1>5
<1>7. tree \in Injection(InitialNodes, S)
  BY <1>6 DEF Injection
<1>8. tree \in Surjection(InitialNodes, S)
  BY <1>2, <1>3, <1>7, FS_Injection
<1>9. Range(tree) = S
  BY <1>6, <1>8 DEF Surjection, Range
<1>. QED BY <1>1, <1>2, <1>6, <1>9

LEMMA CoreInit ==
  ASSUME Init
  PROVE  Core
<1>0. /\ w_holder = NoThread /\ level = 0 /\ deny_write_cnt = 0 /\ length = InitialLength
      /\ others = {} /\ pc = [t \in Threads |-> "idle"]
      /\ op = [t \in Threads |-> [off |-> 0, size |-> 0, len |-> 0, block |-> 0]]
      /\ pointers = [t \in Threads |-> << >>] /\ seen = [t \in Threads |-> {}]
      /\ ops = 0 /\ past = {}
  BY DEF Init
<1>1. /\ tree \in [InitialNodes -> Sectors] /\ IsInjective(tree)
      /\ free = Sectors \ Range(tree)
  BY InitialTree
<1>2. bytes = [s \in Sectors |-> [p \in Positions |->
       IF \E u \in 0 .. DivRoundUp(InitialLength) : tree[Path(u)] = s
       THEN IF \E u \in 0 .. DivRoundUp(InitialLength) :
                 tree[Path(u)] = s /\ u * BlockSize + p < InitialLength
            THEN "data" ELSE "zero"
       ELSE "junk"]]
  BY DEF Init
<1>3. \A t \in Threads : DOMAIN pointers[t] = {} /\ Range(pointers[t]) = {}
  BY <1>0 DEF Range
<1>4. TypeOK
  <2>1. bytes \in [Sectors -> [Positions -> Byte]]
    BY <1>2 DEF Byte
  <2>2. pc \in [Threads -> PC]
    BY <1>0 DEF PC
  <2>3. op \in [Threads -> [off : Nat, size : Nat, len : Nat, block : Nat]]
    BY <1>0
  <2>4. deny_write_cnt \in 0 .. MaxDeny /\ ops \in 0 .. MaxOps /\ length \in Nat
    BY <1>0, InodeAssumption
  <2>5. \A n \in DOMAIN tree : n \in Seq(Nat) /\ Len(n) <= 3 /\ tree[n] \in Sectors
    BY <1>1, InitialPaths
  <2>6. seen \in [Threads -> SUBSET Byte]
    BY <1>0
  <2>7. level \in Nat /\ w_holder \in Threads \cup {NoThread} /\ past \subseteq Events
    BY <1>0
  <2>8. free \subseteq Sectors /\ others \subseteq Sectors
        /\ \A t \in Threads : Range(pointers[t]) \subseteq Sectors
    BY <1>0, <1>1, <1>3
  <2>. QED BY <2>1, <2>2, <2>3, <2>4, <2>5, <2>6, <2>7, <2>8 DEF TypeOK
<1>5. LockOK
  <2>0. NoThread \notin Threads
    BY InodeAssumption
  <2>1. Holders = {}
    BY <1>0 DEF Holders, Reading
  <2>2. IsFiniteSet(Holders) /\ Cardinality(Holders) <= level
    <3>1. IsFiniteSet({}) /\ Cardinality({}) = 0 BY FS_EmptySet
    <3>. QED BY <1>0, <2>1, <3>1
  <2>. QED BY <1>0, <2>0, <2>2 DEF LockOK
<1>6. LookupOK
  BY <1>0, <1>3 DEF LookupOK
<1>7. Unshared
  <2>1. \A t \in Threads : IsInjective(pointers[t])
    BY <1>3 DEF IsInjective
  <2>. QED BY <1>0, <1>1, <1>3, <2>1 DEF Unshared
<1>8. NoneLost
  BY <1>1 DEF NoneLost
<1>9. PrefixClosed
  <2>1. ASSUME NEW u \in Nat, Present(u) PROVE Nodes(u) \subseteq DOMAIN tree
    <3>1. u <= DivRoundUp(InitialLength)
      BY <1>1, <2>1, InitialPaths DEF Present
    <3>2. DivRoundUp(InitialLength) \in Nat
      BY BlocksAreNumbers, InodeAssumption
    <3>3. u \in 0 .. DivRoundUp(InitialLength)
      BY <3>1, <3>2
    <3>. QED BY <1>1, <3>3, InitialPaths
  <2>. QED BY <2>1 DEF PrefixClosed
<1>10. NoJunk
  <2>1. ASSUME NEW n \in DOMAIN tree, Len(n) = 3, NEW p \in Positions
        PROVE  bytes[tree[n]][p] # "junk"
    <3>1. PICK u \in 0 .. DivRoundUp(InitialLength) : n = Path(u)
      BY <1>1, <2>1, InitialPaths
    <3>2. tree[n] \in Sectors
      BY <1>1
    <3>3. \E v \in 0 .. DivRoundUp(InitialLength) : tree[Path(v)] = tree[n]
      BY <3>1
    <3>4. bytes[tree[n]][p] = IF \E v \in 0 .. DivRoundUp(InitialLength) :
                   tree[Path(v)] = tree[n] /\ v * BlockSize + p < InitialLength
            THEN "data" ELSE "zero"
      BY <1>2, <3>2, <3>3
    <3>. QED BY <3>4
  <2>. QED BY <2>1 DEF NoJunk
<1>11. NoStaleBytes
  BY <1>0 DEF NoStaleBytes
<1>. QED BY <1>4, <1>5, <1>6, <1>7, <1>8, <1>9, <1>10, <1>11 DEF Core

-----------------------------------------------------------------------------
\* Growth, as long as the disk does not fill up.

LEMMA LastBlockNat ==
  ASSUME TypeOK, NEW t \in Threads
  PROVE  LastBlock(t) \in Nat /\ op[t].off + op[t].size \in Nat /\ op[t].block \in Nat
<1>1. op[t].off + op[t].size \in Nat /\ op[t].block \in Nat
  BY DEF TypeOK
<1>. QED BY <1>1, BlocksAreNumbers DEF LastBlock

LEMMA FilledStays ==
  ASSUME TypeOK, LookupOK, PrefixClosed, [Next]_vars, NEW n \in Nat, Filled(n)
  PROVE  \A v \in 0 .. DivRoundUp(n) : Present(v)'
<1>1. \A v \in 0 .. DivRoundUp(n) : v \in Nat
  BY BlocksAreNumbers
<1>. QED BY <1>1, PresentStays DEF Filled

\* Only a thread that is growing the file can be inside lookup.
LEMMA OneGrows ==
  ASSUME LockOK, NEW t \in Threads, pc[t] = "lookup", NEW u \in Threads, pc[u] = "lookup"
  PROVE  u = t
BY DEF LockOK

LEMMA NobodyGrows ==
  ASSUME LockOK, TypeOK, NEW t \in Threads, Reading(t), NEW u \in Threads
  PROVE  pc[u] # "lookup"
<1>1. w_holder = NoThread /\ NoThread \notin Threads
  BY LevelPositive, InodeAssumption
<1>. QED BY <1>1 DEF LockOK

\* When the loop of a growth is over, every block up to the last exists.
LEMMA GrowthDone ==
  ASSUME Core, Growth, NEW t \in Threads,
         LookupFinds(t) \/ (LookupAdds(t) /\ op[t].block = 0)
  PROVE  \A v \in 0 .. LastBlock(t) : Present(v)'
<1>. DEFINE b == op[t].block
            l == LastBlock(t)
<1>0. b \in Nat /\ l \in Nat /\ pc[t] = "lookup"
  BY LastBlockNat DEF Core, LookupFinds, LookupAdds
<1>1. b <= l /\ \A u \in b + 1 .. l : Present(u)
  BY <1>0 DEF Growth, GrowthPlace
<1>2. CASE LookupFinds(t)
  <2>1. Nodes(b) \subseteq DOMAIN tree /\ tree' = tree
    BY <1>2 DEF LookupFinds, Missing, fileVars
  <2>2. Present(b)
    BY <1>0, <2>1, PathNodes DEF Present
  <2>3. \A u \in Threads : ~ Adding(u, b)
    <3>1. b \notin b + 1 .. l
      BY <1>0
    <3>. QED BY <1>0, <3>1, OneGrows DEF Adding, Core
  <2>4. DownTo(b)
    BY <1>0, <2>2, <2>3 DEF Growth, NoneSkipped
  <2>5. ASSUME NEW v \in 0 .. l PROVE Present(v)
    <3>1. v \in 0 .. b \/ v \in b + 1 .. l
      BY <1>0
    <3>. QED BY <1>1, <2>4, <3>1 DEF DownTo
  <2>6. \A v \in Nat : Present(v)' <=> Present(v)
    BY <2>1 DEF Present, Path
  <2>7. \A v \in 0 .. l : v \in Nat
    BY <1>0
  <2>. QED BY <2>5, <2>6, <2>7
<1>3. CASE LookupAdds(t) /\ b = 0
  <2>1. \A u \in Nat : Present(u)' <=> Present(u) \/ u = 0
    BY <1>3, BlockAdded DEF Core
  <2>2. \A v \in 0 .. l : v \in Nat /\ (v = 0 \/ v \in b + 1 .. l)
    BY <1>0, <1>3
  <2>. QED BY <1>1, <2>1, <2>2
<1>. QED BY <1>2, <1>3

\* The new length of a file that has grown.
LEMMA GrownFilled ==
  ASSUME TypeOK, NEW t \in Threads, NEW n \in Nat,
         \A v \in 0 .. DivRoundUp(n) : Present(v)',
         \A v \in 0 .. LastBlock(t) : Present(v)'
  PROVE  \A v \in 0 .. DivRoundUp(Grown(t, n)) : Present(v)'
<1>1. op[t].off + op[t].size \in Nat
  BY LastBlockNat
<1>2. Grown(t, n) = n \/ Grown(t, n) = op[t].off + op[t].size
  BY <1>1, GreaterOfTwo DEF Grown
<1>. QED BY <1>2 DEF LastBlock

Sized == {"read", "upgrade", "lookup", "write"}

LEMMA LensFilledStep ==
  ASSUME Core, Growth, [Next]_vars, "full" \notin past'
  PROVE  LensFilled'
<1>t. /\ pc \in [Threads -> PC] /\ length \in Nat /\ TypeOK /\ LookupOK /\ PrefixClosed /\ LockOK
      /\ op \in [Threads -> [off : Nat, size : Nat, len : Nat, block : Nat]]
  BY DEF Core, TypeOK
<1>f. /\ Filled(length)
      /\ \A t \in Threads : pc[t] \in Sized => Filled(op[t].len)
  BY DEF Growth, LensFilled, Sized
<1>s. /\ \A v \in 0 .. DivRoundUp(length) : Present(v)'
      /\ \A t \in Threads : pc[t] \in Sized => \A v \in 0 .. DivRoundUp(op[t].len) : Present(v)'
  BY <1>t, <1>f, FilledStays
<1>. DEFINE After(n) == \A v \in 0 .. DivRoundUp(n) : Present(v)'
<1>g. ASSUME After(length'), \A t \in Threads : pc'[t] \in Sized => After(op'[t].len)
      PROVE  LensFilled'
  <2>1. Filled(length)'
    BY <1>g DEF Filled, DivRoundUp
  <2>2. \A t \in Threads : pc'[t] \in Sized => Filled(op[t].len)'
    BY <1>g DEF Filled, DivRoundUp
  <2>. QED BY <2>1, <2>2 DEF LensFilled, Sized
<1>1. ASSUME NEW t \in Threads, Moves(t)
      PROVE  After(length') /\ \A u \in Threads : pc'[u] \in Sized => After(op'[u].len)
  <2>0. \A u \in Threads \ {t} : pc'[u] = pc[u] /\ op'[u] = op[u]
    BY <1>1, <1>t DEF Moves, WriteBegin, ReadBegin, Begin, Step, CheckDeny, WriteMeta, Upgrade,
         Allocate, LookupFails, LookupFinds, LookupAdds, GrowthEnds, WriteChunk, WriteEnd,
         ReadMeta, ReadChunk, ReadEnd, Release, Advance
  <2>1. \A u \in Threads \ {t} : pc'[u] \in Sized => After(op'[u].len)
    BY <1>s, <2>0
  <2>2. After(length')
    <3>1. CASE length' = length BY <1>s, <3>1
    <3>2. CASE WriteEnd(t)
      <4>1. length' = op[t].len /\ pc[t] \in Sized BY <3>2 DEF WriteEnd, Sized
      <4>. QED BY <1>s, <4>1
    <3>3. length' = length \/ WriteEnd(t)
      BY <1>1 DEF Moves, WriteBegin, ReadBegin, Begin, Step, CheckDeny, WriteMeta, Upgrade,
         Allocate, LookupFails, LookupFinds, LookupAdds, WriteChunk,
         ReadMeta, ReadChunk, ReadEnd, Release, fileVars
    <3>. QED BY <3>1, <3>2, <3>3
  <2>3. pc'[t] \in Sized => After(op'[t].len)
    <3>1. CASE WriteBegin(t) \/ ReadBegin(t) \/ CheckDeny(t) \/ WriteEnd(t) \/ ReadEnd(t) \/ Release(t)
      <4>1. pc'[t] \notin Sized
        BY <1>t, <3>1 DEF WriteBegin, ReadBegin, Begin, CheckDeny, WriteEnd, ReadEnd, Release, Sized
      <4>. QED BY <4>1
    <3>2. CASE Upgrade(t) \/ Allocate(t) \/ WriteChunk(t) \/ ReadChunk(t)
      <4>1. pc[t] \in Sized /\ op'[t].len = op[t].len
        BY <1>t, <3>2 DEF Upgrade, Allocate, WriteChunk, ReadChunk, Advance, Sized
      <4>. QED BY <1>s, <4>1
    <3>3. CASE ReadMeta(t)
      <4>1. op'[t].len = length
        BY <1>t, <3>3 DEF ReadMeta
      <4>. QED BY <1>s, <4>1
    <3>4. CASE WriteMeta(t)
      <4>1. CASE op' = [op EXCEPT ![t].len = length, ![t].block = LastBlock(t)]
        <5>1. op'[t].len = length
          BY <1>t, <4>1
        <5>. QED BY <1>s, <5>1
      <4>2. CASE Present(LastBlock(t)) /\ op' = [op EXCEPT ![t].len = Grown(t, length)]
        <5>1. op'[t].len = Grown(t, length)
          BY <1>t, <4>2
        <5>2. Reading(t)
          BY <3>4 DEF WriteMeta, Reading
        <5>3. \A u \in Threads : pc[u] # "lookup"
          BY <1>t, <5>2, NobodyGrows
        <5>4. LastBlock(t) \in Nat
          BY <1>t, LastBlockNat
        <5>5. DownTo(LastBlock(t))
          BY <4>2, <5>3, <5>4 DEF Growth, NoneSkipped, Adding
        <5>6. \A v \in 0 .. LastBlock(t) : v \in Nat
          BY <5>4
        <5>7. \A v \in 0 .. LastBlock(t) : Present(v)'
          BY <1>t, <5>5, <5>6, PresentStays DEF DownTo
        <5>. QED BY <1>s, <1>t, <5>1, <5>7, GrownFilled
      <4>. QED BY <3>4, <4>1, <4>2 DEF WriteMeta
    <3>5. CASE LookupAdds(t) /\ op[t].block > 0 /\ op' = [op EXCEPT ![t].block = @ - 1]
      <4>1. pc[t] \in Sized /\ op'[t].len = op[t].len
        BY <1>t, <3>5 DEF LookupAdds, Sized
      <4>. QED BY <1>s, <4>1
    <3>6. CASE GrowthEnds(t) /\ (LookupFinds(t) \/ (LookupAdds(t) /\ op[t].block = 0))
      <4>1. op'[t].len = Grown(t, op[t].len) /\ pc[t] \in Sized /\ op[t].len \in Nat
        BY <1>t, <3>6 DEF GrowthEnds, LookupFinds, LookupAdds, Sized
      <4>2. \A v \in 0 .. LastBlock(t) : Present(v)'
        BY <3>6, GrowthDone
      <4>3. After(op[t].len)
        BY <1>s, <4>1
      <4>. QED BY <1>t, <4>1, <4>2, <4>3, GrownFilled
    <3>7. ~ LookupFails(t)
      BY DEF LookupFails, Note
    <3>8. LookupFinds(t) => GrowthEnds(t)
      BY DEF LookupFinds
    <3>9. LookupAdds(t) => \/ op[t].block > 0 /\ op' = [op EXCEPT ![t].block = @ - 1]
                           \/ op[t].block = 0 /\ GrowthEnds(t)
      BY DEF LookupAdds
    <3>. QED BY <1>1, <3>1, <3>2, <3>3, <3>4, <3>5, <3>6, <3>7, <3>8, <3>9 DEF Moves, Step
  <2>. QED BY <2>1, <2>2, <2>3
<1>2. CASE \/ inode_deny_write \/ inode_allow_write
           \/ free_map_allocate \/ free_map_release \/ UNCHANGED vars
  <2>1. UNCHANGED <<length, pc, op>>
    BY <1>2 DEF inode_deny_write, inode_allow_write, free_map_allocate, free_map_release,
                fileVars, vars
  <2>. QED BY <1>g, <1>s, <2>1
<1>. QED BY <1>1, <1>2, <1>g, NextCases

LEMMA GrowthPlaceStep ==
  ASSUME Core, Growth, [Next]_vars
  PROVE  GrowthPlace'
<1>t. /\ pc \in [Threads -> PC] /\ TypeOK /\ LookupOK /\ PrefixClosed /\ LockOK
      /\ op \in [Threads -> [off : Nat, size : Nat, len : Nat, block : Nat]]
  BY DEF Core, TypeOK
<1>p. \A u \in Nat : Present(u) => Present(u)'
  BY <1>t, PresentStays
<1>. DEFINE At(u, last, block) ==
              block <= last /\ \A v \in block + 1 .. last : Present(v)'
            Last(u) == DivRoundUp(op'[u].off + op'[u].size)
            Place(u) == /\ pc'[u] = "upgrade" => op'[u].block = Last(u)
                        /\ pc'[u] = "lookup" => At(u, Last(u), op'[u].block)
<1>g. ASSUME \A u \in Threads : Place(u) PROVE GrowthPlace'
  <2>1. \A u \in Threads : LastBlock(u)' = Last(u)
    BY DEF LastBlock, DivRoundUp
  <2>. QED BY <1>g, <2>1 DEF GrowthPlace
<1>k. ASSUME NEW u \in Threads, pc'[u] = pc[u], op'[u].off = op[u].off,
             op'[u].size = op[u].size, op'[u].block = op[u].block
      PROVE  Place(u)
  <2>1. Last(u) = LastBlock(u)
    BY <1>k DEF LastBlock
  <2>2. LastBlock(u) \in Nat /\ op[u].block \in Nat
    BY <1>t, LastBlockNat
  <2>3. \A v \in op[u].block + 1 .. LastBlock(u) : v \in Nat
    BY <2>2
  <2>4. pc[u] = "upgrade" => op[u].block = LastBlock(u)
    BY DEF Growth, GrowthPlace
  <2>5. pc[u] = "lookup" => At(u, LastBlock(u), op[u].block)
    BY <1>p, <2>3 DEF Growth, GrowthPlace
  <2>. QED BY <1>k, <2>1, <2>4, <2>5
<1>1. ASSUME NEW t \in Threads, Moves(t) PROVE \A u \in Threads : Place(u)
  <2>0. \A u \in Threads \ {t} : pc'[u] = pc[u] /\ op'[u] = op[u]
    BY <1>1, <1>t DEF Moves, WriteBegin, ReadBegin, Begin, Step, CheckDeny, WriteMeta, Upgrade,
         Allocate, LookupFails, LookupFinds, LookupAdds, GrowthEnds, WriteChunk, WriteEnd,
         ReadMeta, ReadChunk, ReadEnd, Release, Advance
  <2>1. \A u \in Threads \ {t} : Place(u)
    BY <1>k, <2>0
  <2>2. Place(t)
    <3>1. CASE pc'[t] \notin {"upgrade", "lookup"}
      BY <3>1
    <3>2. CASE WriteMeta(t) /\ pc'[t] = "upgrade"
      <4>1. op' = [op EXCEPT ![t].len = length, ![t].block = LastBlock(t)]
        BY <1>t, <3>2 DEF WriteMeta
      <4>2. /\ op'[t].off = op[t].off /\ op'[t].size = op[t].size
            /\ op'[t].block = LastBlock(t)
        BY <1>t, <4>1
      <4>3. op'[t].block = Last(t)
        BY <4>2 DEF LastBlock
      <4>. QED BY <3>2, <4>3
    <3>3. CASE Upgrade(t)
      <4>1. pc[t] = "upgrade" /\ pc'[t] = "lookup" /\ op' = op
        BY <1>t, <3>3 DEF Upgrade
      <4>2. op[t].block = LastBlock(t) /\ LastBlock(t) \in Nat
        BY <1>t, <4>1, LastBlockNat DEF Growth, GrowthPlace
      <4>3. Last(t) = op[t].block
        BY <4>1, <4>2 DEF LastBlock
      <4>4. At(t, Last(t), op[t].block)
        BY <4>2, <4>3
      <4>. QED BY <4>1, <4>4
    <3>4. CASE Allocate(t)
      BY <1>k, <3>4 DEF Allocate
    <3>5. CASE LookupAdds(t) /\ op[t].block > 0 /\ op' = [op EXCEPT ![t].block = @ - 1] /\ pc' = pc
      <4>1. /\ op'[t].off = op[t].off /\ op'[t].size = op[t].size
            /\ op'[t].block = op[t].block - 1 /\ pc[t] = "lookup"
        BY <1>t, <3>5 DEF LookupAdds
      <4>2. Last(t) = LastBlock(t)
        BY <4>1 DEF LastBlock
      <4>3. LastBlock(t) \in Nat /\ op[t].block \in Nat
        BY <1>t, LastBlockNat
      <4>4. /\ op[t].block <= LastBlock(t)
            /\ \A v \in op[t].block + 1 .. LastBlock(t) : Present(v)
        BY <4>1 DEF Growth, GrowthPlace
      <4>5. \A v \in Nat : v = op[t].block => Present(v)'
        BY <1>t, <3>5, BlockAdded
      <4>6. \A v \in op[t].block - 1 + 1 .. LastBlock(t) :
              v \in Nat /\ (v = op[t].block \/ v \in op[t].block + 1 .. LastBlock(t))
        BY <4>3
      <4>7. \A v \in op[t].block - 1 + 1 .. LastBlock(t) : Present(v)'
        BY <1>p, <4>4, <4>5, <4>6
      <4>8. op[t].block - 1 <= LastBlock(t)
        BY <3>5, <4>3, <4>4
      <4>9. At(t, Last(t), op'[t].block)
        BY <4>1, <4>2, <4>7, <4>8
      <4>. QED BY <3>5, <4>1, <4>9
    <3>6. \/ pc'[t] \notin {"upgrade", "lookup"} \/ (WriteMeta(t) /\ pc'[t] = "upgrade")
          \/ Upgrade(t) \/ Allocate(t)
          \/ (LookupAdds(t) /\ op[t].block > 0 /\ op' = [op EXCEPT ![t].block = @ - 1] /\ pc' = pc)
      BY <1>1, <1>t DEF Moves, Step, WriteBegin, ReadBegin, Begin, CheckDeny, WriteMeta, LookupFails,
         LookupFinds, LookupAdds, GrowthEnds, WriteChunk, WriteEnd, ReadMeta, ReadChunk, ReadEnd,
         Release, CanCopy
    <3>. QED BY <3>1, <3>2, <3>3, <3>4, <3>5, <3>6
  <2>. QED BY <2>1, <2>2
<1>2. CASE \/ inode_deny_write \/ inode_allow_write
           \/ free_map_allocate \/ free_map_release \/ UNCHANGED vars
  <2>1. UNCHANGED <<pc, op>>
    BY <1>2 DEF inode_deny_write, inode_allow_write, free_map_allocate, free_map_release, vars
  <2>2. \A u \in Threads : Place(u)
    BY <1>k, <2>1
  <2>. QED BY <1>g, <2>2
<1>. QED BY <1>1, <1>2, <1>g, NextCases

\* What DownTo says after a step.
LEMMA DownToStays ==
  ASSUME TypeOK, LookupOK, PrefixClosed, [Next]_vars, NEW u \in Nat, DownTo(u)
  PROVE  DownTo(u)'
<1>1. \A v \in 0 .. u : v \in Nat
  OBVIOUS
<1>2. \A v \in 0 .. u : Present(v)'
  BY <1>1, PresentStays DEF DownTo
<1>. QED BY <1>2 DEF DownTo

LEMMA NoneSkippedStep ==
  ASSUME Core, Growth, [Next]_vars, "full" \notin past'
  PROVE  NoneSkipped'
<1>t. /\ pc \in [Threads -> PC] /\ TypeOK /\ LookupOK /\ PrefixClosed /\ LockOK
      /\ op \in [Threads -> [off : Nat, size : Nat, len : Nat, block : Nat]]
  BY DEF Core, TypeOK
<1>g. ASSUME \A u \in Nat : Present(u)' => DownTo(u)' \/ \E t \in Threads : Adding(t, u)'
      PROVE  NoneSkipped'
  BY <1>g DEF NoneSkipped
<1>k. ASSUME NEW t \in Threads, NEW u \in Nat, Adding(t, u), pc'[t] = pc[t], op'[t] = op[t]
      PROVE  Adding(t, u)'
  BY <1>k DEF Adding, LastBlock, DivRoundUp
\* The growth of t is over: it skipped nothing.
<1>e. ASSUME NEW t \in Threads, pc[t] = "lookup", NEW u \in Nat,
             \A v \in 0 .. LastBlock(t) : Present(v)',
             Present(u) \/ u \in 0 .. LastBlock(t)
      PROVE  DownTo(u)'
  <2>0. LastBlock(t) \in Nat /\ op[t].block \in Nat
    BY <1>t, LastBlockNat
  <2>1. CASE u \in 0 .. LastBlock(t)
    <3>1. \A v \in 0 .. u : v \in 0 .. LastBlock(t)
      BY <2>0, <2>1
    <3>. QED BY <1>e, <3>1 DEF DownTo
  <2>2. CASE DownTo(u)
    BY <1>t, <2>2, DownToStays
  <2>3. ASSUME NEW r \in Threads, Adding(r, u) PROVE u \in 0 .. LastBlock(t)
    <3>1. r = t
      BY <1>e, <1>t, <2>3, OneGrows DEF Adding
    <3>2. u \in op[t].block + 1 .. LastBlock(t)
      BY <2>3, <3>1 DEF Adding
    <3>. QED BY <2>0, <3>2
  <2>4. Present(u) => DownTo(u) \/ \E r \in Threads : Adding(r, u)
    BY DEF Growth, NoneSkipped
  <2>. QED BY <1>e, <2>1, <2>2, <2>3, <2>4
<1>1. ASSUME tree' = tree, \A t \in Threads : pc[t] = "lookup" => pc'[t] = pc[t] /\ op'[t] = op[t]
      PROVE  NoneSkipped'
  <2>1. \A u \in Nat : Present(u)' => Present(u)
    BY <1>1 DEF Present, Path
  <2>2. \A u \in Nat : DownTo(u) => DownTo(u)'
    BY <1>t, DownToStays
  <2>3. \A u \in Nat, t \in Threads : Adding(t, u) => Adding(t, u)'
    <3>1. TAKE u \in Nat, t \in Threads
    <3>2. HAVE Adding(t, u)
    <3>3. pc[t] = "lookup" BY <3>2 DEF Adding
    <3>. QED BY <1>1, <1>k, <3>2, <3>3
  <2>. QED BY <1>g, <2>1, <2>2, <2>3 DEF Growth, NoneSkipped
<1>2. ASSUME NEW t \in Threads, LookupFinds(t) \/ (LookupAdds(t) /\ op[t].block = 0)
      PROVE  NoneSkipped'
  <2>1. \A v \in 0 .. LastBlock(t) : Present(v)'
    BY <1>2, GrowthDone
  <2>2. LastBlock(t) \in Nat /\ pc[t] = "lookup"
    BY <1>2, <1>t, LastBlockNat DEF LookupFinds, LookupAdds
  <2>3. ASSUME NEW u \in Nat, Present(u)' PROVE Present(u) \/ u \in 0 .. LastBlock(t)
    <3>1. CASE LookupFinds(t)
      <4>1. tree' = tree BY <3>1 DEF LookupFinds, fileVars
      <4>. QED BY <2>3, <4>1 DEF Present, Path
    <3>2. CASE LookupAdds(t) /\ op[t].block = 0
      <4>1. Present(u) \/ u = 0
        BY <1>t, <2>3, <3>2, BlockAdded
      <4>. QED BY <2>2, <4>1
    <3>. QED BY <1>2, <3>1, <3>2
  <2>4. \A u \in Nat : Present(u)' => DownTo(u)'
    BY <1>e, <2>1, <2>2, <2>3
  <2>. QED BY <1>g, <2>4
<1>3. ASSUME NEW t \in Threads, LookupAdds(t), op[t].block > 0,
             op' = [op EXCEPT ![t].block = @ - 1], pc' = pc
      PROVE  NoneSkipped'
  <2>1. \A u \in Nat : Present(u)' <=> Present(u) \/ u = op[t].block
    BY <1>t, <1>3, BlockAdded
  <2>2. /\ LastBlock(t) \in Nat /\ op[t].block \in Nat /\ pc[t] = "lookup"
        /\ op[t].block <= LastBlock(t)
    BY <1>3, <1>t, LastBlockNat DEF LookupAdds, Growth, GrowthPlace
  <2>3. /\ op'[t].block = op[t].block - 1
        /\ op'[t].off = op[t].off /\ op'[t].size = op[t].size
    BY <1>3, <1>t
  <2>4. LastBlock(t)' = LastBlock(t)
    BY <2>3 DEF LastBlock, DivRoundUp
  <2>5. ASSUME NEW u \in op[t].block .. LastBlock(t) PROVE Adding(t, u)'
    <3>1. u \in op[t].block - 1 + 1 .. LastBlock(t)
      BY <2>2
    <3>. QED BY <1>3, <2>2, <2>3, <2>4, <3>1 DEF Adding
  <2>6. op[t].block \in op[t].block .. LastBlock(t)
    BY <2>2
  <2>7. ASSUME NEW u \in Nat, NEW r \in Threads, Adding(r, u) PROVE Adding(t, u)'
    <3>1. r = t
      BY <1>t, <2>2, <2>7, OneGrows DEF Adding
    <3>2. u \in op[t].block + 1 .. LastBlock(t)
      BY <2>7, <3>1 DEF Adding
    <3>3. u \in op[t].block .. LastBlock(t)
      BY <2>2, <3>2
    <3>. QED BY <2>5, <3>3
  <2>8. \A u \in Nat : DownTo(u) => DownTo(u)'
    BY <1>t, DownToStays
  <2>9. \A u \in Nat : Present(u) => DownTo(u) \/ \E r \in Threads : Adding(r, u)
    BY DEF Growth, NoneSkipped
  <2>10. ASSUME NEW u \in Nat, Present(u)'
         PROVE  DownTo(u)' \/ \E r \in Threads : Adding(r, u)'
    <3>1. CASE u = op[t].block
      <4>1. u \in op[t].block .. LastBlock(t) BY <2>6, <3>1
      <4>. QED BY <2>5, <4>1
    <3>2. CASE Present(u)
      BY <2>7, <2>8, <2>9, <3>2
    <3>. QED BY <2>1, <2>10, <3>1, <3>2
  <2>. QED BY <1>g, <2>10
<1>4. ASSUME NEW t \in Threads, Moves(t), ~ LookupFinds(t), ~ LookupAdds(t), ~ LookupFails(t)
      PROVE  /\ tree' = tree
             /\ \A u \in Threads : pc[u] = "lookup" => pc'[u] = pc[u] /\ op'[u] = op[u]
  BY <1>4, <1>t DEF Moves, Step, WriteBegin, ReadBegin, Begin, CheckDeny, WriteMeta, Upgrade,
     Allocate, WriteChunk, WriteEnd, ReadMeta, ReadChunk, ReadEnd, Release, Advance, fileVars
<1>5. CASE \/ inode_deny_write \/ inode_allow_write
           \/ free_map_allocate \/ free_map_release \/ UNCHANGED vars
  <2>1. UNCHANGED <<tree, pc, op>>
    BY <1>5 DEF inode_deny_write, inode_allow_write, free_map_allocate, free_map_release,
                fileVars, vars
  <2>. QED BY <1>1, <2>1
<1>6. ASSUME NEW t \in Threads, Moves(t) PROVE NoneSkipped'
  <2>1. ~ LookupFails(t)
    BY DEF LookupFails, Note
  <2>2. CASE LookupFinds(t)
    BY <1>2, <2>2
  <2>3. CASE LookupAdds(t)
    <3>1. \/ op[t].block > 0 /\ op' = [op EXCEPT ![t].block = @ - 1] /\ pc' = pc
          \/ op[t].block = 0
      BY <2>3 DEF LookupAdds
    <3>. QED BY <1>2, <1>3, <2>3, <3>1
  <2>4. CASE ~ LookupFinds(t) /\ ~ LookupAdds(t)
    BY <1>1, <1>4, <1>6, <2>1, <2>4
  <2>. QED BY <2>2, <2>3, <2>4
<1>. QED BY <1>5, <1>6, NextCases

LEMMA PastGrows ==
  ASSUME [Next]_vars
  PROVE  past \subseteq past'
<1>1. ASSUME NEW t \in Threads, Moves(t) PROVE past \subseteq past'
  BY <1>1 DEF Moves, Step, WriteBegin, ReadBegin, CheckDeny, WriteMeta, Upgrade, Allocate,
     LookupFails, LookupFinds, LookupAdds, WriteChunk, WriteEnd, ReadMeta, ReadChunk, ReadEnd,
     Release, Note, ghostVars
<1>2. CASE \/ inode_deny_write \/ inode_allow_write
           \/ free_map_allocate \/ free_map_release \/ UNCHANGED vars
  BY <1>2 DEF inode_deny_write, inode_allow_write, free_map_allocate, free_map_release, ghostVars, vars
<1>. QED BY <1>1, <1>2, NextCases

LEMMA GrowsStep ==
  ASSUME Core, Grows, [Next]_vars
  PROVE  Grows'
<1>1. ASSUME "full" \notin past' PROVE Growth'
  <2>1. Growth
    BY <1>1, PastGrows DEF Grows
  <2>. QED BY <1>1, <2>1, LensFilledStep, GrowthPlaceStep, NoneSkippedStep DEF Growth
<1>. QED BY <1>1 DEF Grows

\* Growth leaves no hole that a read could stop at.
LEMMA NoHolesFollow ==
  ASSUME Core, Grows
  PROVE  NoHoles
<1>1. ASSUME "full" \notin past, NEW t \in Threads, pc[t] = "read", op[t].size > 0, ~ CanCopy(t),
             op[t].off < op[t].len
      PROVE  FALSE
  <2>1. /\ op[t].off \in Nat /\ op[t].len \in Nat /\ op[t].size \in Nat /\ TypeOK
        /\ BlockSize \in Nat \ {0}
    BY InodeAssumption DEF Core, TypeOK
  <2>2. Present(op[t].off \div BlockSize)
    <3>1. Filled(op[t].len)
      BY <1>1 DEF Grows, Growth, LensFilled
    <3>2. op[t].off \div BlockSize <= DivRoundUp(op[t].len)
      BY <1>1, <2>1, BlockOfByte
    <3>3. op[t].off \div BlockSize \in Nat /\ DivRoundUp(op[t].len) \in Nat
      BY <2>1, ChunkBounds, BlocksAreNumbers
    <3>. QED BY <3>1, <3>2, <3>3 DEF Filled
  <2>3. ChunkSize(t) > 0
    BY <1>1, <2>1, ChunkBounds DEF Positions
  <2>. QED BY <1>1, <2>2, <2>3 DEF CanCopy
<1>2. \A t \in Threads : op[t].off \in Nat /\ op[t].len \in Nat
  BY DEF Core, TypeOK
<1>. QED BY <1>1, <1>2 DEF NoHoles, ShortReadOnlyAtEnd

-----------------------------------------------------------------------------
\* What is in the file, as long as nobody leaves a gap either.

LEMMA ByteAt ==
  ASSUME NEW q \in Nat
  PROVE  /\ q \div BlockSize \in Nat /\ q % BlockSize \in Positions
         /\ q = BlockSize * (q \div BlockSize) + (q % BlockSize)
BY Division, InodeAssumption DEF Positions

LEMMA WrittenStays ==
  ASSUME TypeOK, LookupOK, Unshared, PrefixClosed, [Next]_vars, NEW q \in Nat, Written(q)
  PROVE  Written(q)'
<1>. DEFINE n == Path(q \div BlockSize)
            p == q % BlockSize
<1>1. n \in DOMAIN tree /\ p \in Positions /\ bytes[tree[n]][p] = "data"
  BY ByteAt DEF Written, Present
<1>2. /\ n \in DOMAIN tree' /\ tree'[n] = tree[n]
      /\ bytes'[tree[n]][p] = bytes[tree[n]][p] \/ bytes'[tree[n]][p] = "data"
  BY <1>1, BytesMove
<1>3. n \in DOMAIN tree' /\ bytes'[tree'[n]][p] = "data"
  BY <1>1, <1>2
<1>. QED BY <1>3 DEF Written, Present, Path

\* The byte k places after the offset of a call, in the block of the offset.
LEMMA ByteInBlock ==
  ASSUME NEW o \in Nat, NEW k \in Nat, (o % BlockSize) + k < BlockSize
  PROVE  (o + k) \div BlockSize = o \div BlockSize /\ (o + k) % BlockSize = (o % BlockSize) + k
<1>1. BlockSize \in Nat \ {0}
  BY InodeAssumption
<1>. DEFINE a == (o + k) \div BlockSize
            b == o \div BlockSize
            r == (o + k) % BlockSize
            s == o % BlockSize
<1>2. /\ a \in Nat /\ r \in 0 .. BlockSize - 1 /\ o + k = BlockSize * a + r
  <2>1. \A m \in Nat : /\ m \div BlockSize \in Nat /\ m % BlockSize \in 0 .. BlockSize - 1
                       /\ m = BlockSize * (m \div BlockSize) + (m % BlockSize)
    BY <1>1, Division
  <2>2. o + k \in Nat
    OBVIOUS
  <2>. QED BY <2>1, <2>2
<1>3. /\ b \in Nat /\ s \in 0 .. BlockSize - 1 /\ o = BlockSize * b + s
  BY <1>1, Division
<1>4. s + k < BlockSize
  OBVIOUS
<1>. HIDE DEF a, b, r, s
<1>5. s + k \in 0 .. BlockSize - 1
  BY <1>1, <1>3, <1>4
<1>6. BlockSize * b \in Nat /\ BlockSize * a \in Nat
  BY <1>1, <1>2, <1>3
<1>7. BlockSize * a + r = BlockSize * b + (s + k)
  BY <1>2, <1>3, <1>6
<1>8. a = b /\ r = s + k
  BY <1>1, <1>2, <1>3, <1>5, <1>7, DivisionUnique
<1>. QED BY <1>8 DEF a, b, r, s

\* The bytes of one chunk.
LEMMA ChunkBytes ==
  ASSUME TypeOK, NEW t \in Threads, CanCopy(t)
  PROVE  /\ ChunkSize(t) \in Nat /\ ChunkSize(t) > 0
         /\ \A k \in 0 .. ChunkSize(t) - 1 :
              /\ (op[t].off + k) \div BlockSize = op[t].off \div BlockSize
              /\ (op[t].off + k) % BlockSize = (op[t].off % BlockSize) + k
              /\ (op[t].off % BlockSize) + k \in Chunk(t)
<1>1. op[t].off \in Nat /\ BlockSize \in Nat \ {0}
  BY InodeAssumption DEF TypeOK
<1>. DEFINE s == op[t].off % BlockSize
            c == ChunkSize(t)
<1>2. c \in Int /\ c > 0 /\ c <= BlockSize - s /\ s \in 0 .. BlockSize - 1
  BY ChunkBounds DEF CanCopy, Positions
<1>3. \A k \in 0 .. c - 1 : s + k \in Chunk(t)
  BY DEF Chunk
<1>. HIDE DEF s, c
<1>4. \A k \in 0 .. c - 1 : k \in Nat /\ s + k < BlockSize
  BY <1>1, <1>2
<1>5. \A k \in 0 .. c - 1 :
        (op[t].off + k) \div BlockSize = op[t].off \div BlockSize
        /\ (op[t].off + k) % BlockSize = s + k
  BY <1>1, <1>4, ByteInBlock DEF s
<1>6. c \in Nat
  BY <1>2
<1>. QED BY <1>2, <1>3, <1>5, <1>6 DEF s, c

\* A chunk that is written: each of its bytes.
LEMMA ChunkWritten ==
  ASSUME TypeOK, NEW t \in Threads, WriteChunk(t)
  PROVE  \A q \in op[t].off .. op[t].off + ChunkSize(t) - 1 : Written(q)'
<1>0. CanCopy(t) /\ op[t].off \in Nat /\ tree' = tree
  BY DEF WriteChunk, TypeOK
<1>. DEFINE n == Path(op[t].off \div BlockSize)
<1>1. /\ SectorAt(t) \in Sectors /\ Chunk(t) \subseteq Positions
      /\ SectorAt(t) = tree[n] /\ n \in DOMAIN tree
  BY <1>0, ChunkInSector DEF SectorAt, CanCopy, Present
<1>2. /\ ChunkSize(t) \in Nat
      /\ \A k \in 0 .. ChunkSize(t) - 1 :
              /\ (op[t].off + k) \div BlockSize = op[t].off \div BlockSize
              /\ (op[t].off + k) % BlockSize = (op[t].off % BlockSize) + k
              /\ (op[t].off % BlockSize) + k \in Chunk(t)
  BY <1>0, ChunkBytes
<1>3. \A p \in Chunk(t) : bytes'[SectorAt(t)][p] = "data"
  <2>1. bytes' = [bytes EXCEPT ![SectorAt(t)] =
                   [p \in Positions |-> IF p \in Chunk(t) THEN "data" ELSE @[p]]]
    BY DEF WriteChunk
  <2>2. SectorAt(t) \in DOMAIN bytes
    BY <1>1 DEF TypeOK
  <2>3. bytes'[SectorAt(t)] = [p \in Positions |-> IF p \in Chunk(t) THEN "data"
                                                   ELSE bytes[SectorAt(t)][p]]
    BY <2>1, <2>2
  <2>. QED BY <1>1, <2>3
<1>4. ASSUME NEW q \in op[t].off .. op[t].off + ChunkSize(t) - 1 PROVE Written(q)'
  <2>1. PICK k \in 0 .. ChunkSize(t) - 1 : q = op[t].off + k
    <3>1. q - op[t].off \in 0 .. ChunkSize(t) - 1 /\ q = op[t].off + (q - op[t].off)
      BY <1>0, <1>2
    <3>. QED BY <3>1
  <2>2. q \div BlockSize = op[t].off \div BlockSize /\ q % BlockSize \in Chunk(t)
    BY <1>2, <2>1
  <2>3. Path(q \div BlockSize) = n
    BY <2>2
  <2>4. Path(q \div BlockSize) \in DOMAIN tree'
        /\ bytes'[tree'[Path(q \div BlockSize)]][q % BlockSize] = "data"
    BY <1>0, <1>1, <1>3, <2>2, <2>3
  <2>. QED BY <2>4 DEF Written, Present, Path
<1>. QED BY <1>4

\* A chunk that is read, of bytes that were written.
LEMMA ChunkRead ==
  ASSUME TypeOK, NEW t \in Threads, CanCopy(t), WrittenTo(op[t].len)
  PROVE  \A p \in Chunk(t) : bytes[SectorAt(t)][p] = "data"
<1>0. op[t].off \in Nat /\ op[t].len \in Nat
  BY DEF TypeOK
<1>1. /\ ChunkSize(t) \in Nat /\ ChunkSize(t) <= op[t].len - op[t].off
      /\ \A k \in 0 .. ChunkSize(t) - 1 :
              /\ (op[t].off + k) \div BlockSize = op[t].off \div BlockSize
              /\ (op[t].off + k) % BlockSize = (op[t].off % BlockSize) + k
  BY ChunkBytes, ChunkBounds
<1>2. ASSUME NEW k \in 0 .. ChunkSize(t) - 1
      PROVE  bytes[SectorAt(t)][(op[t].off % BlockSize) + k] = "data"
  <2>1. op[t].off + k \in 0 .. op[t].len - 1
    BY <1>0, <1>1
  <2>2. Written(op[t].off + k)
    BY <2>1 DEF WrittenTo
  <2>. QED BY <1>1, <2>2 DEF Written, SectorAt
<1>3. \A p \in Chunk(t) : \E k \in 0 .. ChunkSize(t) - 1 : p = (op[t].off % BlockSize) + k
  BY DEF Chunk
<1>. QED BY <1>2, <1>3

\* A write that ends has written what it set out to write.
LEMMA WriteComplete ==
  ASSUME Core, Growth, Contents, NEW t \in Threads, WriteEnd(t)
  PROVE  WrittenTo(op[t].len)
<1>0. /\ pc[t] = "write" /\ ~ CanCopy(t) /\ TypeOK
      /\ op[t].off \in Nat /\ op[t].size \in Nat /\ op[t].len \in Nat
      /\ BlockSize \in Nat \ {0}
  BY InodeAssumption DEF WriteEnd, Core, TypeOK
<1>1. /\ op[t].off + op[t].size <= op[t].len
      /\ \A q \in op[t].off + op[t].size .. op[t].len - 1 : Written(q)
      /\ WrittenTo(op[t].off)
  BY <1>0 DEF Contents, CallsWritten, Begun
<1>2. op[t].size = 0
  <2>1. ASSUME op[t].size > 0 PROVE FALSE
    <3>1. op[t].off < op[t].len
      BY <1>0, <1>1, <2>1
    <3>2. Present(op[t].off \div BlockSize)
      <4>1. Filled(op[t].len)
        BY <1>0 DEF Growth, LensFilled
      <4>2. op[t].off \div BlockSize <= DivRoundUp(op[t].len)
        BY <1>0, <3>1, BlockOfByte
      <4>3. op[t].off \div BlockSize \in Nat /\ DivRoundUp(op[t].len) \in Nat
        BY <1>0, ChunkBounds, BlocksAreNumbers
      <4>. QED BY <4>1, <4>2, <4>3 DEF Filled
    <3>3. ChunkSize(t) > 0
      BY <1>0, <2>1, <3>1, ChunkBounds DEF Positions
    <3>. QED BY <1>0, <2>1, <3>2, <3>3 DEF CanCopy
  <2>. QED BY <1>0, <2>1
<1>3. \A q \in 0 .. op[t].len - 1 : q \in 0 .. op[t].off - 1
                                    \/ q \in op[t].off + op[t].size .. op[t].len - 1
  BY <1>0, <1>2
<1>. QED BY <1>1, <1>3 DEF WrittenTo

LEMMA GrownWritten ==
  ASSUME TypeOK, NEW t \in Threads, NEW n \in Nat, \A q \in 0 .. n - 1 : Written(q)'
  PROVE  /\ Grown(t, n) \in Nat /\ op[t].off + op[t].size <= Grown(t, n)
         /\ \A q \in op[t].off + op[t].size .. Grown(t, n) - 1 : Written(q)'
<1>. DEFINE e == op[t].off + op[t].size
            g == Grown(t, n)
<1>1. e \in Nat
  BY LastBlockNat
<1>2. g \in {n, e} /\ n <= g /\ e <= g
  BY <1>1, GreaterOfTwo DEF Grown
<1>. HIDE DEF e, g
<1>3. g \in Nat
  BY <1>1, <1>2
<1>4. \A q \in e .. g - 1 : q \in 0 .. n - 1
  BY <1>1, <1>2
<1>5. \A q \in e .. g - 1 : Written(q)'
  BY <1>4
<1>. QED BY <1>2, <1>3, <1>5 DEF e, g

LEMMA WrittenToStays ==
  ASSUME Core, [Next]_vars, NEW n \in Nat, WrittenTo(n)
  PROVE  \A q \in 0 .. n - 1 : Written(q)'
<1>1. \A q \in 0 .. n - 1 : q \in Nat
  OBVIOUS
<1>. QED BY <1>1, WrittenStays DEF WrittenTo, Core

LEMMA CallsWrittenStep ==
  ASSUME Core, Contents, [Next]_vars, "gap" \notin past', "full" \notin past'
  PROVE  CallsWritten'
<1>t. /\ pc \in [Threads -> PC] /\ TypeOK /\ length \in Nat
      /\ op \in [Threads -> [off : Nat, size : Nat, len : Nat, block : Nat]]
  BY DEF Core, TypeOK
<1>n. \A u \in Threads : /\ op[u].off \in Nat /\ op[u].size \in Nat /\ op[u].len \in Nat
                         /\ op[u].off + op[u].size \in Nat
  BY <1>t
<1>. DEFINE After(n) == \A q \in 0 .. n - 1 : Written(q)'
            Rest(o) == /\ o.off + o.size <= o.len
                       /\ \A q \in o.off + o.size .. o.len - 1 : Written(q)'
            Place(u) == /\ pc'[u] \in {"read", "upgrade", "lookup"} => After(op'[u].len)
                        /\ pc'[u] \in Begun => After(op'[u].off)
                        /\ pc'[u] = "write" => Rest(op'[u])
<1>g. ASSUME \A u \in Threads : Place(u) PROVE CallsWritten'
  BY <1>g DEF CallsWritten, WrittenTo
<1>w. /\ After(length)
      /\ \A u \in Threads : pc[u] \in {"read", "upgrade", "lookup"} => After(op[u].len)
      /\ \A u \in Threads : pc[u] \in Begun => After(op[u].off)
      /\ \A u \in Threads : pc[u] = "write" => Rest(op[u])
  <2>1. After(length)
    BY <1>t, WrittenToStays DEF Contents
  <2>2. \A u \in Threads : pc[u] \in {"read", "upgrade", "lookup"} => After(op[u].len)
    BY <1>n, WrittenToStays DEF Contents, CallsWritten
  <2>3. \A u \in Threads : pc[u] \in Begun => After(op[u].off)
    BY <1>n, WrittenToStays DEF Contents, CallsWritten
  <2>4. ASSUME NEW u \in Threads, pc[u] = "write" PROVE Rest(op[u])
    <3>1. /\ op[u].off + op[u].size <= op[u].len
          /\ \A q \in op[u].off + op[u].size .. op[u].len - 1 : Written(q)
      BY <2>4 DEF Contents, CallsWritten
    <3>2. \A q \in op[u].off + op[u].size .. op[u].len - 1 : q \in Nat
      BY <1>n
    <3>3. \A q \in op[u].off + op[u].size .. op[u].len - 1 : Written(q)'
      BY <3>1, <3>2, WrittenStays DEF Core
    <3>. QED BY <3>1, <3>3
  <2>. QED BY <2>1, <2>2, <2>3, <2>4
<1>. HIDE DEF After
<1>k. ASSUME NEW u \in Threads, pc'[u] = pc[u], op'[u].off = op[u].off,
             op'[u].size = op[u].size, op'[u].len = op[u].len
      PROVE  Place(u)
  BY <1>k, <1>w
<1>1. ASSUME NEW t \in Threads, Moves(t) PROVE \A u \in Threads : Place(u)
  <2>0. \A u \in Threads \ {t} : pc'[u] = pc[u] /\ op'[u] = op[u]
    BY <1>1, <1>t DEF Moves, WriteBegin, ReadBegin, Begin, Step, CheckDeny, WriteMeta, Upgrade,
         Allocate, LookupFails, LookupFinds, LookupAdds, GrowthEnds, WriteChunk, WriteEnd,
         ReadMeta, ReadChunk, ReadEnd, Release, Advance
  <2>1. \A u \in Threads \ {t} : Place(u)
    BY <1>k, <2>0
  <2>2. Place(t)
    <3>1. CASE ReadBegin(t) \/ WriteEnd(t) \/ ReadEnd(t) \/ Release(t)
      <4>1. pc'[t] \in {"read_meta", "release", "idle"}
        BY <1>t, <3>1 DEF ReadBegin, Begin, WriteEnd, ReadEnd, Release
      <4>. QED BY <4>1 DEF Begun
    <3>2. CASE WriteBegin(t)
      <4>1. PICK request \in Nat \X (Nat \ {0}) :
               /\ Begin(t, request, "check_deny")
               /\ IF request[1] > length THEN Note("gap") ELSE UNCHANGED past
        BY <3>2, InodeAssumption DEF WriteBegin
      <4>2. request[1] <= length /\ request[1] \in Nat
        BY <1>t, <4>1 DEF Note
      <4>3. /\ op' = [op EXCEPT ![t].off = request[1], ![t].size = request[2]]
            /\ pc' = [pc EXCEPT ![t] = "check_deny"]
        BY <4>1 DEF Begin
      <4>4. pc'[t] = "check_deny" /\ op'[t].off = request[1]
        BY <1>t, <4>3
      <4>5. \A q \in 0 .. request[1] - 1 : q \in 0 .. length - 1
        BY <1>t, <4>2
      <4>6. After(request[1])
        BY <1>w, <4>5 DEF After
      <4>. QED BY <4>4, <4>6
    <3>3. CASE CheckDeny(t)
      <4>1. op' = op /\ pc[t] = "check_deny" /\ pc'[t] \in {"idle", "write_meta"}
        BY <1>t, <3>3 DEF CheckDeny
      <4>2. After(op[t].off)
        BY <1>w, <4>1 DEF Begun
      <4>. QED BY <4>1, <4>2 DEF Begun
    <3>4. CASE WriteMeta(t)
      <4>0. pc[t] = "write_meta" /\ After(op[t].off) /\ After(length)
        BY <1>w, <3>4 DEF WriteMeta, Begun
      <4>1. CASE op' = [op EXCEPT ![t].len = length, ![t].block = LastBlock(t)]
                 /\ pc' = [pc EXCEPT ![t] = "upgrade"]
        <5>1. op'[t].len = length /\ op'[t].off = op[t].off /\ pc'[t] = "upgrade"
          BY <1>t, <4>1
        <5>. QED BY <4>0, <5>1
      <4>2. CASE op' = [op EXCEPT ![t].len = Grown(t, length)] /\ pc' = [pc EXCEPT ![t] = "write"]
        <5>1. /\ op'[t].len = Grown(t, length) /\ op'[t].off = op[t].off
              /\ op'[t].size = op[t].size /\ pc'[t] = "write"
          BY <1>t, <4>2
        <5>2. Rest(op'[t])
          BY <1>t, <4>0, <5>1, GrownWritten DEF After
        <5>. QED BY <4>0, <5>1, <5>2
      <4>. QED BY <3>4, <4>1, <4>2 DEF WriteMeta
    <3>5. CASE Upgrade(t)
      <4>1. op' = op /\ pc[t] = "upgrade" /\ pc'[t] = "lookup"
        BY <1>t, <3>5 DEF Upgrade
      <4>. QED BY <1>w, <4>1 DEF Begun
    <3>6. CASE Allocate(t)
      BY <1>k, <3>6 DEF Allocate
    <3>7. CASE LookupAdds(t) /\ op' = [op EXCEPT ![t].block = @ - 1] /\ pc' = pc
      <4>1. op'[t].off = op[t].off /\ op'[t].size = op[t].size /\ op'[t].len = op[t].len
        BY <1>t, <3>7
      <4>. QED BY <1>k, <3>7, <4>1
    <3>8. CASE GrowthEnds(t) /\ pc[t] = "lookup"
      <4>1. /\ op'[t].len = Grown(t, op[t].len) /\ op'[t].off = op[t].off
            /\ op'[t].size = op[t].size /\ pc'[t] = "write"
        BY <1>t, <3>8 DEF GrowthEnds
      <4>2. After(op[t].len) /\ After(op[t].off)
        BY <1>w, <3>8 DEF Begun
      <4>3. Rest(op'[t])
        BY <1>t, <1>n, <4>1, <4>2, GrownWritten DEF After
      <4>. QED BY <4>1, <4>2, <4>3
    <3>9. CASE WriteChunk(t)
      <4>1. /\ op'[t].off = op[t].off + ChunkSize(t) /\ op'[t].size = op[t].size - ChunkSize(t)
            /\ op'[t].len = op[t].len /\ pc'[t] = "write" /\ pc[t] = "write" /\ CanCopy(t)
        BY <1>t, <3>9 DEF WriteChunk, Advance
      <4>2. ChunkSize(t) \in Nat
        BY <1>t, <4>1, ChunkBytes
      <4>3. op'[t].off + op'[t].size = op[t].off + op[t].size
        BY <1>n, <4>1, <4>2
      <4>4. Rest(op'[t])
        BY <1>w, <4>1, <4>3
      <4>5. After(op[t].off)
        BY <1>w, <4>1 DEF Begun
      <4>6. \A q \in op[t].off .. op[t].off + ChunkSize(t) - 1 : Written(q)'
        BY <1>t, <3>9, ChunkWritten
      <4>7. \A q \in 0 .. op[t].off + ChunkSize(t) - 1 :
              q \in 0 .. op[t].off - 1 \/ q \in op[t].off .. op[t].off + ChunkSize(t) - 1
        BY <1>n, <4>2
      <4>8. After(op[t].off + ChunkSize(t))
        <5>1. \A q \in 0 .. op[t].off - 1 : Written(q)'
          BY <4>5 DEF After
        <5>2. PICK e \in Nat : e = op[t].off + ChunkSize(t)
          BY <1>n, <4>2
        <5>3. \A q \in 0 .. e - 1 : Written(q)'
          <6>1. TAKE q \in 0 .. e - 1
          <6>2. CASE q \in 0 .. op[t].off - 1
            BY <5>1, <6>2
          <6>3. CASE q \in op[t].off .. op[t].off + ChunkSize(t) - 1
            BY <4>6, <6>3
          <6>4. q \in 0 .. op[t].off + ChunkSize(t) - 1
            BY <1>n, <4>2, <5>2
          <6>5. q \in 0 .. op[t].off - 1 \/ q \in op[t].off .. op[t].off + ChunkSize(t) - 1
            BY <4>7, <6>4
          <6>. QED BY <6>2, <6>3, <6>5
        <5>4. After(e)
          BY <5>3 DEF After
        <5>. QED BY <5>2, <5>4
      <4>. QED BY <4>1, <4>4, <4>8
    <3>10. CASE ReadMeta(t)
      <4>1. op'[t].len = length /\ pc'[t] = "read"
        BY <1>t, <3>10 DEF ReadMeta
      <4>. QED BY <1>w, <4>1 DEF Begun
    <3>11. CASE ReadChunk(t)
      <4>1. op'[t].len = op[t].len /\ pc'[t] = "read" /\ pc[t] = "read"
        BY <1>t, <3>11 DEF ReadChunk, Advance
      <4>. QED BY <1>w, <4>1 DEF Begun
    <3>12. ~ LookupFails(t)
      BY DEF LookupFails, Note
    <3>13. LookupFinds(t) => GrowthEnds(t) /\ pc[t] = "lookup"
      BY DEF LookupFinds
    <3>14. LookupAdds(t) => \/ op' = [op EXCEPT ![t].block = @ - 1] /\ pc' = pc
                            \/ GrowthEnds(t) /\ pc[t] = "lookup"
      BY DEF LookupAdds
    <3>. HIDE DEF Place
    <3>. QED BY <1>1, <3>1, <3>2, <3>3, <3>4, <3>5, <3>6, <3>7, <3>8, <3>9, <3>10, <3>11,
                <3>12, <3>13, <3>14 DEF Moves, Step
  <2>. QED BY <2>1, <2>2
<1>2. CASE \/ inode_deny_write \/ inode_allow_write
           \/ free_map_allocate \/ free_map_release \/ UNCHANGED vars
  <2>1. UNCHANGED <<pc, op>>
    BY <1>2 DEF inode_deny_write, inode_allow_write, free_map_allocate, free_map_release, vars
  <2>2. \A u \in Threads : Place(u)
    BY <1>k, <2>1
  <2>. QED BY <1>g, <2>2
<1>. QED BY <1>1, <1>2, <1>g, NextCases

LEMMA LengthWrittenStep ==
  ASSUME Core, Growth, Contents, [Next]_vars
  PROVE  WrittenTo(length)'
<1>1. ASSUME NEW t \in Threads, WriteEnd(t) PROVE WrittenTo(length)'
  <2>1. length' = op[t].len /\ op[t].len \in Nat
    BY <1>1 DEF WriteEnd, Core, TypeOK
  <2>2. WrittenTo(op[t].len)
    BY <1>1, WriteComplete
  <2>3. \A q \in 0 .. op[t].len - 1 : Written(q)'
    BY <2>1, <2>2, WrittenToStays
  <2>. QED BY <2>1, <2>3 DEF WrittenTo
<1>2. ASSUME length' = length PROVE WrittenTo(length)'
  <2>1. length \in Nat /\ WrittenTo(length)
    BY DEF Core, TypeOK, Contents
  <2>2. \A q \in 0 .. length - 1 : Written(q)'
    BY <2>1, WrittenToStays
  <2>. QED BY <1>2, <2>2 DEF WrittenTo
<1>3. ASSUME NEW t \in Threads, Moves(t), ~ WriteEnd(t) PROVE length' = length
  BY <1>3 DEF Moves, WriteBegin, ReadBegin, Begin, Step, CheckDeny, WriteMeta, Upgrade,
         Allocate, LookupFails, LookupFinds, LookupAdds, WriteChunk,
         ReadMeta, ReadChunk, ReadEnd, Release, fileVars
<1>4. CASE \/ inode_deny_write \/ inode_allow_write
           \/ free_map_allocate \/ free_map_release \/ UNCHANGED vars
  <2>1. length' = length
    BY <1>4 DEF inode_deny_write, inode_allow_write, free_map_allocate, free_map_release,
                fileVars, vars
  <2>. QED BY <1>2, <2>1
<1>. QED BY <1>1, <1>2, <1>3, <1>4, NextCases

LEMMA SeenWrittenStep ==
  ASSUME Core, Contents, [Next]_vars
  PROVE  SeenWritten'
<1>s. seen \in [Threads -> SUBSET Byte] /\ SeenWritten /\ TypeOK
  BY DEF Core, TypeOK, Contents
<1>1. ASSUME NEW t \in Threads, ReadChunk(t) PROVE SeenWritten'
  <2>1. /\ seen' = [seen EXCEPT ![t] = @ \cup {bytes[SectorAt(t)][p] : p \in Chunk(t)}]
        /\ CanCopy(t) /\ pc[t] = "read"
    BY <1>1 DEF ReadChunk
  <2>2. WrittenTo(op[t].len)
    BY <2>1 DEF Contents, CallsWritten
  <2>3. \A p \in Chunk(t) : bytes[SectorAt(t)][p] = "data"
    BY <1>s, <2>1, <2>2, ChunkRead
  <2>4. {bytes[SectorAt(t)][p] : p \in Chunk(t)} \subseteq {"data"}
    BY <2>3
  <2>. QED BY <1>s, <2>1, <2>4 DEF SeenWritten
<1>2. ASSUME NEW t \in Threads, Moves(t), ~ ReadChunk(t) PROVE SeenWritten'
  <2>1. seen' = seen \/ seen' = [seen EXCEPT ![t] = {}]
    BY <1>2 DEF Moves, Step, WriteBegin, ReadBegin, Begin, CheckDeny, WriteMeta, Upgrade,
       ReadMeta, ReadEnd, Release, WriteChunk, WriteEnd, LookupFinds, LookupFails, LookupAdds, Allocate
  <2>. QED BY <1>s, <2>1 DEF SeenWritten
<1>3. CASE \/ inode_deny_write \/ inode_allow_write
           \/ free_map_allocate \/ free_map_release \/ UNCHANGED vars
  <2>1. seen' = seen
    BY <1>3 DEF inode_deny_write, inode_allow_write, free_map_allocate, free_map_release, vars
  <2>. QED BY <1>s, <2>1 DEF SeenWritten
<1>. QED BY <1>1, <1>2, <1>3, NextCases

LEMMA WroteStep ==
  ASSUME Core, Grows, Wrote, [Next]_vars
  PROVE  Wrote'
<1>1. ASSUME {"gap", "full"} \cap past' = {} PROVE Contents'
  <2>1. "gap" \notin past' /\ "full" \notin past' /\ past \subseteq past'
    BY <1>1, PastGrows
  <2>2. Growth /\ Contents
    BY <2>1 DEF Grows, Wrote
  <2>. QED BY <2>1, <2>2, CallsWrittenStep, LengthWrittenStep, SeenWrittenStep DEF Contents
<1>. QED BY <1>1 DEF Wrote

-----------------------------------------------------------------------------
\* The file starts full of what was written to it.
LEMMA FileInit ==
  ASSUME Init
  PROVE  Grows /\ Wrote
<1>. DEFINE N == DivRoundUp(InitialLength)
<1>0. /\ length = InitialLength /\ pc = [t \in Threads |-> "idle"]
      /\ seen = [t \in Threads |-> {}]
  BY DEF Init
<1>1. /\ tree \in [InitialNodes -> Sectors]
      /\ bytes = [s \in Sectors |-> [p \in Positions |->
       IF \E u \in 0 .. DivRoundUp(InitialLength) : tree[Path(u)] = s
       THEN IF \E u \in 0 .. DivRoundUp(InitialLength) :
                 tree[Path(u)] = s /\ u * BlockSize + p < InitialLength
            THEN "data" ELSE "zero"
       ELSE "junk"]]
  BY InitialTree DEF Init
<1>2. N \in Nat /\ InitialLength \in Nat /\ BlockSize \in Nat \ {0}
  BY BlocksAreNumbers, InodeAssumption
<1>3. \A u \in Nat : Present(u) <=> u <= N
  BY <1>1, InitialPaths DEF Present
<1>. HIDE DEF N
<1>4. \A u \in 0 .. N : Present(u)
  BY <1>2, <1>3
<1>5. Filled(length)
  BY <1>0, <1>4 DEF Filled, N
<1>6. NoneSkipped
  <2>1. ASSUME NEW u \in Nat, Present(u) PROVE DownTo(u)
    <3>1. u <= N
      BY <1>3, <2>1
    <3>2. \A v \in 0 .. u : v \in 0 .. N
      BY <1>2, <3>1
    <3>. QED BY <1>4, <3>2 DEF DownTo
  <2>. QED BY <2>1 DEF NoneSkipped
<1>7. Growth
  BY <1>0, <1>5, <1>6 DEF Growth, LensFilled, GrowthPlace
<1>8. ASSUME NEW q \in 0 .. InitialLength - 1 PROVE Written(q)
  <2>. DEFINE b == q \div BlockSize
              p == q % BlockSize
  <2>1. q \in Nat /\ q < InitialLength
    BY <1>2
  <2>2. b \in Nat /\ p \in Positions /\ q = BlockSize * b + p
    BY <2>1, ByteAt
  <2>3. b <= N
    BY <1>2, <2>1, BlockOfByte DEF N
  <2>. HIDE DEF b, p
  <2>4. p \in Nat
    BY <1>2, <2>2 DEF Positions
  <2>5. BlockSize * b = b * BlockSize
    BY <1>2, <2>2
  <2>6. b * BlockSize + p < InitialLength
    BY <2>1, <2>2, <2>5
  <2>7. b \in 0 .. N
    BY <1>2, <2>2, <2>3
  <2>8. Present(b)
    BY <1>4, <2>7
  <2>9. tree[Path(b)] \in Sectors
    BY <1>1, <2>8 DEF Present
  <2>10. bytes[tree[Path(b)]][p] = "data"
    BY <1>1, <2>2, <2>6, <2>7, <2>9 DEF N
  <2>. QED BY <2>8, <2>10 DEF Written, b, p
<1>9. Contents
  BY <1>0, <1>8 DEF Contents, WrittenTo, CallsWritten, SeenWritten, Begun
<1>. QED BY <1>7, <1>9 DEF Grows, Wrote

LEMMA Reads_only_written ==
  ASSUME Wrote
  PROVE  ReadsOnlyWritten
BY DEF Wrote, Contents, SeenWritten, ReadsOnlyWritten

LEMMA Invariant ==
  Spec => []IInv
<1>1. Init => IInv
  BY CoreInit, FileInit DEF IInv
<1>2. IInv /\ [Next]_vars => IInv'
  BY CoreStep, GrowsStep, WroteStep DEF IInv
<1>. QED BY <1>1, <1>2, PTL DEF Spec

\* Every sector of the disk is in one place: free, in another file, in the
\* tree or with one lookup, however many threads extend the file, run out of
\* sectors or delete other files (lookup, free_map_allocate,
\* free_map_release).
THEOREM SectorsAccountedHolds == Spec => []SectorsAccounted
<1>1. IInv => SectorsAccounted
  BY Accounted DEF IInv
<1>. QED BY <1>1, Invariant, PTL

\* A read returns bytes of this file only, and, unless a write has left a gap
\* or the disk has filled up, only bytes that were written (inode_read_at,
\* inode_write_at, lookup).
THEOREM ContentsRightHolds == Spec => []ContentsRight
<1>1. IInv => ContentsRight
  BY Reads_only_written DEF IInv, Core, ContentsRight
<1>. QED BY <1>1, Invariant, PTL

\* A short read has reached the end of the file, unless the disk has filled
\* up (inode_read_at, and the growth of inode_write_at).
THEOREM NoHolesHolds == Spec => []NoHoles
<1>1. IInv => NoHoles
  BY NoHolesFollow DEF IInv
<1>. QED BY <1>1, Invariant, PTL
=============================================================================
