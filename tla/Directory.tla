----------------------------- MODULE Directory ------------------------------
(***************************************************************************)
(* The name space: path walking and the file system calls of               *)
(* userprog/files.c, the directories of filesys/directory.c, and the table *)
(* of open inodes with its reference counts (inode_open, inode_reopen,     *)
(* inode_close, inode_remove of filesys/inode.c).                          *)
(*                                                                         *)
(* An inode is named by its sector.  The lock of a directory is taken for  *)
(* reading by dir_lookup and dir_readdir and for writing by dir_add and    *)
(* dir_remove.  The first three are one step each, taken when nobody holds *)
(* the lock for writing: nothing they do under the lock can be seen by a   *)
(* thread that does not take it.  dir_remove opens, checks and closes the  *)
(* inode it removes, which other threads can reach without the lock; it is *)
(* modelled in steps, with the lock in wlock.  The data blocks of inodes,  *)
(* and directories that run out of space, are left to Inode.               *)
(***************************************************************************)
EXTENDS Integers, Sequences, FiniteSets, FiniteSetsExt

CONSTANTS Threads,
          NoThread,
          Sectors,      \* sectors for inodes, numbers
          Root,         \* ROOT_DIR_SECTOR, one of them
          Calls,        \* the calls that threads make: [call, absolute, path, name]
          MaxCalls,     \* bound: the calls that are made in all
          MayExit       \* whether processes end

NoSector == 0   \* a NULL inode pointer

\* The system calls that take a path.
Kinds == {"create", "mkdir", "open", "chdir", "remove"}

ASSUME DirectoryAssumption ==
  /\ NoThread \notin Threads /\ IsFiniteSet(Threads)
  /\ Sectors \subseteq Nat \ {NoSector} /\ IsFiniteSet(Sectors) /\ Root \in Sectors
  /\ Calls \subseteq [call : Kinds, absolute : BOOLEAN, path : Seq(STRING), name : STRING]
  /\ MaxCalls \in Nat /\ MayExit \in BOOLEAN

\* What a descriptor stands for: struct user_file_info.
Descriptors == [inode : Sectors, is_dir : BOOLEAN]

VARIABLES used,        \* the sectors marked in the free map
          entries,     \* the entries in use of each directory
          parent,      \* the first word of a directory: its parent's sector
          open_cnt,    \* open_cnt of the open inodes, 0 for the others
          removed,     \* the open inodes whose removed flag is set
          wlock,       \* dir_locks_list: who holds a directory for writing
          pc, op,      \* the call of each thread and its local variables
          active_dir,  \* the sector of each process's active_dir
          open_files,  \* how many descriptors of each kind a process has
          calls,       \* calls made
          balance,     \* ghost: successful creations minus successful removals
          past         \* ghost: which of Events have happened

diskVars == <<used, entries, parent>>
vars == <<used, entries, parent, open_cnt, removed, wlock, pc, op, active_dir,
          open_files, calls, balance, past>>
ghostVars == <<calls, balance, past>>

\* A directory that had entries passed the check of dir_remove; a process ended
\* with a directory open.
Events == {"nonempty", "leaked"}

Idle == [call |-> "none", path |-> << >>, name |-> "", work |-> NoSector,
         next |-> NoSector, inode |-> NoSector, is_dir |-> FALSE]

\* filesys_init has made the root directory; every process starts in it.
Init ==
  /\ used = {Root}
  /\ entries = [s \in Sectors |-> {}]
  /\ parent = [s \in Sectors |-> NoSector]
  /\ open_cnt = [s \in Sectors |-> IF s = Root THEN Cardinality(Threads) ELSE 0]
  /\ removed = {}
  /\ wlock = [s \in Sectors |-> NoThread]
  /\ pc = [t \in Threads |-> "idle"]
  /\ op = [t \in Threads |-> Idle]
  /\ active_dir = [t \in Threads |-> Root]
  /\ open_files = [t \in Threads |-> [f \in Descriptors |-> 0]]
  /\ calls = 0
  /\ balance = 0
  /\ past = {}

-----------------------------------------------------------------------------
Goto(t, label) == pc' = [pc EXCEPT ![t] = label]

\* inode_open and inode_reopen.
Opens(s) == open_cnt' = [open_cnt EXCEPT ![s] = @ + 1]

\* inode_close, n[s] times for every sector s: the last close of a removed inode
\* gives its sector back to the free map.
Closes(n) ==
  LET left == [s \in Sectors |-> open_cnt[s] - n[s]]
      gone == {s \in removed : left[s] = 0}
  IN /\ open_cnt' = left
     /\ removed' = removed \ gone
     /\ used' = used \ gone

Once(b) == IF b THEN 1 ELSE 0
Close(s) == Closes([i \in Sectors |-> Once(i = s)])

Named(dir, name) == {e \in entries[dir] : e.name = name}
IsDir(s) == parent[s] # NoSector \/ s = Root

-----------------------------------------------------------------------------
(* merge_dir: from the root or the active directory down the path.         *)

Begin(t) ==
  /\ pc[t] = "idle" /\ calls < MaxCalls
  /\ \E c \in Calls :
       LET start == IF c.absolute THEN Root ELSE active_dir[t]
       IN /\ op' = [op EXCEPT ![t] =
               [call |-> c.call, path |-> c.path, name |-> c.name, work |-> start,
                next |-> NoSector, inode |-> NoSector, is_dir |-> FALSE]]
          /\ Opens(start)
  /\ calls' = calls + 1
  /\ Goto(t, "walk")
  /\ UNCHANGED <<diskVars, removed, wlock, active_dir, open_files, balance, past>>

\* The next inode on the path: "..", "." or what dir_lookup finds.
\* dir_get_parent_dir asserts that there is a parent: what is no directory, and
\* is reached by ".." where a directory was, stops the kernel there.
Walk(t) ==
  LET work == op[t].work
      token == Head(op[t].path)
      Take(next, is_dir) ==
        op' = [op EXCEPT ![t].path = Tail(@), ![t].next = next, ![t].is_dir = is_dir]
      To(next, is_dir) == Take(next, is_dir) /\ Opens(next)
  IN /\ pc[t] = "walk" /\ op[t].path # << >>
     /\ \/ token = ".." /\ work = Root /\ To(Root, TRUE)
        \/ /\ token = ".." /\ work # Root /\ parent[work] # NoSector
           /\ To(parent[work], TRUE)
        \/ token = "." /\ To(work, TRUE)
        \/ /\ token \notin {".", ".."} /\ wlock[work] = NoThread
           /\ \/ \E e \in Named(work, token) : To(e.inode_sector, e.is_dir)
              \/ /\ Named(work, token) = {}
                 /\ Take(NoSector, FALSE) /\ UNCHANGED open_cnt
     /\ Goto(t, "step")
     /\ UNCHANGED <<diskVars, removed, wlock, active_dir, open_files, ghostVars>>

\* dir_close (work); work = next.  An inode that is no directory is closed, and
\* the walk ends without a result.
Stepped(t) ==
  LET work == op[t].work
      next == op[t].next
  IN /\ pc[t] = "step"
     /\ \/ /\ op[t].is_dir
           /\ Close(work)
           /\ op' = [op EXCEPT ![t].work = next, ![t].next = NoSector]
           /\ Goto(t, "walk")
        \/ /\ ~ op[t].is_dir
           /\ Closes([i \in Sectors |-> Once(i = work) + Once(i = next)])
           /\ op' = [op EXCEPT ![t] = Idle]
           /\ Goto(t, "idle")
     /\ UNCHANGED <<entries, parent, wlock, active_dir, open_files, ghostVars>>

Arrived(t, call) == pc[t] = "walk" /\ op[t].path = << >> /\ op[t].call = call

\* dir_close (res) at the end of a call.
Leave(t) ==
  /\ pc[t] = "leave"
  /\ Close(op[t].work)
  /\ op' = [op EXCEPT ![t] = Idle]
  /\ Goto(t, "idle")
  /\ UNCHANGED <<entries, parent, wlock, active_dir, open_files, ghostVars>>

-----------------------------------------------------------------------------
(* create_sys and mkdir                                                    *)

\* filesys_create: a sector for the inode, and inode_create.  Either may find
\* the disk full; the second fails for want of index or data blocks, which are
\* not modelled, and its sector goes back.
CreateInode(t) ==
  /\ Arrived(t, "create") \/ Arrived(t, "mkdir")
  /\ \/ /\ op[t].name \notin {".", ".."} /\ used # Sectors
        /\ LET s == Min(Sectors \ used)
           IN /\ used' = used \cup {s}
              /\ entries' = [entries EXCEPT ![s] = {}]
              /\ parent' = [parent EXCEPT ![s] = NoSector]
              /\ op' = [op EXCEPT ![t].inode = s]
        /\ Goto(t, "add")
     \/ Goto(t, "leave") /\ UNCHANGED <<diskVars, op>>
  /\ UNCHANGED <<open_cnt, removed, wlock, active_dir, open_files, ghostVars>>

\* Mutant: dir_add does not look for the name first.
Add_unchecked(t) ==
  LET dir == op[t].work
      s == op[t].inode
      is_dir == op[t].call = "mkdir"
  IN /\ pc[t] = "add" /\ wlock[dir] = NoThread
     /\ entries' = [entries EXCEPT ![dir] = @ \cup
          {[name |-> op[t].name, inode_sector |-> s, is_dir |-> is_dir]}]
     /\ parent' = [parent EXCEPT ![s] = IF is_dir THEN dir ELSE @]
     /\ balance' = balance + 1
     /\ Goto(t, "leave")
     /\ UNCHANGED <<used, open_cnt, removed, wlock, op, active_dir, open_files, calls, past>>

\* Mutant: a create that fails keeps its sector.
Add_keeps_sector(t) ==
  \/ Add_unchecked(t) /\ Named(op[t].work, op[t].name) = {}
  \/ /\ pc[t] = "add" /\ wlock[op[t].work] = NoThread
     /\ Named(op[t].work, op[t].name) # {}
     /\ Goto(t, "leave")
     /\ UNCHANGED <<diskVars, open_cnt, removed, wlock, op, active_dir, open_files, ghostVars>>

\* dir_add; if it fails, filesys_create releases the sector.
Add(t) ==
  LET dir == op[t].work
      s == op[t].inode
      is_dir == op[t].call = "mkdir"
      valid == op[t].name # "" /\ Named(dir, op[t].name) = {}
  IN /\ pc[t] = "add" /\ wlock[dir] = NoThread
     /\ \/ /\ valid
           /\ entries' = [entries EXCEPT ![dir] = @ \cup
                {[name |-> op[t].name, inode_sector |-> s, is_dir |-> is_dir]}]
           /\ parent' = [parent EXCEPT ![s] = IF is_dir THEN dir ELSE @]
           /\ balance' = balance + 1
           /\ UNCHANGED used
        \/ /\ ~ valid
           /\ used' = used \ {s}
           /\ UNCHANGED <<entries, parent, balance>>
     /\ Goto(t, "leave")
     /\ UNCHANGED <<open_cnt, removed, wlock, op, active_dir, open_files, calls, past>>

-----------------------------------------------------------------------------
(* open_sys, close_sys and chdir                                           *)

\* A descriptor of a file holds the inode once, one of a directory twice: in f
\* and in dir.
Held(f) == IF f.is_dir THEN 2 ELSE 1

Open(t) == {f \in Descriptors : open_files[t][f] > 0}

\* add_file, and the references of the new descriptor.
AddFile(t, f) ==
  /\ open_cnt' = [open_cnt EXCEPT ![f.inode] = @ + Held(f)]
  /\ open_files' = [open_files EXCEPT ![t][f] = @ + 1]

filesys_open(t) ==
  LET dir == op[t].work
      Found == {[inode |-> e.inode_sector, is_dir |-> e.is_dir] :
                  e \in Named(dir, op[t].name)}
               \cup {[inode |-> dir, is_dir |-> TRUE] : n \in {op[t].name} \cap {"", "."}}
  IN /\ Arrived(t, "open") /\ wlock[dir] = NoThread
     /\ \/ \E f \in Found : AddFile(t, f)
        \/ Found = {} /\ UNCHANGED <<open_cnt, open_files>>
     /\ Goto(t, "leave")
     /\ UNCHANGED <<diskVars, removed, wlock, op, active_dir, ghostVars>>

close_sys(t) ==
  /\ pc[t] = "idle"
  /\ \E f \in Open(t) :
       /\ Closes([i \in Sectors |-> Held(f) * Once(i = f.inode)])
       /\ open_files' = [open_files EXCEPT ![t][f] = @ - 1]
  /\ UNCHANGED <<entries, parent, wlock, pc, op, active_dir, ghostVars>>

\* A second descriptor for what a descriptor stands for (used by mmap).
file_reopen_sys(t) ==
  /\ pc[t] = "idle" /\ calls < MaxCalls
  /\ \E f \in Open(t) : AddFile(t, f)
  /\ calls' = calls + 1
  /\ UNCHANGED <<diskVars, removed, wlock, pc, op, active_dir, balance, past>>

chdir(t) ==
  /\ Arrived(t, "chdir")
  /\ Close(active_dir[t])
  /\ active_dir' = [active_dir EXCEPT ![t] = op[t].work]
  /\ op' = [op EXCEPT ![t] = Idle]
  /\ Goto(t, "idle")
  /\ UNCHANGED <<entries, parent, wlock, open_files, ghostVars>>

\* The descriptors of a process for files, or for directories, at a sector.
FilesAt(t, s) == open_files[t][[inode |-> s, is_dir |-> FALSE]]
DirsAt(t, s) == open_files[t][[inode |-> s, is_dir |-> TRUE]]

\* thread_exit closes the file of every descriptor, not its dir, and the
\* active directory.
thread_exit(t) ==
  /\ MayExit /\ pc[t] = "idle"
  /\ Closes([s \in Sectors |-> FilesAt(t, s) + DirsAt(t, s) + Once(s = active_dir[t])])
  /\ open_files' = [open_files EXCEPT ![t] = [f \in Descriptors |-> 0]]
  /\ active_dir' = [active_dir EXCEPT ![t] = NoSector]
  /\ past' = IF \E f \in Open(t) : f.is_dir
             THEN past \cup {"leaked"} ELSE past
  /\ Goto(t, "exited")
  /\ UNCHANGED <<entries, parent, wlock, op, calls, balance>>

-----------------------------------------------------------------------------
(* remove_sys                                                              *)

\* dir_lookup, and what it finds decides how the call goes on.
RemoveLookup(t) ==
  LET dir == op[t].work
  IN /\ Arrived(t, "remove") /\ wlock[dir] = NoThread
     /\ \/ \E e \in Named(dir, op[t].name) :
             /\ Opens(e.inode_sector)
             /\ op' = [op EXCEPT ![t].inode = e.inode_sector]
             /\ Goto(t, IF ~ e.is_dir THEN "remove"
                        ELSE IF \E f \in Open(t) :
                                  f.inode = e.inode_sector
                        THEN "forget" ELSE "readdir")
        \/ /\ Named(dir, op[t].name) = {}
           /\ Goto(t, "leave")
           /\ UNCHANGED <<open_cnt, op>>
     /\ UNCHANGED <<diskVars, removed, wlock, active_dir, open_files, ghostVars>>

\* A directory may go if dir_readdir finds nothing in it and it is not the
\* active directory; its inode is closed again before it is removed.
Readdir(t) ==
  LET s == op[t].inode
      allow == entries[s] = {} /\ s # active_dir[t]
  IN /\ pc[t] = "readdir" /\ wlock[s] = NoThread
     /\ Goto(t, IF allow THEN "close_dir" ELSE "forget")
     /\ UNCHANGED <<diskVars, open_cnt, removed, wlock, op, active_dir, open_files,
                    ghostVars>>

CloseDir(t) ==
  /\ pc[t] = "close_dir"
  /\ Close(op[t].inode)
  /\ op' = [op EXCEPT ![t].inode = NoSector]
  /\ Goto(t, "remove")
  /\ UNCHANGED <<entries, parent, wlock, active_dir, open_files, ghostVars>>

\* Mutant: remove_sys forgets to close the inode it looked up.
Forget_keeps_open(t) ==
  /\ pc[t] = "forget"
  /\ op' = [op EXCEPT ![t].inode = NoSector]
  /\ Goto(t, "leave")
  /\ UNCHANGED <<diskVars, open_cnt, removed, wlock, active_dir, open_files, ghostVars>>

\* inode_close (inode) of remove_sys, after a file was removed or when a
\* directory must stay.
Forget(t) ==
  /\ pc[t] = "forget"
  /\ Close(op[t].inode)
  /\ op' = [op EXCEPT ![t].inode = NoSector]
  /\ Goto(t, "leave")
  /\ UNCHANGED <<entries, parent, wlock, active_dir, open_files, ghostVars>>

\* Where remove_sys goes on after filesys_remove.
Returned(t) == IF op[t].inode = NoSector THEN "leave" ELSE "forget"

\* Mutant: dir_remove keeps the lock only while it removes a directory.
dir_remove_unlocked(t) ==
  LET dir == op[t].work
  IN /\ pc[t] = "remove" /\ wlock[dir] = NoThread
     /\ \/ \E e \in Named(dir, op[t].name) :
             /\ wlock' = [wlock EXCEPT ![dir] = IF e.is_dir THEN t ELSE @]
             /\ Opens(e.inode_sector)
             /\ op' = [op EXCEPT ![t].next = e.inode_sector, ![t].is_dir = e.is_dir]
             /\ Goto(t, "check")
        \/ /\ Named(dir, op[t].name) = {}
           /\ Goto(t, Returned(t))
           /\ UNCHANGED <<wlock, open_cnt, op>>
     /\ UNCHANGED <<diskVars, removed, active_dir, open_files, ghostVars>>

\* dir_remove: take the lock and find and open the inode to remove ...
dir_remove(t) ==
  LET dir == op[t].work
  IN /\ pc[t] = "remove" /\ wlock[dir] = NoThread
     /\ \/ \E e \in Named(dir, op[t].name) :
             /\ wlock' = [wlock EXCEPT ![dir] = t]
             /\ Opens(e.inode_sector)
             /\ op' = [op EXCEPT ![t].next = e.inode_sector, ![t].is_dir = e.is_dir]
             /\ Goto(t, "check")
        \/ /\ Named(dir, op[t].name) = {}
           /\ Goto(t, Returned(t))
           /\ UNCHANGED <<wlock, open_cnt, op>>
     /\ UNCHANGED <<diskVars, removed, active_dir, open_files, ghostVars>>

\* Mutant: an open directory is removed.
RemoveCheck_none(t) ==
  /\ pc[t] = "check"
  /\ Goto(t, "erase")
  /\ UNCHANGED <<diskVars, open_cnt, removed, wlock, op, active_dir, open_files,
                 ghostVars>>

\* ... check that nobody else has a directory open ...
RemoveCheck(t) ==
  LET next == op[t].next
      busy == op[t].is_dir /\ open_cnt[next] > 1
  IN /\ pc[t] = "check"
     /\ Goto(t, IF busy THEN "release" ELSE "erase")
     /\ past' = IF op[t].is_dir /\ ~ busy /\ entries[next] # {}
                THEN past \cup {"nonempty"} ELSE past
     /\ UNCHANGED <<diskVars, open_cnt, removed, wlock, op, active_dir, open_files,
                    calls, balance>>

\* ... erase the entry and mark the inode ...
RemoveErase(t) ==
  /\ pc[t] = "erase"
  /\ entries' = [entries EXCEPT ![op[t].work] = @ \ Named(op[t].work, op[t].name)]
  /\ removed' = removed \cup {op[t].next}
  /\ balance' = balance - 1
  /\ Goto(t, "release")
  /\ UNCHANGED <<used, parent, open_cnt, wlock, op, active_dir, open_files, calls, past>>

\* ... close it and release the lock.
RemoveRelease(t) ==
  /\ pc[t] = "release"
  /\ Close(op[t].next)
  /\ wlock' = [wlock EXCEPT ![op[t].work] = NoThread]
  /\ op' = [op EXCEPT ![t].next = NoSector]
  /\ Goto(t, Returned(t))
  /\ UNCHANGED <<entries, parent, active_dir, open_files, ghostVars>>

-----------------------------------------------------------------------------
Step(t) ==
  \/ Walk(t) \/ Stepped(t) \/ Leave(t)
  \/ CreateInode(t) \/ Add(t) \/ filesys_open(t) \/ chdir(t)
  \/ RemoveLookup(t) \/ Readdir(t) \/ CloseDir(t) \/ Forget(t)
  \/ dir_remove(t) \/ RemoveCheck(t) \/ RemoveErase(t) \/ RemoveRelease(t)

Next ==
  \E t \in Threads : \/ Begin(t) \/ close_sys(t) \/ file_reopen_sys(t)
                     \/ thread_exit(t) \/ Step(t)

Spec == Init /\ [][Next]_vars
-----------------------------------------------------------------------------
(* Properties                                                              *)

PC == {"idle", "walk", "step", "leave", "add", "readdir", "close_dir", "forget",
       "remove", "check", "erase", "release", "exited"}

\* The names that calls give, and the name of no file.
FileNames == {c.name : c \in Calls} \cup {""}

Entry == [name : FileNames, inode_sector : Sectors, is_dir : BOOLEAN]

Op == [call : Kinds \cup {"none"}, path : Seq(STRING), name : FileNames,
       work : Sectors \cup {NoSector}, next : Sectors \cup {NoSector},
       inode : Sectors \cup {NoSector}, is_dir : BOOLEAN]

\* Every variable has its type; in particular no inode is closed more often
\* than it was opened.
TypeOK ==
  /\ used \subseteq Sectors /\ removed \subseteq Sectors
  /\ entries \in [Sectors -> SUBSET Entry]
  /\ parent \in [Sectors -> Sectors \cup {NoSector}]
  /\ open_cnt \in [Sectors -> Nat]
  /\ wlock \in [Sectors -> Threads \cup {NoThread}]
  /\ pc \in [Threads -> PC]
  /\ op \in [Threads -> Op]
  /\ active_dir \in [Threads -> Sectors \cup {NoSector}]
  /\ open_files \in [Threads -> [Descriptors -> Nat]]
  /\ calls \in 0 .. MaxCalls
  /\ past \subseteq Events

\* The references that a thread has to an inode: its active directory, its
\* descriptors, and the local variables of the call it is in.
Refs(t, s) ==
  Once(active_dir[t] = s) + FilesAt(t, s) + 2 * DirsAt(t, s)
  + Once(op[t].work = s) + Once(op[t].next = s)
  + Once(op[t].inode = s /\ op[t].call = "remove")

\* The references of all threads, each with its number.
References(s) == UNION {{t} \X (1 .. Refs(t, s)) : t \in Threads}

\* Every directory was empty when dir_remove compared its open_cnt with 1.  If
\* one was not (see RemovesOnlyEmpty), a process that is in a subdirectory can
\* come back by "..", and the removal strands what is still in the directory:
\* inodes keep their sectors, and ".." leads to a sector that is free or used
\* again.
Intact == "nonempty" \notin past

\* The count of an inode is never less than the references to it, so that it
\* is not freed under a user, and never more, so that it is freed at last:
\* every path through the calls closes what it opened (inode_open,
\* inode_reopen, inode_close and their callers).  A process that ends with a
\* directory open leaves it one too high.
ReferencesCounted ==
  \A s \in Sectors :
    /\ open_cnt[s] >= Cardinality(References(s))
    /\ "leaked" \notin past => open_cnt[s] = Cardinality(References(s))

\* Every entry of a directory leads to an inode that is allocated and not
\* marked removed, whatever is created, removed and closed at the same time;
\* names are unique and no inode has two names (dir_add, dir_remove).
EntriesValid ==
  LET Live == UNION {{<<d, e>> : e \in entries[d]} : d \in used}
  IN \A x, y \in Live :
       /\ x[2].inode_sector \in used \ removed
       /\ x[1] = y[1] /\ x[2].name = y[2].name => x = y
       /\ x[2].inode_sector = y[2].inode_sector => x = y

\* The inodes that have a name, are open, or are about to get a name.
NamedInodes == UNION {{e.inode_sector : e \in entries[d]} : d \in used}
OpenInodes == {s \in Sectors : open_cnt[s] > 0}
ComingInodes == {op[t].inode : t \in {u \in Threads : pc[u] = "add"}}

\* An inode keeps its sector exactly as long as it is one of them: a removed
\* file lives until its last close and no failed or interrupted call leaves an
\* inode behind (filesys_create, inode_close).
NoSectorLost ==
  Intact => used = {Root} \cup NamedInodes \cup OpenInodes \cup ComingInodes

\* An inode lives exactly as long as a name or an open reference leads to it
\* (inode_open, inode_close, inode_remove and their callers).
InodesAccounted == TypeOK /\ ReferencesCounted /\ NoSectorLost

\* DESIGNDOC B5: a directory that is open, or is the active directory of a
\* process, is not removed: when a directory is marked, the thread that
\* removes it is the only one that refers to it (dir_remove).
OpenDirsStay ==
  Intact => \A s \in removed : IsDir(s) =>
    \A t \in Threads : Refs(t, s) > 0 => pc[t] = "release" /\ op[t].next = s

\* DESIGNDOC B4: of two attempts to create or to remove one name only one
\* succeeds: the successful calls account for the entries that there are.
OneWinner ==
  Intact =>
    balance = Cardinality(UNION {{d} \X entries[d] : d \in used})

\* The assignment: directories may only be deleted if they are empty.
RemovesOnlyEmpty ==
  [][\A s \in removed' \ removed : IsDir(s) => entries[s] = {}]_vars

\* The assignment: the end of a process closes all its descriptors, as if by
\* close.  An inode that is open is open somewhere.
ExitClosesAll ==
  \A s \in Sectors : open_cnt[s] = Cardinality(References(s))
=============================================================================
