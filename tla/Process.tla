------------------------------- MODULE Process ------------------------------
(***************************************************************************)
(* The life of processes: exec, wait, exit and kill (userprog/process.c,   *)
(* syscall.c, exception.c and the child records of threads/thread.c).      *)
(*                                                                         *)
(* thread_create puts a record for the child (struct thread_child) on the  *)
(* list of its parent.  exit writes the status there, through the child's  *)
(* parent_thread pointer, and raises the record's semaphore; process_wait  *)
(* lowers it and frees the record; thread_exit frees the records of all    *)
(* children.  The page of a struct thread is freed when the thread is      *)
(* dead.  What a program does between system calls is not modelled: a      *)
(* running process may call anything at any time.                          *)
(***************************************************************************)
EXTENDS Integers, FiniteSets

CONSTANTS Procs,       \* the processes that can come to be
          Root,        \* the initial thread, which runs the first program
          None,        \* NULL
          Codes,       \* arguments of the exit system call
          MayKill,     \* exceptions other than page faults happen
          MayRunOut,   \* memory for a new thread can be short
          MayOrphan    \* a process may end before its children

ASSUME ProcessAssumption ==
  /\ Root \in Procs /\ None \notin Procs
  /\ Codes \subseteq Nat
  /\ MayKill \in BOOLEAN /\ MayRunOut \in BOOLEAN /\ MayOrphan \in BOOLEAN

VARIABLES at,         \* where each process is
          parent,     \* parent_thread
          record,     \* the struct thread_child of each process
          callee,     \* whom exec or wait is about, or None
          execSema,   \* the semaphore of process_execute, on the caller's stack
          execStatus, \* its int status
          result,     \* what the last exec or wait returned
          exitCode,   \* ghost: the status a process gave to exit
          loaded,     \* ghost: the processes whose program was loaded
          collected,  \* ghost: how often wait returned the status of a process
          corrupt     \* ghost: freed memory was used

processVars == <<at, parent, record, callee, execSema, execStatus, result, exitCode,
          loaded, collected, corrupt>>

\* what exit, wait and exec hand on; 0 stands for the tid that exec returns
Status == Codes \cup {-2, -1, 0}
Labels == {"unborn", "loading", "running", "exec", "wait", "signal", "release",
           "free", "dead"}

ProcessTypeOK ==
  /\ at \in [Procs -> Labels]
  /\ parent \in [Procs -> Procs \cup {None}]
  /\ record \in [Procs -> [state : {"none", "linked", "freed"}, status : Status,
                           sema : 0 .. 1]]
  /\ callee \in [Procs -> Procs \cup {None}]
  /\ execSema \in [Procs -> 0 .. 1]
  /\ execStatus \in [Procs -> {-1, -2}]
  /\ result \in [Procs -> [of : Procs \cup {None}, value : Status, waited : BOOLEAN]]
  /\ exitCode \in [Procs -> Status]
  /\ loaded \subseteq Procs
  /\ collected \in [Procs -> 0 .. 2]
  /\ corrupt \in BOOLEAN

ProcessInit ==
  /\ at = [p \in Procs |-> IF p = Root THEN "running" ELSE "unborn"]
  /\ parent = [p \in Procs |-> None]
  /\ record = [p \in Procs |-> [state |-> "none", status |-> -2, sema |-> 0]]
  /\ callee = [p \in Procs |-> None]
  /\ execSema = [p \in Procs |-> 0]
  /\ execStatus = [p \in Procs |-> -2]
  /\ result = [p \in Procs |-> [of |-> None, value |-> -2, waited |-> FALSE]]
  /\ exitCode = [p \in Procs |-> -2]
  /\ loaded = {}
  /\ collected = [p \in Procs |-> 0]
  /\ corrupt = FALSE

-----------------------------------------------------------------------------
Children(p) == {c \in Procs : parent[c] = p}
Goto(p, l) == at' = [at EXCEPT ![p] = l]
Returns(p, c, v, w) ==
  result' = [result EXCEPT ![p] = [of |-> c, value |-> v, waited |-> w]]

\* thread_create: the child and its record on the list of the caller.
thread_create(p, c) ==
  /\ at' = [at EXCEPT ![p] = "exec", ![c] = "loading"]
  /\ parent' = [parent EXCEPT ![c] = p]
  /\ record' = [record EXCEPT ![c] = [state |-> "linked", status |-> -2, sema |-> 0]]
  /\ callee' = [callee EXCEPT ![p] = c]

\* process_execute up to its sema_down.  It returns at once only when the
\* page for the command line is missing; when the thread cannot be created it
\* waits all the same.
process_execute(p) ==
  /\ at[p] = "running"
  /\ \/ /\ \E c \in Procs : at[c] = "unborn" /\ thread_create(p, c)
        /\ execSema' = [execSema EXCEPT ![p] = 0]
        /\ execStatus' = [execStatus EXCEPT ![p] = -2]
        /\ UNCHANGED result
     \/ /\ MayRunOut
        /\ Goto(p, "exec")
        /\ callee' = [callee EXCEPT ![p] = None]
        /\ execSema' = [execSema EXCEPT ![p] = 0]
        /\ execStatus' = [execStatus EXCEPT ![p] = -2]
        /\ UNCHANGED <<parent, record, result>>
     \/ /\ MayRunOut
        /\ Returns(p, None, -1, FALSE)
        /\ UNCHANGED <<at, parent, record, callee, execSema, execStatus>>
  /\ UNCHANGED <<exitCode, loaded, collected, corrupt>>

\* Mutant: the status is written after the semaphore is raised, too late.
start_process_status_late(c) ==
  /\ at[c] = "loading"
  /\ execSema' = [execSema EXCEPT ![parent[c]] = 1]
  /\ \/ Goto(c, "running") /\ loaded' = loaded \cup {c}
     \/ Goto(c, "release") /\ UNCHANGED loaded
  /\ UNCHANGED <<parent, record, callee, execStatus, result, exitCode, collected,
                 corrupt>>

\* Mutant: a failed load does not raise the semaphore of the caller.
start_process_silent(c) ==
  /\ at[c] = "loading"
  /\ \/ /\ Goto(c, "running")
        /\ execSema' = [execSema EXCEPT ![parent[c]] = 1]
        /\ loaded' = loaded \cup {c}
     \/ /\ Goto(c, "release")
        /\ UNCHANGED <<execSema, loaded>>
  /\ UNCHANGED <<parent, record, callee, execStatus, result, exitCode, collected,
                 corrupt>>

\* start_process: the program is loaded, or the thread ends without exit.
start_process(c) ==
  /\ at[c] = "loading"
  /\ execSema' = [execSema EXCEPT ![parent[c]] = 1]
  /\ \/ /\ Goto(c, "running")
        /\ loaded' = loaded \cup {c}
        /\ UNCHANGED execStatus
     \/ /\ Goto(c, "release")
        /\ execStatus' = [execStatus EXCEPT ![parent[c]] = -1]
        /\ UNCHANGED loaded
  /\ UNCHANGED <<parent, record, callee, result, exitCode, collected, corrupt>>

ExecReturn(p) ==
  /\ at[p] = "exec" /\ execSema[p] = 1
  /\ execSema' = [execSema EXCEPT ![p] = 0]
  /\ Returns(p, IF execStatus[p] = -1 THEN None ELSE callee[p],
             IF execStatus[p] = -1 THEN -1 ELSE 0, FALSE)
  /\ Goto(p, "running")
  /\ callee' = [callee EXCEPT ![p] = None]
  /\ UNCHANGED <<parent, record, execStatus, exitCode, loaded, collected, corrupt>>

-----------------------------------------------------------------------------
\* Mutant: the list is not searched, only the parent is compared.
process_wait_any(p, c) ==
  /\ at[p] = "running" /\ c # p /\ parent[c] = p
  /\ callee' = [callee EXCEPT ![p] = c]
  /\ Goto(p, "wait")
  /\ UNCHANGED <<parent, record, execSema, execStatus, result, exitCode, loaded,
                 collected, corrupt>>

\* process_wait: any number may be given as the tid of the child.
process_wait(p, c) ==
  /\ at[p] = "running" /\ c # p
  /\ \/ /\ parent[c] = p /\ record[c].state = "linked"
        /\ callee' = [callee EXCEPT ![p] = c]
        /\ Goto(p, "wait")
        /\ UNCHANGED result
     \/ /\ ~ (parent[c] = p /\ record[c].state = "linked")
        /\ Returns(p, None, -1, FALSE)
        /\ UNCHANGED <<at, callee>>
  /\ UNCHANGED <<parent, record, execSema, execStatus, exitCode, loaded, collected, corrupt>>

\* Mutant: the record stays on the list, so that a second wait finds it.
WaitReturn_keeps_record(p) ==
  LET c == callee[p] IN
  /\ at[p] = "wait" /\ record[c].sema > 0
  /\ Returns(p, c, record[c].status, TRUE)
  /\ collected' = [collected EXCEPT ![c] = @ + 1]
  /\ Goto(p, "running")
  /\ callee' = [callee EXCEPT ![p] = None]
  /\ UNCHANGED <<parent, record, execSema, execStatus, exitCode, loaded, corrupt>>

WaitReturn(p) ==
  LET c == callee[p] IN
  /\ at[p] = "wait" /\ record[c].sema > 0
  /\ Returns(p, c, record[c].status, TRUE)
  /\ record' = [record EXCEPT ![c].state = "freed", ![c].sema = @ - 1]
  /\ collected' = [collected EXCEPT ![c] = @ + 1]
  /\ Goto(p, "running")
  /\ callee' = [callee EXCEPT ![p] = None]
  /\ UNCHANGED <<parent, execSema, execStatus, exitCode, loaded, corrupt>>

-----------------------------------------------------------------------------
MayEnd(p) ==
  /\ p # Root /\ at[p] = "running"
  /\ MayOrphan \/ \A c \in Children(p) : at[c] = "dead"

\* Mutant: the semaphore is raised before the status is written.
exit_signals_first(p, status) ==
  /\ MayEnd(p)
  /\ exitCode' = [exitCode EXCEPT ![p] = status]
  /\ record' = [record EXCEPT ![p].sema = 1]
  /\ Goto(p, "signal")
  /\ UNCHANGED <<parent, callee, execSema, execStatus, result, loaded, collected, corrupt>>

\* exit: the status goes into the record on the parent's list.  If the parent
\* is dead, its struct thread and the record are freed memory.  A page fault
\* that the process may not handle ends here too, with -1.
exit(p, status) ==
  /\ MayEnd(p)
  /\ exitCode' = [exitCode EXCEPT ![p] = status]
  /\ record' = [record EXCEPT ![p].status = status]
  /\ corrupt' = (at[parent[p]] = "dead" \/ record[p].state # "linked")
  /\ Goto(p, "signal")
  /\ UNCHANGED <<parent, callee, execSema, execStatus, result, loaded, collected>>

\* Mutant: the semaphore of the record is not raised.
ExitSignal_none(p) ==
  /\ at[p] = "signal"
  /\ Goto(p, "release")
  /\ UNCHANGED <<parent, record, callee, execSema, execStatus, result, exitCode,
                 loaded, collected, corrupt>>

ExitSignal(p) ==
  /\ at[p] = "signal"
  /\ record' = [record EXCEPT ![p].sema = @ + 1]
  /\ corrupt' = (record[p].state # "linked")
  /\ Goto(p, "release")
  /\ UNCHANGED <<parent, callee, execSema, execStatus, result, exitCode, loaded, collected>>

\* An exception in user code, other than a page fault: thread_exit only.
kill(p) ==
  /\ MayKill /\ MayEnd(p)
  /\ Goto(p, "release")
  /\ UNCHANGED <<parent, record, callee, execSema, execStatus, result, exitCode, loaded,
                 collected, corrupt>>

\* thread_exit: the mappings, the pages and the files are given back ...
GiveBack(p) ==
  /\ at[p] = "release"
  /\ Goto(p, "free")
  /\ UNCHANGED <<parent, record, callee, execSema, execStatus, result, exitCode, loaded,
                 collected, corrupt>>

\* ... and with interrupts off the records of the children and the thread.
thread_exit(p) ==
  /\ at[p] = "free"
  /\ record' = [c \in Procs |-> IF parent[c] = p /\ record[c].state = "linked"
                                THEN [record[c] EXCEPT !.state = "freed"]
                                ELSE record[c]]
  /\ Goto(p, "dead")
  /\ UNCHANGED <<parent, callee, execSema, execStatus, result, exitCode, loaded,
                 collected, corrupt>>

-----------------------------------------------------------------------------
\* What the program of a process asks for, and what the kernel then does.
Ask(p) ==
  \/ process_execute(p)
  \/ \E c \in Procs : process_wait(p, c)
  \/ \E status \in Codes \cup {-1} : exit(p, status)
  \/ kill(p)

Run(p) ==
  \/ start_process(p) \/ ExecReturn(p) \/ WaitReturn(p)
  \/ ExitSignal(p) \/ GiveBack(p) \/ thread_exit(p)

ProcessNext == ~ corrupt /\ \E p \in Procs : Ask(p) \/ Run(p)

ProcessSpec == ProcessInit /\ [][ProcessNext]_processVars

\* A thread that is ready is scheduled, and semaphores wake their waiters.
LiveSpec == ProcessSpec /\ \A p \in Procs : WF_processVars(~ corrupt /\ Run(p))

-----------------------------------------------------------------------------
(***************************************************************************)
(* Properties.                                                             *)
(***************************************************************************)

\* wait returns the status its child gave to exit, and never anything else,
\* however exit and wait interleave.
WaitReturnsExitStatus ==
  \A p \in Procs : result[p].waited =>
    LET c == result[p].of IN
    parent[c] = p /\ exitCode[c] # -2 /\ result[p].value = exitCode[c]

\* The status of a process is handed out at most once.
CollectedOnce == \A p \in Procs : collected[p] <= 1

\* exec answers with the process exactly when its program was loaded: the
\* status travels through the stack of the caller, before the semaphore.
ExecReportsLoad ==
  \A p \in Procs : at[p] = "running" /\ result[p].of # None => result[p].of \in loaded

\* A process that waits does so on a record that is still on its list: no
\* thread sleeps on a semaphore that was freed.
WaitersHaveRecords ==
  \A p \in Procs : at[p] = "wait" => record[callee[p]].state = "linked"

\* exec of a program whose thread was created returns: loading ends either way.
ExecReturns ==
  \A p \in Procs : at[p] = "exec" /\ callee[p] # None ~> (at[p] # "exec" \/ corrupt)

\* wait returns once the child has called exit.
WaitSeesExit ==
  \A p, c \in Procs :
    at[p] = "wait" /\ callee[p] = c /\ exitCode[c] # -2 ~> (at[p] # "wait" \/ corrupt)

\* What exec and wait answer is what the child has done (process_execute,
\* process_wait).
StatusesArrive == WaitReturnsExitStatus /\ ExecReportsLoad

\* A child record is collected once, and nobody waits on one that is gone
\* (process_wait, thread_exit).
RecordsRight == ProcessTypeOK /\ CollectedOnce /\ WaitersHaveRecords

\* Whoever waits for a child that does its part gets an answer.
CallersReturn == ExecReturns /\ WaitSeesExit

\* The comment of process_wait: for a child killed by an exception it returns.
WaitSeesKill ==
  \A p, c \in Procs :
    at[p] = "wait" /\ callee[p] = c /\ at[c] = "dead" ~> (at[p] # "wait" \/ corrupt)

\* The comment of process_execute: it returns TID_ERROR if the thread cannot
\* be created.
ExecReportsFailure ==
  \A p \in Procs : at[p] = "exec" ~> (at[p] # "exec" \/ corrupt)

\* A child may exit before or after its parent.
NoUseAfterFree == ~ corrupt

\* The design document: exit raises the semaphore last, after the process has
\* closed its files.
ExitSignalsLast ==
  \A p \in Procs : result[p].waited => at[result[p].of] \in {"free", "dead"}
=============================================================================
