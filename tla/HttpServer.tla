----------------------------- MODULE HttpServer -----------------------------
(* The HTTP server of Project6: the listener of server.c, the epoll set and the *)
(* workers of processor.c, the life of a connection (processor_state_routine),  *)
(* the dispatch of a request, send_file_gio, the pipes and the child of a CGI    *)
(* script (cgi_bin.c) and the lock of the log (logger.c).                       *)
(*                                                                              *)
(* A request arrives as one item of the stream, its content as another; what    *)
(* the parser finds in it is a record of the facts the code branches on.  Only  *)
(* sockets and pipes are in the table of descriptors: the files of an answer    *)
(* and the log are opened and closed by one worker, with their numbers unused   *)
(* by anybody else.  Output of scripts is counted in units.                     *)
EXTENDS Integers, Sequences, FiniteSets, FiniteSetsExt, Functions

CONSTANTS Workers,      \* NUM_OF_WORKERS threads
          Conns,        \* the connections that clients make
          NoConn, NoFile,
          NumFds,       \* bound: numbers for descriptors, enough for all
          NumPipes,     \* bound: pipes that exist at once, enough for all
          Requests,     \* what clients send: see RequestType
          Scripts,      \* name of a script -> [reads: its input to the end, first;
                        \* units: of output]
          BufLen,       \* units that fit into the buffer of do_cgi
          ReadMax,      \* units that one read of do_cgi asks for
          PipeCap,      \* units that fit into a pipe
          FileSize,     \* bytes in the file
          Fails,        \* calls of the system that may fail: "accept", "pipe",
                        \* "fork", "log" (fopen of the log)
          Leavers,      \* connections whose client may be gone before it is served
          MaxSends      \* bound: requests of all clients

Fds == 1 .. NumFds
Pipes == 1 .. NumPipes
Files == Conns \cup (Pipes \X {"R", "W"})
Body == [content |-> TRUE]
NoRange == [S |-> -1, E |-> -1]
Int32Max == 2147483647
NoLength == -1

\* what split_range makes of the header: from and to, only from, or only a suffix
split_range(form, n, m) ==
    CASE form = "none" -> NoRange
      [] form = "from-to" -> [S |-> n, E |-> m]
      [] form \in {"from-", "-suffix"} -> [S |-> n, E |-> Int32Max]

\* A refused target is one with dots, or any target of a host that is known but
\* not on this port; range is what split_range has made of the header; match says
\* that if-none-match is the hash of what is to be sent.
RequestType == [parses : BOOLEAN, host : {"none", "known", "unknown"},
                target : {"cgi", "refused", "dir", "file", "missing"},
                range : [S : Int, E : Int], match : BOOLEAN, keep : BOOLEAN,
                content : BOOLEAN, script : DOMAIN Scripts]

ASSUME HttpAssumption ==
    /\ IsFiniteSet(Workers) /\ IsFiniteSet(Conns)
    /\ NoConn \notin Conns /\ NoFile \notin Files
    /\ Conns \cap (Pipes \X {"R", "W"}) = {}
    /\ Leavers \subseteq Conns
    /\ NumFds >= Cardinality(Conns) + 4 * Cardinality(Workers)
    /\ NumFds \in Nat /\ NumPipes \in Nat /\ MaxSends \in Nat
    /\ {BufLen, ReadMax, PipeCap, FileSize} \subseteq Nat \ {0}
    /\ \A s \in DOMAIN Scripts : Scripts[s] \in [reads : BOOLEAN, units : Nat]
    /\ \A r \in Requests : r \in RequestType

VARIABLES
    accepted,         \* the connections that are not in the backlog any more
    inbox,            \* what has arrived on it and has not been read
    left,             \* connections whose client is gone
    answer,           \* the answer that is being sent on it: [status, length announced, first
                      \* byte of a file, units or bytes of body]
    sends,            \* requests that clients may still send
    listening,        \* one_port_listener has not returned
    fds,              \* descriptors of the server: number -> open file
    heap,             \* the processor_states that are allocated
    fd_of,            \* data->fd of each, 0 for one that is not allocated
    epoll,            \* processor_states that epoll_wait may return
    worker,           \* [pc, aux, http, pipe_in, pipe_out, again: SO_RCVTIMEO is
                      \* set, then: where log_write_error returns to]
    child,            \* the script each worker has started: [files it has open,
                      \* pipe_in, pipe_out, script, todo: units to write]
    zombies,          \* children that have ended and have not been waited for
    buf,              \* units in each pipe
    log_lock,         \* the mutex of the log is held
    crashed           \* the server has ended

client_vars == <<accepted, inbox, left, sends>>
conn_vars == <<listening, heap, fd_of, epoll>>
cgi_vars == <<child, zombies, buf>>
vars == <<client_vars, answer, conn_vars, fds, worker, cgi_vars, log_lock, crashed>>

Where == {"idle", "parse", "content", "content_again", "inner", "push404", "sendfile",
          "pipe_in", "pipe_out", "fork", "parent", "wait", "copy",
          "logerr", "log", "peek", "close"}

NoAnswer == [status |-> 0, length |-> NoLength, first |-> 0, body |-> 0]
NoChild == [files |-> {}, pipe_in |-> 0, pipe_out |-> 0, script |-> "none", todo |-> 0]
NoRequest == [parses |-> FALSE]
Idle == [pc |-> "idle", aux |-> NoConn, http |-> NoRequest, pipe_in |-> 0,
         pipe_out |-> 0, again |-> FALSE, then |-> "log"]

Init ==
    /\ accepted = {} /\ inbox = [c \in Conns |-> << >>] /\ left = {}
    /\ answer = [c \in Conns |-> NoAnswer] /\ sends = MaxSends
    /\ listening = TRUE
    /\ fds = [f \in Fds |-> NoFile]
    /\ heap = {} /\ fd_of = [c \in Conns |-> 0] /\ epoll = {}
    /\ worker = [w \in Workers |-> Idle]
    /\ child = [w \in Workers |-> NoChild] /\ zombies = 0 /\ buf = [p \in Pipes |-> 0]
    /\ log_lock = FALSE /\ crashed = FALSE

-----------------------------------------------------------------------------
(* Descriptors.  A child has a copy of all that are open when it is forked,  *)
(* and none of them is closed by exec.                                       *)

Opened(t, file) == [t EXCEPT ![Min({f \in Fds : t[f] = NoFile})] = file]
Closed(t, files) == [f \in Fds |-> IF t[f] \in files THEN NoFile ELSE t[f]]
Ends(p) == {<<p, "R">>, <<p, "W">>}
Holds(file) == file \in Range(fds) \/ \E w \in Workers : file \in child[w].files
Running(w) == child[w].files # {}

\* the pipe that the next call of pipe() makes, where the bounds leave room for it
FreePipes == {p \in Pipes : \A e \in Ends(p) : ~Holds(e)}
NewPipe == Min(FreePipes)
PipeFits == FreePipes # {} /\ \E f, g \in Fds : f # g /\ {fds[f], fds[g]} = {NoFile}

-----------------------------------------------------------------------------
(* Clients (external).  Nothing is said of them after the server has ended.  *)

Send(c, r) ==
    /\ c \notin left /\ ~crashed /\ sends > 0
    /\ sends' = sends - 1
    /\ inbox' = [inbox EXCEPT ![c] = @ \o (IF r.content THEN <<r, Body>> ELSE <<r>>)]
    /\ UNCHANGED <<accepted, left, answer, conn_vars, fds, worker, cgi_vars, log_lock, crashed>>

Leave(c) ==
    /\ c \in Leavers \ left /\ ~crashed
    /\ left' = left \cup {c}
    /\ UNCHANGED <<accepted, inbox, sends, answer, conn_vars, fds, worker, cgi_vars, log_lock, crashed>>

-----------------------------------------------------------------------------
(* one_port_listener, and the workers' loop.                                 *)

\* accept, malloc of the processor_state and processor_add.  The registration
\* is for one event (EPOLLONESHOT).
Accept(c) ==
    /\ listening /\ ~crashed /\ c \notin accepted /\ NoFile \in Range(fds)
    /\ accepted' = accepted \cup {c}
    /\ fds' = Opened(fds, c)
    /\ heap' = heap \cup {c}
    /\ fd_of' = [fd_of EXCEPT ![c] = Min({f \in Fds : fds[f] = NoFile})]
    /\ epoll' = epoll \cup {c}
    /\ UNCHANGED <<inbox, left, sends, answer, listening, worker, cgi_vars, log_lock, crashed>>

\* the listener returns when accept fails
AcceptFails ==
    /\ listening /\ ~crashed /\ "accept" \in Fails
    /\ accepted # Conns
    /\ listening' = FALSE
    /\ UNCHANGED <<client_vars, answer, heap, fd_of, epoll, fds, worker, cgi_vars, log_lock, crashed>>

Readable(c) == inbox[c] # << >> \/ c \in left

At(w, l) == worker[w].pc = l /\ ~crashed
Goto(w, l) == worker' = [worker EXCEPT ![w].pc = l]

\* Mutant: processor_add without EPOLLONESHOT
epoll_wait_level(w) ==
    /\ At(w, "idle")
    /\ \E c \in epoll :
        /\ Readable(c)
        /\ worker' = [worker EXCEPT ![w] = [Idle EXCEPT !.pc = "parse", !.aux = c]]
    /\ UNCHANGED <<client_vars, answer, conn_vars, fds, cgi_vars, log_lock, crashed>>

epoll_wait(w) ==
    /\ At(w, "idle")
    /\ \E c \in epoll :
        /\ Readable(c)
        /\ epoll' = epoll \ {c}
        /\ worker' = [worker EXCEPT ![w] = [Idle EXCEPT !.pc = "parse", !.aux = c]]
    /\ UNCHANGED <<client_vars, answer, listening, heap, fd_of, fds, cgi_vars, log_lock, crashed>>

-----------------------------------------------------------------------------
(* http_parse: NULL at the end of the stream or for what does not parse.     *)

Conn(w) == LET f == fd_of[worker[w].aux] IN IF f = 0 THEN NoFile ELSE fds[f]

http_parse(w) ==
    LET c == Conn(w)
        r == Head(inbox[c])
    IN /\ At(w, "parse") /\ c \in Conns /\ Readable(c)
       /\ IF inbox[c] = << >>
          THEN Goto(w, "close") /\ UNCHANGED inbox
          ELSE /\ inbox' = [inbox EXCEPT ![c] = Tail(@)]
               /\ worker' = [worker EXCEPT ![w].http = r,
                                           ![w].pc = IF r = Body \/ ~r.parses THEN "close"
                                                     ELSE IF r.content THEN "content"
                                                     ELSE "inner"]
       /\ UNCHANGED <<accepted, left, sends, answer, conn_vars, fds, cgi_vars, log_lock, crashed>>

\* Content is read twice.  The first time one read must return all of it.
\* It can return less, and nothing at the end of the stream or after the time
\* limit that keep-alive has set.
ReadContent(w) ==
    LET c == Conn(w)
    IN /\ At(w, "content") /\ c \in Conns
       /\ Readable(c) \/ worker[w].again
       /\ IF inbox[c] = << >>
          THEN crashed' = TRUE /\ UNCHANGED inbox
          ELSE inbox' = [inbox EXCEPT ![c] = Tail(@)] /\ crashed' \in BOOLEAN
       /\ Goto(w, "content_again")
       /\ UNCHANGED <<accepted, left, sends, answer, conn_vars, fds, cgi_vars, log_lock>>

\* The second time the loop goes on until as much has arrived again; it does
\* not stop at the end of the stream.
ReadContentAgain(w) ==
    LET c == Conn(w)
    IN /\ At(w, "content_again") /\ c \in Conns /\ inbox[c] # << >>
       /\ inbox' = [inbox EXCEPT ![c] = Tail(@)]
       /\ Goto(w, "inner")
       /\ UNCHANGED <<accepted, left, sends, answer, conn_vars, fds, cgi_vars, log_lock, crashed>>

-----------------------------------------------------------------------------
(* Answers.  A write to a client that is gone can end the server (SIGPIPE).  *)

Write(w, a) ==
    LET c == Conn(w)
    IN /\ answer' = IF c \in Conns THEN [answer EXCEPT ![c] = a] ELSE answer
       /\ crashed' \in IF c \in left THEN BOOLEAN ELSE {FALSE}

Whole(status, n) == [status |-> status, length |-> n, first |-> 0, body |-> n]
Page404 == Whole(404, 207)

\* Mutant: the end of the range is not cut at the end of the file
FilePart_uncut(r) ==
    LET full_length == FileSize - 1
        ranged == r.range # NoRange
        s == IF ranged THEN Max({r.range.S, 0}) ELSE 0
        e == IF ranged THEN r.range.E ELSE full_length - 1
        length == IF r.match THEN 0 ELSE full_length
        status == IF s >= length \/ e < 0 \/ s > e THEN 416
                  ELSE IF r.match THEN 304 ELSE IF ranged THEN 206 ELSE 200
    IN [status |-> status, s |-> s, e |-> e]

\* send_file_gio: the status, and the first and last byte
FilePart(r) ==
    LET full_length == FileSize - 1
        ranged == r.range # NoRange
        s == IF ranged THEN Max({r.range.S, 0}) ELSE 0
        e == Min({IF ranged THEN r.range.E ELSE full_length - 1, full_length - 1})
        length == IF r.match THEN 0 ELSE full_length
        status == IF s >= length \/ e < 0 \/ s > e THEN 416
                  ELSE IF r.match THEN 304 ELSE IF ranged THEN 206 ELSE 200
    IN [status |-> status, s |-> s, e |-> e]

\* what sendfile finds from byte s on, asked for e - s + 1 bytes as a size_t
Sendable(s, e) ==
    LET rest == Max({FileSize - s, 0})
    IN IF e - s + 1 < 0 THEN rest ELSE Min({e - s + 1, rest})

\* the header that build_header makes for it: no length with 416
FileHeader(r) ==
    LET p == FilePart(r)
    IN [status |-> p.status, length |-> IF p.status = 416 THEN NoLength ELSE p.e - p.s + 1,
        first |-> p.s, body |-> 0]

\* push_construct_dir: header and listing in one write
DirLength == 2
DirAnswer(r) == IF r.match THEN Whole(304, 0) ELSE Whole(200, DirLength)

\* processor_inner_routine, up to the first call that others can see.  Without a
\* host was404_error follows a NULL pointer.
processor_inner_routine(w) ==
    LET r == worker[w].http
    IN /\ At(w, "inner")
       /\ \/ /\ r.host = "none"
             /\ crashed' = TRUE
             /\ UNCHANGED <<worker, answer>>
          \/ /\ r.host = "unknown" \/ (r.host = "known" /\ r.target = "refused")
             /\ Write(w, Page404) /\ Goto(w, "log")
          \/ /\ r.host = "known" /\ r.target = "dir"
             /\ Write(w, DirAnswer(r)) /\ Goto(w, "log")
          \/ /\ r.host = "known" /\ r.target = "file"
             /\ Write(w, FileHeader(r)) /\ Goto(w, "sendfile")
          \/ /\ r.host = "known" /\ r.target = "missing"
             /\ worker' = [worker EXCEPT ![w].pc = "logerr", ![w].then = "push404"]
             /\ UNCHANGED <<answer, crashed>>
          \/ /\ r.host = "known" /\ r.target = "cgi"
             /\ Goto(w, "pipe_in")
             /\ UNCHANGED <<answer, crashed>>
       /\ UNCHANGED <<client_vars, conn_vars, fds, cgi_vars, log_lock>>

push404(w) ==
    /\ At(w, "push404")
    /\ Write(w, Page404) /\ Goto(w, "log")
    /\ UNCHANGED <<client_vars, conn_vars, fds, cgi_vars, log_lock>>

\* the second half of send_file_gio
sendfile(w) ==
    LET p == FilePart(worker[w].http)
        n == IF p.status = 304 THEN 0 ELSE Sendable(p.s, p.e)
    IN /\ At(w, "sendfile")
       /\ Write(w, [FileHeader(worker[w].http) EXCEPT !.body = n])
       /\ worker' = [worker EXCEPT ![w].pc = IF p.status = 304 \/ n = p.e - p.s + 1
                                             THEN "log" ELSE "logerr",
                                   ![w].then = "log"]
       /\ UNCHANGED <<client_vars, conn_vars, fds, cgi_vars, log_lock>>

-----------------------------------------------------------------------------
(* do_cgi and cgi_bin_execute.  The script gets no content: it is passed on  *)
(* only for the method "post" in small letters.                              *)

\* pipe(): a new pipe, or an error
pipe_in(w) ==
    /\ At(w, "pipe_in")
    /\ \/ /\ PipeFits
          /\ fds' = Opened(Opened(fds, <<NewPipe, "R">>), <<NewPipe, "W">>)
          /\ buf' = [buf EXCEPT ![NewPipe] = 0]
          /\ worker' = [worker EXCEPT ![w].pc = "pipe_out", ![w].pipe_in = NewPipe]
       \/ /\ "pipe" \in Fails
          /\ Goto(w, "push404")
          /\ UNCHANGED <<fds, buf>>
    /\ UNCHANGED <<client_vars, answer, conn_vars, child, zombies, log_lock, crashed>>

\* after an error the first pipe is closed
pipe_out(w) ==
    /\ At(w, "pipe_out")
    /\ \/ /\ PipeFits
          /\ fds' = Opened(Opened(fds, <<NewPipe, "R">>), <<NewPipe, "W">>)
          /\ buf' = [buf EXCEPT ![NewPipe] = 0]
          /\ worker' = [worker EXCEPT ![w].pc = "fork", ![w].pipe_out = NewPipe]
       \/ /\ "pipe" \in Fails
          /\ fds' = Closed(fds, Ends(worker[w].pipe_in))
          /\ Goto(w, "push404")
          /\ UNCHANGED buf
    /\ UNCHANGED <<client_vars, answer, conn_vars, child, zombies, log_lock, crashed>>

\* The child closes its copies of the ends it does not use, and no others.
Inherited(w) == Range(fds) \ {NoFile, <<worker[w].pipe_in, "W">>, <<worker[w].pipe_out, "R">>}

\* Mutant: the pipes stay open when fork fails
fork_leaks(w) ==
    /\ At(w, "fork")
    /\ "fork" \in Fails
    /\ Goto(w, "push404")
    /\ UNCHANGED <<client_vars, answer, conn_vars, fds, cgi_vars, log_lock, crashed>>

fork(w) ==
    LET r == worker[w].http
    IN /\ At(w, "fork")
       /\ \/ /\ child' = [child EXCEPT ![w] =
                            [files |-> Inherited(w), pipe_in |-> worker[w].pipe_in,
                             pipe_out |-> worker[w].pipe_out, script |-> r.script,
                             todo |-> Scripts[r.script].units]]
             /\ Goto(w, "parent")
             /\ UNCHANGED fds
          \/ /\ "fork" \in Fails
             /\ fds' = Closed(fds, Ends(worker[w].pipe_in) \cup Ends(worker[w].pipe_out))
             /\ Goto(w, "push404")
             /\ UNCHANGED child
       /\ UNCHANGED <<client_vars, answer, conn_vars, zombies, buf, log_lock, crashed>>

CloseForParent(w) ==
    /\ At(w, "parent")
    /\ fds' = Closed(fds, Ends(worker[w].pipe_in) \cup {<<worker[w].pipe_out, "W">>})
    /\ Goto(w, "wait")
    /\ UNCHANGED <<client_vars, answer, conn_vars, cgi_vars, log_lock, crashed>>

\* wait: any child of the server will do; an error if there is none.  Both are
\* true for the code.  do_cgi then writes the status line.
wait(w) ==
    /\ At(w, "wait")
    /\ zombies = 0 => \A v \in Workers : ~Running(v)
    /\ zombies' = Max({zombies - 1, 0})
    /\ Write(w, [NoAnswer EXCEPT !.status = 200])
    /\ Goto(w, "copy")
    /\ UNCHANGED <<client_vars, conn_vars, fds, child, buf, log_lock>>

\* Mutant: as CgiCopy, but one read is taken for all of the output
CgiCopy_once(w) ==
    LET p == worker[w].pipe_out
        n == Min({buf[p], ReadMax})
    IN /\ At(w, "copy")
       /\ Write(w, [answer[Conn(w)] EXCEPT !.body = @ + n])
       /\ buf' = [buf EXCEPT ![p] = @ - n]
       /\ fds' = Closed(fds, {<<p, "R">>}) /\ Goto(w, "log")
       /\ UNCHANGED <<client_vars, conn_vars, child, zombies, log_lock>>

\* The loop of do_cgi: read and write until there is nothing more and nobody
\* holds the other end.  More than the buffer holds is written past its end.
CgiCopy(w) ==
    LET p == worker[w].pipe_out
        n == Min({buf[p], ReadMax})
        c == Conn(w)
    IN /\ At(w, "copy")
       /\ \/ /\ n > 0
             /\ buf' = [buf EXCEPT ![p] = @ - n]
             /\ answer' = IF c \in Conns THEN [answer EXCEPT ![c].body = @ + n] ELSE answer
             /\ crashed' \in IF n > BufLen \/ c \in left THEN BOOLEAN ELSE {FALSE}
             /\ UNCHANGED <<fds, worker>>
          \/ /\ n = 0 /\ ~Holds(<<p, "W">>)
             /\ fds' = Closed(fds, {<<p, "R">>})
             /\ Goto(w, "log")
             /\ UNCHANGED <<buf, answer, crashed>>
       /\ UNCHANGED <<client_vars, conn_vars, child, zombies, log_lock>>

\* The script (external): reads its input to the end if it does so at all,
\* writes, and ends.
Script(w) ==
    LET k == child[w]
    IN /\ Running(w) /\ ~crashed
       /\ Scripts[k.script].reads => ~Holds(<<k.pipe_in, "W">>)
       /\ \/ /\ k.todo > 0 /\ buf[k.pipe_out] < PipeCap
             /\ buf' = [buf EXCEPT ![k.pipe_out] = @ + 1]
             /\ child' = [child EXCEPT ![w].todo = @ - 1]
             /\ UNCHANGED zombies
          \/ /\ k.todo = 0
             /\ child' = [child EXCEPT ![w] = NoChild]
             /\ zombies' = zombies + 1
             /\ UNCHANGED buf
       /\ UNCHANGED <<client_vars, answer, conn_vars, fds, worker, log_lock, crashed>>

-----------------------------------------------------------------------------
(* The log, and the end of a request.                                        *)

\* log_write_error: the lock is taken only if the log can be opened
log_write_error(w) ==
    /\ At(w, "logerr")
    /\ ~log_lock \/ "log" \in Fails
    /\ Goto(w, worker[w].then)
    /\ UNCHANGED <<client_vars, answer, conn_vars, fds, cgi_vars, log_lock, crashed>>

\* log_write_info: nothing for an unknown host.  The lock is given back only if
\* the log could be opened.
log_write_info(w) ==
    LET r == worker[w].http
    IN /\ At(w, "log")
       /\ \/ r.host = "unknown" /\ UNCHANGED log_lock
          \/ /\ r.host = "known" /\ ~log_lock
             /\ log_lock' \in IF "log" \in Fails THEN BOOLEAN ELSE {FALSE}
       /\ Goto(w, IF r.keep THEN "peek" ELSE "close")
       /\ answer' = [answer EXCEPT ![worker[w].aux] = NoAnswer]
       /\ UNCHANGED <<client_vars, conn_vars, fds, cgi_vars, crashed>>

\* Mutant: no time limit is set before the wait for another request
peek_for_ever(w) ==
    /\ At(w, "peek")
    /\ Readable(worker[w].aux)
    /\ Goto(w, IF inbox[worker[w].aux] # << >> THEN "parse" ELSE "close")
    /\ UNCHANGED <<client_vars, answer, conn_vars, fds, cgi_vars, log_lock, crashed>>

\* keep-alive: wait for the first byte of another request, for five seconds
peek(w) ==
    /\ At(w, "peek")
    /\ LET c == Conn(w)
       IN worker' = [worker EXCEPT ![w].pc = IF c \in Conns /\ inbox[c] # << >> THEN "parse"
                                             ELSE "close",
                                   ![w].again = TRUE]
    /\ UNCHANGED <<client_vars, answer, conn_vars, fds, cgi_vars, log_lock, crashed>>

\* The end of processor_state_routine and of an iteration of processor: close,
\* by number, and free.
close(w) ==
    /\ At(w, "close")
    /\ fds' = [fds EXCEPT ![fd_of[worker[w].aux]] = NoFile]
    /\ heap' = heap \ {worker[w].aux}
    /\ fd_of' = [fd_of EXCEPT ![worker[w].aux] = 0]
    /\ worker' = [worker EXCEPT ![w] = Idle]
    /\ UNCHANGED <<client_vars, answer, listening, epoll, cgi_vars, log_lock, crashed>>

WorkerStep(w) ==
    \/ epoll_wait(w) \/ http_parse(w) \/ ReadContent(w) \/ ReadContentAgain(w)
    \/ processor_inner_routine(w) \/ push404(w) \/ sendfile(w)
    \/ pipe_in(w) \/ pipe_out(w) \/ fork(w) \/ CloseForParent(w)
    \/ wait(w) \/ CgiCopy(w)
    \/ log_write_error(w) \/ log_write_info(w) \/ peek(w) \/ close(w)

Next ==
    \/ \E c \in Conns : (\E r \in Requests : Send(c, r)) \/ Leave(c) \/ Accept(c)
    \/ AcceptFails
    \/ \E w \in Workers : WorkerStep(w) \/ Script(w)

Spec == Init /\ [][Next]_vars

\* Threads of the server and scripts run, and five seconds pass.  Clients need
\* not do anything.
Fairness ==
    /\ \A w \in Workers : WF_vars(WorkerStep(w)) /\ WF_vars(Script(w))
    /\ \A c \in Conns : WF_vars(Accept(c))

FairSpec == Spec /\ Fairness

-----------------------------------------------------------------------------
(* Properties.                                                               *)

\* The variables have the types of the declarations; there is never less than
\* no child to wait for.
TypeOK ==
    /\ accepted \subseteq Conns
    /\ \A c \in Conns : \A i \in DOMAIN inbox[c] : inbox[c][i] \in Requests \cup {Body}
    /\ left \subseteq Conns
    /\ answer \in [Conns -> [status : Nat, length : Int, first : Nat, body : Nat]]
    /\ sends \in 0 .. MaxSends
    /\ listening \in BOOLEAN /\ log_lock \in BOOLEAN /\ crashed \in BOOLEAN
    /\ fds \in [Fds -> Files \cup {NoFile}] /\ fd_of \in [Conns -> 0 .. NumFds]
    /\ heap \subseteq Conns /\ epoll \subseteq Conns
    /\ worker \in [Workers -> [pc : Where, aux : Conns \cup {NoConn},
                               http : Requests \cup {NoRequest, Body},
                               pipe_in : 0 .. NumPipes, pipe_out : 0 .. NumPipes,
                               again : BOOLEAN, then : Where]]
    /\ \A w \in Workers : child[w].files \subseteq Files /\ child[w].todo \in Nat
    /\ zombies \in Nat
    /\ buf \in [Pipes -> 0 .. PipeCap]

\* A worker serves a connection that nobody else serves, its processor_state is
\* allocated, and the descriptor in it is that connection's,
\* although the numbers of closed descriptors are given out again.
ServesOwn ==
    \A w \in Workers : worker[w].pc # "idle" =>
        /\ worker[w].aux \in heap
        /\ Conn(w) = worker[w].aux
        /\ \A v \in Workers \ {w} : worker[v].aux # worker[w].aux

\* Workers, connections and processor_states belong together (processor.c).
WorkersApart == TypeOK /\ ServesOwn

\* the ends of pipes that a worker will still close
PipesOf(w) ==
    CASE worker[w].pc = "pipe_out" -> Ends(worker[w].pipe_in)
      [] worker[w].pc \in {"fork", "parent"} ->
            Ends(worker[w].pipe_in) \cup Ends(worker[w].pipe_out)
      [] worker[w].pc \in {"wait", "copy"} -> {<<worker[w].pipe_out, "R">>}
      [] OTHER -> {}

\* the sockets and pipes that somebody will still close
InUse == heap \cup UNION {PipesOf(w) : w \in Workers}

\* The server has exactly the descriptors open that are in use, each once,
\* whichever of pipe and fork fails: none is lost over any number of requests.
DescriptorsAccounted ==
    /\ Range(fds) \ {NoFile} = InUse
    /\ Cardinality({f \in Fds : fds[f] # NoFile}) = Cardinality(InUse)

\* When a request is done and its answer has a length, that much has been sent;
\* a part of a file is what was asked for of the file without its last byte.
AnswerAsAnnounced ==
    \A w \in Workers : worker[w].pc = "log" =>
        LET a == answer[worker[w].aux]
            r == worker[w].http
        IN /\ a.length # NoLength => a.body = a.length
           /\ a.status = 206 =>
                /\ a.body > 0
                /\ a.first .. (a.first + a.body - 1) =
                     {b \in 0 .. FileSize - 2 : r.range.S <= b /\ b <= r.range.E}

\* An answer made by a script has all of the script's output, no matter whose
\* child wait has returned.
WholeOutput ==
    \A w \in Workers :
        (worker[w].pc = "log" /\ worker[w].http.host = "known" /\ worker[w].http.target = "cgi"
           /\ answer[worker[w].aux].status = 200)
        => answer[worker[w].aux].body = Scripts[worker[w].http.script].units

AwaitsContent(c) == \E w \in Workers : worker[w].pc = "content_again" /\ worker[w].aux = c

\* Once something has come in on an accepted connection, or its client is gone,
\* the client will see its end: every worker gets through, and no script keeps a
\* copy of the socket.  Left out are requests with content, see
\* EveryConnectionEnds, and the end of the server.
ConnectionsEnd ==
    \A c \in Conns : (c \in accepted /\ Readable(c))
                        ~> (~Holds(c) \/ AwaitsContent(c) \/ crashed)

(* Statements that the code does not meet. *)

\* A connection ends also if a request on it has content.
EveryConnectionEnds ==
    \A c \in Conns : (c \in accepted /\ Readable(c)) ~> (~Holds(c) \/ crashed)

\* The server never ends (config.h: it "does not support shutdown").
NeverEnds == ~crashed

\* A client whose tag is the file's is told that it has the file.
CachedIsNotModified ==
    \A w \in Workers :
        (worker[w].pc = "log" /\ worker[w].http.host = "known"
           /\ worker[w].http.target = "file" /\ worker[w].http.match)
        => answer[worker[w].aux].status = 304
=============================================================================
