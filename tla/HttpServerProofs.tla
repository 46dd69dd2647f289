-------------------------- MODULE HttpServerProofs --------------------------
(***************************************************************************)
(* Proofs about the HTTP server, for every number of workers, connections, *)
(* descriptors and pipes, for all requests and whichever calls fail: each  *)
(* connection is served by one worker, no descriptor is lost or closed     *)
(* twice, an answer has the length it announces, and that of a script has  *)
(* all of its output.                                                      *)
(*                                                                         *)
(* The argument is that a processor_state has one owner at a time: the     *)
(* epoll set, or the worker that epoll_wait has given it to (Serving).  So *)
(* nobody but its worker closes the descriptor of a connection or writes   *)
(* to it, and a number is given out again only when nobody uses it any     *)
(* more (Table).                                                           *)
(***************************************************************************)
EXTENDS HttpServer, FiniteSetTheorems, TLAPS

RequestRec == Requests \cup {NoRequest, Body}
WorkerRec == [pc : Where, aux : Conns \cup {NoConn}, http : RequestRec,
              pipe_in : 0 .. NumPipes, pipe_out : 0 .. NumPipes,
              again : BOOLEAN, then : Where]
AnswerRec == [status : Nat, length : Int, first : Nat, body : Nat]
ChildRec == [files : SUBSET Files, pipe_in : 0 .. NumPipes, pipe_out : 0 .. NumPipes,
             script : DOMAIN Scripts \cup {"none"}, todo : Nat]

\* Where a worker has parsed a request and is not done with it.
RequestPCs == {"content", "content_again", "inner", "push404", "sendfile", "pipe_in",
               "pipe_out", "fork", "parent", "wait", "copy", "logerr", "log"}

PipePCs == {"pipe_out", "fork", "parent", "wait", "copy"}

\* The types of the variables, in parts; where a worker answers, it has a request.
ListenerTyped ==
  /\ accepted \subseteq Conns /\ heap \subseteq Conns /\ epoll \subseteq Conns
  /\ listening \in BOOLEAN
  /\ fd_of \in [Conns -> 0 .. NumFds] /\ fds \in [Fds -> Files \cup {NoFile}]

ClientsTyped ==
  /\ left \subseteq Conns /\ sends \in 0 .. MaxSends
  /\ inbox \in [Conns -> Seq(Requests \cup {Body})]

AnswersTyped ==
  /\ answer \in [Conns -> AnswerRec]
  /\ log_lock \in BOOLEAN /\ crashed \in BOOLEAN

WorkersTyped ==
  /\ worker \in [Workers -> WorkerRec]
  /\ \A w \in Workers : worker[w].pc \in RequestPCs => worker[w].http \in Requests

ScriptsTyped ==
  /\ child \in [Workers -> ChildRec] /\ zombies \in Nat
  /\ buf \in [Pipes -> 0 .. PipeCap]

Typed == ListenerTyped /\ ClientsTyped /\ AnswersTyped /\ WorkersTyped /\ ScriptsTyped

\* The owner of a processor_state is the epoll set or one worker
\* (processor_add, epoll_wait with EPOLLONESHOT).
Serving ==
  /\ heap \subseteq accepted /\ epoll \subseteq heap
  /\ \A w \in Workers :
        /\ worker[w].pc = "idle" => worker[w].aux = NoConn
        /\ worker[w].pc # "idle" => worker[w].aux \in heap \ epoll
  /\ \A v, w \in Workers : worker[v].aux = worker[w].aux /\ worker[w].aux # NoConn => v = w

\* Every open file has one number, that of a connection is in its
\* processor_state, and the files are those in use.
Numbered == \A c \in heap : fd_of[c] \in Fds /\ fds[fd_of[c]] = c
OpenOnce(t) == \A f, g \in Fds : t[f] = t[g] /\ t[f] # NoFile => f = g
OpenFiles(t) == {t[f] : f \in Fds} \ {NoFile}

\* The pipes of a worker are its own.
PipeOwner(w) ==
  /\ worker[w].pc \in {"pipe_out", "fork", "parent"} => worker[w].pipe_in \in Pipes
  /\ worker[w].pc \in {"fork", "parent", "wait", "copy"} => worker[w].pipe_out \in Pipes
  /\ worker[w].pc \in {"fork", "parent"} => worker[w].pipe_in # worker[w].pipe_out

PipesApart == \A v, w \in Workers : v # w => PipesOf(v) \cap PipesOf(w) = {}

Table ==
  /\ Numbered /\ OpenOnce(fds) /\ OpenFiles(fds) = InUse
  /\ PipesApart /\ \A w \in Workers : PipeOwner(w)

\* What an answer has to be when its request is done.
Announced(a, r) ==
  /\ a.length # NoLength => a.body = a.length
  /\ a.status = 206 =>
       /\ a.body > 0
       /\ a.first .. (a.first + a.body - 1) =
            {b \in 0 .. FileSize - 2 : r.range.S <= b /\ b <= r.range.E}

\* How far the answer of a request has come.
Answering(w) ==
  LET a == answer[worker[w].aux] IN
  /\ worker[w].pc = "log" => Announced(a, worker[w].http)
  /\ worker[w].pc = "logerr" =>
       \/ worker[w].then = "push404"
       \/ worker[w].then = "log" /\ Announced(a, worker[w].http)
  /\ worker[w].pc = "copy" => a.status # 206 /\ a.length = NoLength

Answers == \A w \in Workers : Answering(w)

IInv == Typed /\ Serving /\ Table /\ Answers

-----------------------------------------------------------------------------
\* Lemmas on the operators of the model.

\* Every set of natural numbers that is not empty has a least element.
LEMMA LeastNumber ==
  ASSUME NEW S \in SUBSET Nat, S # {}
  PROVE  Min(S) \in S
<1>1. PICK x \in S : \A y \in S : ~ (<<y, x>> \in OpToRel(<, Nat))
  BY NatLessThanWellFounded, WFMin
<1>2. ASSUME NEW y \in S, y < x PROVE FALSE
  <2>1. <<y, x>> \in {ss \in Nat \X Nat : ss[1] < ss[2]}
    BY <1>2
  <2>. QED BY <1>1, <2>1 DEF OpToRel
<1>3. \A y \in S : x =< y
  BY <1>2
<1>. QED BY <1>3 DEF Min

\* The smaller and the larger of two numbers.
LEMMA SmallerOne ==
  ASSUME NEW a \in Int, NEW b \in Int
  PROVE  Min({a, b}) \in {a, b} /\ Min({a, b}) <= a /\ Min({a, b}) <= b
<1>1. \E x \in {a, b} : \A y \in {a, b} : x =< y
  OBVIOUS
<1>. QED BY <1>1 DEF Min

LEMMA LargerOne ==
  ASSUME NEW a \in Int, NEW b \in Int
  PROVE  Max({a, b}) \in {a, b} /\ Max({a, b}) >= a /\ Max({a, b}) >= b
<1>1. \E x \in {a, b} : \A y \in {a, b} : x >= y
  OBVIOUS
<1>. QED BY <1>1 DEF Max

FreeNumber(t) == \E f \in Fds : t[f] = NoFile

\* A file gets the lowest free number, and what is open stays where it is
\* (accept, pipe).
LEMMA OpenedTable ==
  ASSUME NEW t \in [Fds -> Files \cup {NoFile}], OpenOnce(t), NEW x \in Files,
         x \notin OpenFiles(t), FreeNumber(t)
  PROVE  /\ Opened(t, x) \in [Fds -> Files \cup {NoFile}] /\ OpenOnce(Opened(t, x))
         /\ OpenFiles(Opened(t, x)) = OpenFiles(t) \cup {x}
         /\ \A f \in Fds : t[f] # NoFile => Opened(t, x)[f] = t[f]
         /\ \E n \in Fds : n = Min({f \in Fds : t[f] = NoFile}) /\ Opened(t, x)[n] = x
<1>. DEFINE n == Min({f \in Fds : t[f] = NoFile})
            u == Opened(t, x)
<1>1. n \in Fds /\ t[n] = NoFile
  <2>1. {f \in Fds : t[f] = NoFile} \in SUBSET Nat BY DEF Fds
  <2>2. {f \in Fds : t[f] = NoFile} # {} BY DEF FreeNumber
  <2>3. n \in {f \in Fds : t[f] = NoFile} BY <2>1, <2>2, LeastNumber
  <2>. QED BY <2>3
<1>2. u = [t EXCEPT ![n] = x]
  BY DEF Opened
<1>. HIDE DEF n, u
<1>3. u \in [Fds -> Files \cup {NoFile}] /\ u[n] = x /\ \A f \in Fds \ {n} : u[f] = t[f]
  BY <1>1, <1>2
<1>4. x # NoFile
  BY HttpAssumption
<1>5. OpenOnce(u)
  BY <1>1, <1>3 DEF OpenOnce, OpenFiles
<1>6. OpenFiles(u) = OpenFiles(t) \cup {x}
  BY <1>1, <1>3, <1>4 DEF OpenFiles
<1>. QED BY <1>1, <1>3, <1>5, <1>6 DEF n, u

\* What is closed is open no longer, and the rest stays where it is (close).
LEMMA ClosedTable ==
  ASSUME NEW t \in [Fds -> Files \cup {NoFile}], OpenOnce(t), NEW E
  PROVE  /\ Closed(t, E) \in [Fds -> Files \cup {NoFile}] /\ OpenOnce(Closed(t, E))
         /\ OpenFiles(Closed(t, E)) = OpenFiles(t) \ E
         /\ \A f \in Fds : t[f] \notin E => Closed(t, E)[f] = t[f]
<1>. DEFINE u == Closed(t, E)
<1>1. /\ u \in [Fds -> Files \cup {NoFile}]
      /\ \A f \in Fds : u[f] = IF t[f] \in E THEN NoFile ELSE t[f]
  BY DEF Closed
<1>. HIDE DEF u
<1>2. OpenOnce(u)
  BY <1>1 DEF OpenOnce
<1>3. OpenFiles(u) = OpenFiles(t) \ E
  BY <1>1 DEF OpenFiles
<1>. QED BY <1>1, <1>2, <1>3 DEF u

\* Holds, for a table that has its type.
LEMMA HeldFiles ==
  ASSUME fds \in [Fds -> Files \cup {NoFile}], NEW x
  PROVE  x \in OpenFiles(fds) => Holds(x)
BY DEF OpenFiles, Holds, Range

\* The files in use are counted by the numbers they have.
LEMMA CountedOnce ==
  ASSUME NEW t \in [Fds -> Files \cup {NoFile}], OpenOnce(t)
  PROVE  Cardinality({f \in Fds : t[f] # NoFile}) = Cardinality(OpenFiles(t))
<1>. DEFINE S == {f \in Fds : t[f] # NoFile}
            b == [f \in S |-> t[f]]
<1>1. IsFiniteSet(S)
  <2>1. IsFiniteSet(Fds) BY HttpAssumption, FS_Interval DEF Fds
  <2>. QED BY <2>1, FS_Subset
<1>2. b \in Bijection(S, OpenFiles(t))
  <2>1. b \in [S -> OpenFiles(t)]
    BY DEF OpenFiles
  <2>2. \A f, g \in S : b[f] = b[g] => f = g
    BY DEF OpenOnce
  <2>3. \A x \in OpenFiles(t) : \E f \in S : b[f] = x
    BY DEF OpenFiles
  <2>. QED BY <2>1, <2>2, <2>3 DEF Bijection, Injection, Surjection, IsInjective
<1>3. ExistsBijection(S, OpenFiles(t))
  BY <1>2 DEF ExistsBijection
<1>. QED BY <1>1, <1>3, FS_Bijection

\* The part of a file that is sent: what is asked for, of the file without its
\* last byte (send_file_gio).
LEMMA PartOfFile ==
  ASSUME NEW r \in Requests
  PROVE  /\ FilePart(r).s \in Nat /\ FilePart(r).e \in Int
         /\ FilePart(r).status \in {200, 206, 416}
         /\ FilePart(r).status # 416 =>
              FilePart(r).s <= FilePart(r).e /\ FilePart(r).e <= FileSize - 2
         /\ FilePart(r).status = 206 =>
              FilePart(r).s .. FilePart(r).e =
                {b \in 0 .. FileSize - 2 : r.range.S <= b /\ b <= r.range.E}
<1>. DEFINE p == FilePart(r)
            full == FileSize - 1
            ranged == r.range # NoRange
            E == IF ranged THEN r.range.E ELSE full - 1
            length == IF r.match THEN 0 ELSE full
<1>1. r.range.S \in Int /\ r.range.E \in Int /\ FileSize \in Nat \ {0}
  BY HttpAssumption DEF RequestType
<1>2. full \in Nat /\ E \in Int /\ full - 1 \in Int /\ length \in {0, full}
  BY <1>1
<1>3. p.s = (IF ranged THEN Max({r.range.S, 0}) ELSE 0) /\ p.e = Min({E, full - 1})
  BY DEF FilePart
<1>4. p.s \in Nat /\ (ranged => p.s \in {r.range.S, 0} /\ p.s >= r.range.S)
  <2>1. /\ Max({r.range.S, 0}) \in {r.range.S, 0}
        /\ Max({r.range.S, 0}) >= r.range.S /\ Max({r.range.S, 0}) >= 0
    BY <1>1, LargerOne, 0 \in Int
  <2>. QED BY <1>1, <1>3, <2>1
<1>5. p.e \in {E, full - 1} /\ p.e <= E /\ p.e <= full - 1
  BY <1>2, <1>3, SmallerOne
<1>6. p.status = IF p.s >= length \/ p.e < 0 \/ p.s > p.e THEN 416
                 ELSE IF r.match THEN 304 ELSE IF ranged THEN 206 ELSE 200
  BY DEF FilePart
<1>. HIDE DEF p, full, ranged, E, length
<1>7. p.e \in Int
  BY <1>2, <1>5
<1>8. p.status \in {200, 206, 416} /\ (p.status # 416 => p.s <= p.e /\ p.e <= FileSize - 2)
  BY <1>1, <1>2, <1>4, <1>5, <1>6, <1>7 DEF length, full
<1>9. ASSUME p.status = 206
      PROVE  p.s .. p.e = {b \in 0 .. FileSize - 2 : r.range.S <= b /\ b <= r.range.E}
  <2>1. ranged /\ E = r.range.E
    BY <1>6, <1>9 DEF E
  <2>2. full - 1 = FileSize - 2
    BY <1>1 DEF full
  <2>3. \A b \in Int : p.s <= b <=> 0 <= b /\ r.range.S <= b
    BY <1>1, <1>4, <2>1
  <2>4. \A b \in Int : b <= p.e <=> b <= FileSize - 2 /\ b <= r.range.E
    BY <1>1, <1>2, <1>5, <1>7, <2>1, <2>2
  <2>. QED BY <1>1, <1>4, <1>7, <2>3, <2>4
<1>. QED BY <1>4, <1>7, <1>8, <1>9 DEF p

\* The header of a part of a file is an answer, and it is followed by as much as
\* it announces, if it announces a length.
LEMMA HeaderOfFile ==
  ASSUME NEW r \in Requests
  PROVE  /\ FileHeader(r) \in AnswerRec
         /\ FilePart(r).s \in Nat /\ FilePart(r).e \in Int /\ FilePart(r).status \in {200, 206, 416}
         /\ Sendable(FilePart(r).s, FilePart(r).e) \in Nat
         /\ Announced([FileHeader(r) EXCEPT !.body = Sendable(FilePart(r).s, FilePart(r).e)], r)
<1>. DEFINE s == FilePart(r).s
            e == FilePart(r).e
            z == FilePart(r).status
            n == Sendable(s, e)
<1>1. /\ s \in Nat /\ e \in Int /\ z \in {200, 206, 416} /\ FileSize \in Nat \ {0}
      /\ z # 416 => s <= e /\ e <= FileSize - 2
      /\ z = 206 => s .. e = {b \in 0 .. FileSize - 2 : r.range.S <= b /\ b <= r.range.E}
  BY PartOfFile, HttpAssumption
<1>2. FileHeader(r) = [status |-> z, length |-> IF z = 416 THEN NoLength ELSE e - s + 1,
                       first |-> s, body |-> 0]
  BY DEF FileHeader
<1>3. n = IF e - s + 1 < 0 THEN Max({FileSize - s, 0})
          ELSE Min({e - s + 1, Max({FileSize - s, 0})})
  BY DEF Sendable
<1>. HIDE DEF s, e, z, n
<1>4. Max({FileSize - s, 0}) \in Nat /\ Max({FileSize - s, 0}) >= FileSize - s
  <2>1. FileSize - s \in Int BY <1>1
  <2>2. /\ Max({FileSize - s, 0}) \in {FileSize - s, 0}
        /\ Max({FileSize - s, 0}) >= FileSize - s /\ Max({FileSize - s, 0}) >= 0
    BY <2>1, LargerOne
  <2>. QED BY <2>1, <2>2
<1>5. PICK m \in Nat : m = Max({FileSize - s, 0}) /\ m >= FileSize - s
  BY <1>4
<1>6. e - s + 1 \in Int /\ m \in Int
  BY <1>1, <1>5
<1>7. /\ Min({e - s + 1, m}) \in {e - s + 1, m}
      /\ Min({e - s + 1, m}) <= e - s + 1 /\ Min({e - s + 1, m}) <= m
  BY <1>6, SmallerOne
<1>8. n \in Nat /\ (z # 416 => n = e - s + 1)
  BY <1>1, <1>3, <1>5, <1>6, <1>7
<1>9. FileHeader(r) \in AnswerRec
  BY <1>1, <1>2, <1>6 DEF AnswerRec, NoLength
<1>10. Announced([FileHeader(r) EXCEPT !.body = n], r)
  <2>1. PICK a : a = [FileHeader(r) EXCEPT !.body = n]
    OBVIOUS
  <2>2. /\ a.status = z /\ a.first = s /\ a.body = n
        /\ a.length = IF z = 416 THEN NoLength ELSE e - s + 1
    BY <1>2, <2>1
  <2>3. z = 206 => s + n - 1 = e /\ n > 0
    BY <1>1, <1>8
  <2>4. Announced(a, r)
    BY <1>1, <1>8, <2>2, <2>3 DEF Announced
  <2>. QED BY <2>1, <2>4
<1>. QED BY <1>1, <1>8, <1>9, <1>10 DEF s, e, z, n

\* With two free numbers, one is left after a file has been opened (pipe).
LEMMA SecondFree ==
  ASSUME NEW t \in [Fds -> Files \cup {NoFile}], NEW x, NEW f \in Fds, NEW g \in Fds, f # g,
         t[f] = NoFile, t[g] = NoFile
  PROVE  Opened(t, x)[f] = NoFile \/ Opened(t, x)[g] = NoFile
BY DEF Opened

\* What is sent is added to what has arrived.
LEMMA ConcatTyped ==
  ASSUME NEW S, NEW s \in Seq(S), NEW t \in Seq(S)
  PROVE  s \o t \in Seq(S)
OBVIOUS

\* The record of a worker that serves nobody.
LEMMA IdleTyped == Idle \in WorkerRec
<1>1. /\ "idle" \in Where /\ "log" \in Where /\ NoConn \in Conns \cup {NoConn}
      /\ NoRequest \in RequestRec /\ 0 \in 0 .. NumPipes /\ FALSE \in BOOLEAN
  BY HttpAssumption DEF Where, RequestRec
<1>. QED BY <1>1, Zenon DEF Idle, WorkerRec
-----------------------------------------------------------------------------
\* Lemmas on the steps of a worker.

\* Worker w goes on as q, and nobody else's record changes.
Becomes(w, q) ==
  /\ worker' \in [Workers -> WorkerRec] /\ worker'[w] = q
  /\ \A v \in Workers \ {w} : worker'[v] = worker[v]

\* A step of one worker leaves the records of the others.
LEMMA BecomesIt ==
  ASSUME WorkersTyped, NEW w \in Workers, NEW q \in WorkerRec,
         worker' = [worker EXCEPT ![w] = q]
  PROVE  Becomes(w, q)
BY DEF WorkersTyped, Becomes

\* The records that a worker goes on with are typed (the assignments of one step).
LEMMA RecordsTyped ==
  ASSUME NEW o \in WorkerRec, NEW l \in Where
  PROVE  /\ [o EXCEPT !.pc = l] \in WorkerRec
         /\ \A h \in RequestRec : [o EXCEPT !.http = h, !.pc = l] \in WorkerRec
         /\ \A t \in Where : [o EXCEPT !.pc = l, !.then = t] \in WorkerRec
         /\ \A p \in 0 .. NumPipes : [o EXCEPT !.pc = l, !.pipe_in = p] \in WorkerRec
         /\ \A p \in 0 .. NumPipes : [o EXCEPT !.pc = l, !.pipe_out = p] \in WorkerRec
         /\ [o EXCEPT !.pc = l, !.again = TRUE] \in WorkerRec
BY Zenon DEF WorkerRec

\* A step that only moves the worker's place in the code.
LEMMA GotoStep ==
  ASSUME WorkersTyped, NEW w \in Workers, NEW l \in Where, Goto(w, l)
  PROVE  /\ Becomes(w, [worker[w] EXCEPT !.pc = l])
         /\ worker'[w].pc = l /\ worker'[w].aux = worker[w].aux
         /\ worker'[w].http = worker[w].http /\ worker'[w].then = worker[w].then
         /\ worker'[w].pipe_in = worker[w].pipe_in /\ worker'[w].pipe_out = worker[w].pipe_out
<1>1. worker[w] \in WorkerRec
  BY DEF WorkersTyped
<1>2. [worker[w] EXCEPT !.pc = l] \in WorkerRec
  BY <1>1, RecordsTyped
<1>3. worker' = [worker EXCEPT ![w] = [worker[w] EXCEPT !.pc = l]]
  BY DEF Goto
<1>4. Becomes(w, [worker[w] EXCEPT !.pc = l])
  BY <1>2, <1>3, BecomesIt
<1>5. worker'[w] = [worker[w] EXCEPT !.pc = l]
  BY <1>4 DEF Becomes
<1>. QED BY <1>1, <1>4, <1>5 DEF WorkerRec

\* A worker that is not idle has the connection of its processor_state, open.
LEMMA OwnConn ==
  ASSUME Typed, Serving, Table, NEW w \in Workers, worker[w].pc # "idle"
  PROVE  /\ worker[w].aux \in Conns /\ worker[w].aux \in heap \ epoll
         /\ Conn(w) = worker[w].aux
         /\ fd_of[worker[w].aux] \in Fds /\ fds[fd_of[worker[w].aux]] = worker[w].aux
<1>1. worker[w].aux \in heap \ epoll /\ heap \subseteq Conns
  BY DEF Serving, Typed, ListenerTyped
<1>2. fd_of[worker[w].aux] \in Fds /\ fds[fd_of[worker[w].aux]] = worker[w].aux
  BY <1>1 DEF Table, Numbered
<1>3. fd_of[worker[w].aux] # 0
  BY <1>2 DEF Fds
<1>. QED BY <1>1, <1>2, <1>3 DEF Conn

\* The pipes of a worker are no connections.
LEMMA PipesTyped ==
  ASSUME NEW w \in Workers, PipeOwner(w)
  PROVE  PipesOf(w) \subseteq Pipes \X {"R", "W"} /\ PipesOf(w) \cap Conns = {}
<1>1. PipesOf(w) \subseteq Pipes \X {"R", "W"}
  BY DEF PipesOf, PipeOwner, Ends
<1>. QED BY <1>1, HttpAssumption

\* Outside of do_cgi a worker has no pipes.
LEMMA NoPipes ==
  ASSUME NEW w \in Workers
  PROVE  /\ worker[w].pc \notin PipePCs => PipesOf(w) = {} /\ PipeOwner(w)
         /\ worker'[w].pc \notin PipePCs => PipesOf(w)' = {} /\ PipeOwner(w)'
BY DEF PipePCs, PipesOf, PipeOwner

\* The pipes of a worker whose record does not change.
LEMMA SamePipes ==
  ASSUME NEW v \in Workers, worker'[v] = worker[v]
  PROVE  PipesOf(v)' = PipesOf(v) /\ PipeOwner(v)' = PipeOwner(v)
BY DEF PipesOf, PipeOwner

\* A worker that goes on with its processor_state is still the only one that
\* serves it.
LEMMA GoesOn ==
  ASSUME Typed, Serving, NEW w \in Workers, NEW q, Becomes(w, q),
         worker[w].pc # "idle", q.pc # "idle", q.aux = worker[w].aux,
         UNCHANGED <<accepted, heap, epoll>>
  PROVE  Serving'
<1>1. /\ heap' = heap /\ epoll' = epoll /\ accepted' = accepted
      /\ \A v \in Workers : worker'[v].aux = worker[v].aux
      /\ \A v \in Workers \ {w} : worker'[v] = worker[v]
      /\ worker'[w].pc # "idle"
  BY DEF Becomes
<1>2. heap' \subseteq accepted' /\ epoll' \subseteq heap'
  BY <1>1 DEF Serving
<1>3. \A v \in Workers :
        /\ worker'[v].pc = "idle" => worker'[v].aux = NoConn
        /\ worker'[v].pc # "idle" => worker'[v].aux \in heap' \ epoll'
  BY <1>1 DEF Serving
<1>4. \A u, v \in Workers : worker'[u].aux = worker'[v].aux /\ worker'[v].aux # NoConn => u = v
  BY <1>1 DEF Serving
<1>. QED BY <1>2, <1>3, <1>4 DEF Serving

\* The answers of the other workers stay as they are.
LEMMA AnswersKept ==
  ASSUME Serving, Answers, NEW w \in Workers, worker[w].pc # "idle",
         \A v \in Workers \ {w} : worker'[v] = worker[v],
         \A c \in Conns \ {worker[w].aux} : answer'[c] = answer[c],
         heap \subseteq Conns, Answering(w)'
  PROVE  Answers'
<1>1. ASSUME NEW v \in Workers \ {w} PROVE Answering(v)'
  <2>1. CASE worker[v].pc = "idle"
    <3>1. worker'[v].pc = "idle"
      BY <2>1
    <3>. QED BY <3>1 DEF Answering
  <2>2. CASE worker[v].pc # "idle"
    <3>1. worker[v].aux \in Conns /\ worker[v].aux # worker[w].aux
      <4>1. worker[v].aux \in heap /\ worker[w].aux \in heap
        BY <2>2 DEF Serving
      <4>2. worker[v].aux # NoConn
        BY <4>1, HttpAssumption
      <4>. QED BY <4>1, <4>2 DEF Serving
    <3>2. worker'[v] = worker[v] /\ answer'[worker[v].aux] = answer[worker[v].aux]
      BY <3>1
    <3>3. Answering(v)
      BY DEF Answers
    <3>. QED BY <3>2, <3>3 DEF Answering
  <2>. QED BY <2>1, <2>2
<1>. QED BY <1>1 DEF Answers

\* Where there is nothing to say of an answer.
LEMMA Quiet ==
  ASSUME NEW w \in Workers, worker'[w].pc \notin {"log", "logerr", "copy"}
  PROVE  Answering(w)'
BY DEF Answering

\* A step that closes some of the worker's own pipes, or nothing.
LEMMA Closes ==
  ASSUME Typed, Table, NEW w \in Workers,
         \A v \in Workers \ {w} : worker'[v] = worker[v],
         UNCHANGED <<heap, fd_of>>, NEW E \in SUBSET PipesOf(w), fds' = Closed(fds, E),
         PipesOf(w)' = PipesOf(w) \ E, PipeOwner(w)'
  PROVE  Table' /\ fds' \in [Fds -> Files \cup {NoFile}]
<1>1. \A v \in Workers \ {w} : PipesOf(v)' = PipesOf(v) /\ PipeOwner(v)' = PipeOwner(v)
  BY SamePipes
<1>2. E \cap Conns = {}
  BY PipesTyped DEF Table
<1>3. fds \in [Fds -> Files \cup {NoFile}] /\ OpenOnce(fds) /\ heap \subseteq Conns
  BY DEF Typed, ListenerTyped, Table
<1>4. /\ fds' \in [Fds -> Files \cup {NoFile}] /\ OpenOnce(fds')
      /\ OpenFiles(fds') = OpenFiles(fds) \ E
      /\ \A f \in Fds : fds[f] \notin E => fds'[f] = fds[f]
  BY <1>3, ClosedTable
<1>5. Numbered'
  BY <1>2, <1>3, <1>4 DEF Table, Numbered
<1>6. PipesApart'
  BY <1>1 DEF Table, PipesApart
<1>7. \A v \in Workers : PipeOwner(v)'
  BY <1>1 DEF Table
<1>8. InUse' = InUse \ E
  <2>1. \A v \in Workers \ {w} : PipesOf(v) \cap E = {}
    BY DEF Table, PipesApart
  <2>2. heap \cap E = {}
    BY <1>2, <1>3
  <2>3. UNION {PipesOf(v)' : v \in Workers} = (UNION {PipesOf(v) : v \in Workers}) \ E
    BY <1>1, <2>1
  <2>. QED BY <2>2, <2>3 DEF InUse
<1>9. OpenFiles(fds') = InUse'
  BY <1>4, <1>8 DEF Table
<1>. QED BY <1>4, <1>5, <1>6, <1>7, <1>9 DEF Table

\* A step that neither opens nor closes anything.
LEMMA Steady ==
  ASSUME Typed, Table, NEW w \in Workers,
         \A v \in Workers \ {w} : worker'[v] = worker[v],
         UNCHANGED <<heap, fd_of, fds>>, PipesOf(w)' = PipesOf(w), PipeOwner(w)'
  PROVE  Table'
<1>1. \A v \in Workers : PipesOf(v)' = PipesOf(v) /\ PipeOwner(v)'
  BY SamePipes DEF Table
<1>2. InUse' = InUse /\ PipesApart'
  BY <1>1 DEF InUse, PipesApart, Table
<1>. QED BY <1>1, <1>2 DEF Table, Numbered

\* A step in which no worker moves and nothing is opened, closed or written.
LEMMA Unmoved ==
  ASSUME IInv, UNCHANGED <<accepted, answer, heap, fd_of, epoll, fds, worker>>
  PROVE  Serving' /\ Table' /\ Answers' /\ WorkersTyped'
<1>1. \A v \in Workers : PipesOf(v)' = PipesOf(v) /\ PipeOwner(v)' = PipeOwner(v)
  BY SamePipes
<1>2. InUse' = InUse /\ PipesApart' = PipesApart
  BY <1>1 DEF InUse, PipesApart
<1>3. Table'
  BY <1>1, <1>2 DEF IInv, Table, Numbered
<1>4. Serving'
  BY DEF IInv, Serving
<1>5. Answers'
  BY DEF IInv, Answers, Answering
<1>6. WorkersTyped'
  BY DEF IInv, Typed, WorkersTyped
<1>. QED BY <1>3, <1>4, <1>5, <1>6

\* A write to the connection of the worker changes the answer on no other.
LEMMA WriteStep ==
  ASSUME IInv, NEW w \in Workers, worker[w].pc # "idle", NEW a \in AnswerRec, Write(w, a)
  PROVE  /\ answer' \in [Conns -> AnswerRec] /\ answer'[worker[w].aux] = a
         /\ \A c \in Conns \ {worker[w].aux} : answer'[c] = answer[c]
         /\ crashed' \in BOOLEAN
<1>1. Conn(w) = worker[w].aux /\ worker[w].aux \in Conns
  BY OwnConn DEF IInv
<1>2. answer' = [answer EXCEPT ![worker[w].aux] = a] /\ crashed' \in BOOLEAN
  BY <1>1 DEF Write
<1>3. answer \in [Conns -> AnswerRec]
  BY DEF IInv, Typed, AnswersTyped
<1>. QED BY <1>1, <1>2, <1>3

\* The answers that are written are typed and as long as they announce.
LEMMA WholeAnswers ==
  /\ Page404 \in AnswerRec /\ [NoAnswer EXCEPT !.status = 200] \in AnswerRec
  /\ NoAnswer \in AnswerRec
  /\ \A r \in Requests : /\ DirAnswer(r) \in AnswerRec /\ Announced(Page404, r)
                         /\ Announced(DirAnswer(r), r)
BY DEF Page404, DirAnswer, DirLength, Whole, NoAnswer, NoLength, AnswerRec, Announced

\* pipe() gives a pipe that nobody uses.
LEMMA NewPipeUnused ==
  ASSUME Typed, Table, PipeFits
  PROVE  /\ NewPipe \in Pipes /\ ~Holds(<<NewPipe, "R">>) /\ ~Holds(<<NewPipe, "W">>)
         /\ InUse \cap Ends(NewPipe) = {}
<1>1. NewPipe \in FreePipes
  <2>1. FreePipes \in SUBSET Nat BY DEF FreePipes, Pipes
  <2>. QED BY <2>1, LeastNumber DEF PipeFits, NewPipe
<1>2. NewPipe \in Pipes /\ ~Holds(<<NewPipe, "R">>) /\ ~Holds(<<NewPipe, "W">>)
  BY <1>1 DEF FreePipes, Ends
<1>3. <<NewPipe, "R">> \notin OpenFiles(fds) /\ <<NewPipe, "W">> \notin OpenFiles(fds)
  BY <1>2, HeldFiles DEF Typed, ListenerTyped
<1>. QED BY <1>2, <1>3 DEF Table, Ends

\* A step that makes a new pipe for the worker.
LEMMA Opens ==
  ASSUME Typed, Table, PipeFits, NEW w \in Workers,
         \A v \in Workers \ {w} : worker'[v] = worker[v],
         UNCHANGED <<heap, fd_of>>,
         fds' = Opened(Opened(fds, <<NewPipe, "R">>), <<NewPipe, "W">>),
         PipesOf(w)' = PipesOf(w) \cup Ends(NewPipe), PipeOwner(w)'
  PROVE  Table' /\ fds' \in [Fds -> Files \cup {NoFile}]
<1>1. \A v \in Workers \ {w} : PipesOf(v)' = PipesOf(v) /\ PipeOwner(v)' = PipeOwner(v)
  BY SamePipes
<1>2. NewPipe \in Pipes /\ InUse \cap Ends(NewPipe) = {}
  BY NewPipeUnused
<1>3. /\ fds \in [Fds -> Files \cup {NoFile}] /\ OpenOnce(fds) /\ heap \subseteq Conns
      /\ OpenFiles(fds) = InUse
  BY DEF Typed, ListenerTyped, Table
<1>4. PICK x, y : x = <<NewPipe, "R">> /\ y = <<NewPipe, "W">>
  OBVIOUS
<1>5. /\ x \in Files /\ x \notin OpenFiles(fds) /\ y \in Files /\ y \notin OpenFiles(fds)
      /\ x # y /\ Ends(NewPipe) = {x, y}
  BY <1>2, <1>3, <1>4 DEF Files, Ends
<1>6. PICK f \in Fds, g \in Fds : f # g /\ fds[f] = NoFile /\ fds[g] = NoFile
  BY DEF PipeFits
<1>. DEFINE t == Opened(fds, x)
<1>7. FreeNumber(fds)
  BY <1>6 DEF FreeNumber
<1>8. /\ t \in [Fds -> Files \cup {NoFile}] /\ OpenOnce(t)
      /\ OpenFiles(t) = OpenFiles(fds) \cup {x}
      /\ \A h \in Fds : fds[h] # NoFile => t[h] = fds[h]
  BY <1>3, <1>5, <1>7, OpenedTable
<1>9. /\ t[f] = NoFile \/ t[g] = NoFile
      /\ fds' = Opened(t, y)
  BY <1>3, <1>4, <1>6, SecondFree
<1>. HIDE DEF t
<1>10. /\ fds' \in [Fds -> Files \cup {NoFile}] /\ OpenOnce(fds')
      /\ OpenFiles(fds') = OpenFiles(t) \cup {y}
      /\ \A h \in Fds : t[h] # NoFile => fds'[h] = t[h]
  <2>1. y \notin OpenFiles(t)
    BY <1>5, <1>8
  <2>2. FreeNumber(t)
    BY <1>9 DEF FreeNumber
  <2>3. t \in [Fds -> Files \cup {NoFile}] /\ OpenOnce(t) /\ y \in Files
    BY <1>5, <1>8
  <2>4. /\ Opened(t, y) \in [Fds -> Files \cup {NoFile}] /\ OpenOnce(Opened(t, y))
        /\ OpenFiles(Opened(t, y)) = OpenFiles(t) \cup {y}
        /\ \A h \in Fds : t[h] # NoFile => Opened(t, y)[h] = t[h]
    BY <2>1, <2>2, <2>3, OpenedTable
  <2>. QED BY <1>9, <2>4
<1>11. Numbered'
  <2>1. \A c \in heap : fd_of[c] \in Fds /\ fds[fd_of[c]] = c /\ c # NoFile
    BY <1>3, HttpAssumption DEF Table, Numbered, Files
  <2>. QED BY <2>1, <1>8, <1>10 DEF Numbered
<1>12. PipesApart'
  <2>1. \A v \in Workers \ {w} : PipesOf(v) \cap Ends(NewPipe) = {}
    BY <1>2 DEF InUse
  <2>. QED BY <1>1, <2>1 DEF Table, PipesApart
<1>13. \A v \in Workers : PipeOwner(v)'
  BY <1>1 DEF Table
<1>14. InUse' = InUse \cup Ends(NewPipe)
  <2>1. UNION {PipesOf(v)' : v \in Workers}
          = (UNION {PipesOf(v) : v \in Workers}) \cup Ends(NewPipe)
    BY <1>1
  <2>. QED BY <2>1 DEF InUse
<1>15. OpenFiles(fds') = InUse'
  BY <1>3, <1>5, <1>8, <1>10, <1>14
<1>. QED BY <1>10, <1>11, <1>12, <1>13, <1>15 DEF Table

\* A worker that goes on with its processor_state keeps the types, its place as
\* the only server and the answers.
LEMMA Moves ==
  ASSUME IInv, NEW w \in Workers, NEW q, Becomes(w, q),
         worker[w].pc # "idle", q.pc # "idle", q.aux = worker[w].aux,
         q.pc \in RequestPCs => q.http \in Requests,
         UNCHANGED <<accepted, heap, epoll>>,
         \A c \in Conns \ {worker[w].aux} : answer'[c] = answer[c], Answering(w)'
  PROVE  WorkersTyped' /\ Serving' /\ Answers'
<1>1. Serving'
  BY GoesOn DEF IInv
<1>2. Answers'
  BY AnswersKept DEF IInv, Becomes, Typed, ListenerTyped
<1>3. WorkersTyped'
  BY DEF IInv, Typed, WorkersTyped, Becomes
<1>. QED BY <1>1, <1>2, <1>3

\* The same for a step outside of do_cgi, which has no pipes to account for.
LEMMA MovesOutside ==
  ASSUME IInv, NEW w \in Workers, NEW q, Becomes(w, q),
         worker[w].pc \notin PipePCs \cup {"idle"}, q.pc \notin PipePCs \cup {"idle"},
         q.aux = worker[w].aux, q.pc \in RequestPCs => q.http \in Requests,
         UNCHANGED <<accepted, heap, epoll, fd_of, fds>>,
         \A c \in Conns \ {worker[w].aux} : answer'[c] = answer[c], Answering(w)'
  PROVE  WorkersTyped' /\ Serving' /\ Table' /\ Answers'
<1>1. WorkersTyped' /\ Serving' /\ Answers'
  BY Moves
<1>2. worker'[w].pc \notin PipePCs /\ \A v \in Workers \ {w} : worker'[v] = worker[v]
  BY DEF Becomes
<1>3. PipesOf(w)' = PipesOf(w) /\ PipeOwner(w)'
  BY <1>2, NoPipes
<1>4. Table'
  BY <1>2, <1>3, Steady DEF IInv
<1>. QED BY <1>1, <1>4

\* And for one that only moves the worker's place.
LEMMA GotoOutside ==
  ASSUME IInv, NEW w \in Workers, NEW l \in Where, Goto(w, l),
         worker[w].pc \notin PipePCs \cup {"idle"}, l \notin PipePCs \cup {"idle"},
         l \in RequestPCs => worker[w].pc \in RequestPCs,
         UNCHANGED <<accepted, heap, epoll, fd_of, fds>>,
         \A c \in Conns \ {worker[w].aux} : answer'[c] = answer[c], Answering(w)'
  PROVE  WorkersTyped' /\ Serving' /\ Table' /\ Answers'
<1>. DEFINE q == [worker[w] EXCEPT !.pc = l]
<1>1. /\ Becomes(w, q) /\ worker'[w].pc = l /\ worker'[w].aux = worker[w].aux
      /\ worker'[w].http = worker[w].http
  BY GotoStep DEF IInv, Typed
<1>2. q = worker'[w]
  BY <1>1 DEF Becomes
<1>. HIDE DEF q
<1>3. q.pc \in RequestPCs => q.http \in Requests
  BY <1>1, <1>2 DEF IInv, Typed, WorkersTyped
<1>. QED BY <1>1, <1>2, <1>3, MovesOutside

\* The types of what a step leaves alone.
LEMMA TypesKept ==
  ASSUME IInv
  PROVE  /\ UNCHANGED <<accepted, conn_vars, fds>> => ListenerTyped'
         /\ UNCHANGED <<left, sends, inbox>> => ClientsTyped'
         /\ UNCHANGED <<answer, log_lock, crashed>> => AnswersTyped'
         /\ UNCHANGED cgi_vars => ScriptsTyped'
BY DEF IInv, Typed, ListenerTyped, ClientsTyped, AnswersTyped, ScriptsTyped, conn_vars, cgi_vars
-----------------------------------------------------------------------------
\* The steps, one lemma for each action.

\* Clients send.
LEMMA SendKeeps ==
  ASSUME IInv, NEW c \in Conns, NEW r \in Requests, Send(c, r)
  PROVE  IInv'
<1>1. /\ UNCHANGED <<accepted, left, answer, conn_vars, fds, worker, cgi_vars, log_lock, crashed>>
      /\ sends > 0 /\ sends' = sends - 1
      /\ inbox' = [inbox EXCEPT ![c] = @ \o (IF r.content THEN <<r, Body>> ELSE <<r>>)]
  BY DEF Send
<1>2. sends' \in 0 .. MaxSends
  BY <1>1, HttpAssumption DEF IInv, Typed, ClientsTyped
<1>3. inbox' \in [Conns -> Seq(Requests \cup {Body})]
  <2>1. <<r, Body>> \in Seq(Requests \cup {Body}) /\ <<r>> \in Seq(Requests \cup {Body})
    OBVIOUS
  <2>2. PICK m \in Seq(Requests \cup {Body}) : m = IF r.content THEN <<r, Body>> ELSE <<r>>
    BY <2>1
  <2>3. inbox[c] \o m \in Seq(Requests \cup {Body})
    BY ConcatTyped DEF IInv, Typed, ClientsTyped
  <2>. QED BY <1>1, <2>2, <2>3 DEF IInv, Typed, ClientsTyped
<1>4. ClientsTyped'
  BY <1>1, <1>2, <1>3 DEF IInv, Typed, ClientsTyped
<1>5. ListenerTyped' /\ AnswersTyped' /\ ScriptsTyped'
  BY <1>1, TypesKept
<1>6. Serving' /\ Table' /\ Answers' /\ WorkersTyped'
  BY <1>1, Unmoved DEF conn_vars
<1>. QED BY <1>4, <1>5, <1>6 DEF IInv, Typed

\* Clients leave.
LEMMA LeaveKeeps ==
  ASSUME IInv, NEW c \in Conns, Leave(c)
  PROVE  IInv'
<1>1. /\ UNCHANGED <<accepted, inbox, sends, answer, conn_vars, fds, worker, cgi_vars, log_lock,
                     crashed>>
      /\ left' = left \cup {c}
  BY DEF Leave
<1>2. ClientsTyped'
  BY <1>1 DEF IInv, Typed, ClientsTyped
<1>3. ListenerTyped' /\ AnswersTyped' /\ ScriptsTyped'
  BY <1>1, TypesKept
<1>4. Serving' /\ Table' /\ Answers' /\ WorkersTyped'
  BY <1>1, Unmoved DEF conn_vars
<1>. QED BY <1>2, <1>3, <1>4 DEF IInv, Typed

\* The listener ends.
LEMMA AcceptFailsKeeps ==
  ASSUME IInv, AcceptFails
  PROVE  IInv'
<1>1. /\ UNCHANGED <<client_vars, answer, heap, fd_of, epoll, fds, worker, cgi_vars, log_lock,
                     crashed>>
      /\ listening' = FALSE
  BY DEF AcceptFails
<1>2. ListenerTyped'
  BY <1>1 DEF IInv, Typed, ListenerTyped, client_vars
<1>3. ClientsTyped' /\ AnswersTyped' /\ ScriptsTyped'
  BY <1>1, TypesKept DEF client_vars
<1>4. Serving' /\ Table' /\ Answers' /\ WorkersTyped'
  BY <1>1, Unmoved DEF client_vars
<1>. QED BY <1>2, <1>3, <1>4 DEF IInv, Typed

\* A connection gets a number and a processor_state that nobody has.
LEMMA AcceptKeeps ==
  ASSUME IInv, NEW c \in Conns, Accept(c)
  PROVE  IInv'
<1>1. /\ UNCHANGED <<inbox, left, sends, answer, listening, worker, cgi_vars, log_lock, crashed>>
      /\ accepted' = accepted \cup {c} /\ c \notin accepted /\ NoFile \in Range(fds)
      /\ heap' = heap \cup {c} /\ epoll' = epoll \cup {c}
      /\ fds' = Opened(fds, c)
      /\ fd_of' = [fd_of EXCEPT ![c] = Min({f \in Fds : fds[f] = NoFile})]
  BY DEF Accept
<1>2. /\ fds \in [Fds -> Files \cup {NoFile}] /\ fd_of \in [Conns -> 0 .. NumFds]
      /\ heap \subseteq accepted /\ heap \subseteq Conns /\ epoll \subseteq heap
      /\ accepted \subseteq Conns /\ listening \in BOOLEAN
      /\ OpenOnce(fds) /\ OpenFiles(fds) = InUse /\ Numbered /\ PipesApart
      /\ \A v \in Workers : PipeOwner(v)
  BY DEF IInv, Typed, ListenerTyped, Serving, Table
<1>3. c \in Files /\ c # NoFile /\ c # NoConn /\ c \notin heap
  BY <1>1, <1>2, HttpAssumption DEF Files
<1>4. c \notin OpenFiles(fds)
  <2>1. \A v \in Workers : PipesOf(v) \cap Conns = {}
    BY <1>2, PipesTyped
  <2>. QED BY <1>2, <1>3, <2>1 DEF InUse
<1>5. FreeNumber(fds)
  BY <1>1, <1>2 DEF FreeNumber, Range
<1>6. /\ Opened(fds, c) \in [Fds -> Files \cup {NoFile}] /\ OpenOnce(Opened(fds, c))
      /\ OpenFiles(Opened(fds, c)) = OpenFiles(fds) \cup {c}
      /\ \A f \in Fds : fds[f] # NoFile => Opened(fds, c)[f] = fds[f]
      /\ \E n \in Fds : n = Min({f \in Fds : fds[f] = NoFile}) /\ Opened(fds, c)[n] = c
  BY <1>2, <1>3, <1>4, <1>5, OpenedTable
<1>7. PICK n \in Fds : n = Min({f \in Fds : fds[f] = NoFile}) /\ fds'[n] = c
  BY <1>1, <1>6
<1>8. fd_of' \in [Conns -> 0 .. NumFds] /\ fd_of'[c] = n /\ \A d \in Conns \ {c} : fd_of'[d] = fd_of[d]
  BY <1>1, <1>2, <1>7 DEF Fds
<1>9. ListenerTyped'
  BY <1>1, <1>2, <1>6, <1>8 DEF ListenerTyped
<1>10. Serving'
  <2>1. \A w \in Workers : worker[w].aux # c
    BY <1>3 DEF IInv, Serving
  <2>. QED BY <1>1, <1>2, <2>1 DEF IInv, Serving
<1>11. \A v \in Workers : PipesOf(v)' = PipesOf(v) /\ PipeOwner(v)' = PipeOwner(v)
  BY <1>1, SamePipes
<1>12. Table'
  <2>1. Numbered'
    <3>1. ASSUME NEW d \in heap PROVE fd_of'[d] \in Fds /\ fds'[fd_of'[d]] = d
      <4>1. fd_of[d] \in Fds /\ fds[fd_of[d]] = d /\ d # NoFile /\ d # c /\ d \in Conns
        BY <1>2, <1>3, HttpAssumption DEF Numbered, Files
      <4>. QED BY <1>1, <1>6, <1>8, <4>1
    <3>2. fd_of'[c] \in Fds /\ fds'[fd_of'[c]] = c
      BY <1>7, <1>8
    <3>. QED BY <1>1, <3>1, <3>2 DEF Numbered
  <2>2. InUse' = InUse \cup {c} /\ PipesApart'
    BY <1>1, <1>2, <1>11 DEF InUse, PipesApart
  <2>. QED BY <1>1, <1>2, <1>6, <1>11, <2>1, <2>2 DEF Table
<1>13. Answers' /\ WorkersTyped'
  BY <1>1 DEF IInv, Typed, WorkersTyped, Answers, Answering
<1>14. ClientsTyped' /\ AnswersTyped' /\ ScriptsTyped'
  BY <1>1, TypesKept
<1>. QED BY <1>9, <1>10, <1>12, <1>13, <1>14 DEF IInv, Typed

\* A worker takes a connection out of the epoll set and serves it alone.
LEMMA EpollWaitKeeps ==
  ASSUME IInv, NEW w \in Workers, epoll_wait(w)
  PROVE  IInv'
<1>1. PICK c \in epoll :
        /\ epoll' = epoll \ {c}
        /\ worker' = [worker EXCEPT ![w] = [Idle EXCEPT !.pc = "parse", !.aux = c]]
  BY DEF epoll_wait
<1>2. /\ UNCHANGED <<client_vars, answer, listening, heap, fd_of, fds, cgi_vars, log_lock, crashed>>
      /\ worker[w].pc = "idle"
  BY DEF epoll_wait, At
<1>3. c \in heap /\ c \in Conns /\ c # NoConn
  BY HttpAssumption DEF IInv, Serving, Typed, ListenerTyped
<1>4. PICK q : q = [Idle EXCEPT !.pc = "parse", !.aux = c]
  OBVIOUS
<1>5. q \in WorkerRec /\ q.pc = "parse" /\ q.aux = c
  <2>1. Idle \in WorkerRec
    BY IdleTyped
  <2>2. /\ "parse" \in Where /\ c \in Conns \cup {NoConn}
    BY <1>3 DEF Where
  <2>. QED BY <1>4, <2>1, <2>2, Zenon DEF WorkerRec
<1>6. Becomes(w, q)
  BY <1>1, <1>4, <1>5, BecomesIt DEF IInv, Typed
<1>7. /\ worker' \in [Workers -> WorkerRec] /\ worker'[w].pc = "parse" /\ worker'[w].aux = c
      /\ \A v \in Workers \ {w} : worker'[v] = worker[v]
  BY <1>5, <1>6 DEF Becomes
<1>8. WorkersTyped'
  BY <1>7 DEF IInv, Typed, WorkersTyped, RequestPCs
<1>9. ListenerTyped'
  BY <1>1, <1>2 DEF IInv, Typed, ListenerTyped, client_vars
<1>10. Serving'
  <2>1. \A v \in Workers : worker[v].aux # c
    BY <1>3 DEF IInv, Serving
  <2>2. heap' = heap /\ epoll' = epoll \ {c} /\ accepted' = accepted
    BY <1>1, <1>2 DEF client_vars
  <2>. QED BY <1>3, <1>7, <2>1, <2>2 DEF IInv, Serving
<1>11. Table'
  <2>1. PipesOf(w)' = PipesOf(w) /\ PipeOwner(w)'
    BY <1>2, <1>7, NoPipes DEF PipePCs
  <2>. QED BY <1>2, <1>7, <2>1, Steady DEF IInv
<1>12. Answers'
  BY <1>2, <1>7 DEF IInv, Answers, Answering
<1>13. ClientsTyped' /\ AnswersTyped' /\ ScriptsTyped'
  BY <1>2, TypesKept DEF client_vars
<1>. QED BY <1>8, <1>9, <1>10, <1>11, <1>12, <1>13 DEF IInv, Typed

\* A request is taken from the connection.
LEMMA HttpParseKeeps ==
  ASSUME IInv, NEW w \in Workers, http_parse(w)
  PROVE  IInv'
<1>1. /\ UNCHANGED <<accepted, left, sends, answer, conn_vars, fds, cgi_vars, log_lock, crashed>>
      /\ worker[w].pc = "parse" /\ Conn(w) \in Conns
  BY DEF http_parse, At
<1>2. CASE inbox[Conn(w)] = << >>
  <2>1. Goto(w, "close") /\ UNCHANGED inbox
    BY <1>2 DEF http_parse
  <2>2. worker'[w].pc = "close"
    BY <2>1, GotoStep DEF IInv, Typed, Where
  <2>3. WorkersTyped' /\ Serving' /\ Table' /\ Answers'
    BY <1>1, <2>1, <2>2, GotoOutside, Quiet DEF PipePCs, RequestPCs, Where, conn_vars
  <2>4. ListenerTyped' /\ ClientsTyped' /\ AnswersTyped' /\ ScriptsTyped'
    BY <1>1, <2>1, TypesKept
  <2>. QED BY <2>3, <2>4 DEF IInv, Typed
<1>3. CASE inbox[Conn(w)] # << >>
  <2>. DEFINE r == Head(inbox[Conn(w)])
              l == IF r = Body \/ ~r.parses THEN "close"
                   ELSE IF r.content THEN "content" ELSE "inner"
              q == [worker[w] EXCEPT !.http = r, !.pc = l]
  <2>1. inbox' = [inbox EXCEPT ![Conn(w)] = Tail(@)]
    BY <1>3 DEF http_parse
  <2>2. worker' = [worker EXCEPT ![w].http = r, ![w].pc = l]
    BY <1>3 DEF http_parse
  <2>3. worker' = [worker EXCEPT ![w] = q]
    BY <2>2
  <2>4. inbox[Conn(w)] \in Seq(Requests \cup {Body})
    BY <1>1 DEF IInv, Typed, ClientsTyped
  <2>5. r \in Requests \cup {Body} /\ Tail(inbox[Conn(w)]) \in Seq(Requests \cup {Body})
    BY <1>3, <2>4
  <2>6. ClientsTyped'
    BY <1>1, <2>1, <2>5 DEF IInv, Typed, ClientsTyped
  <2>7. l \in {"close", "content", "inner"} /\ (l # "close" => r # Body)
    OBVIOUS
  <2>. HIDE DEF r, l
  <2>8. worker[w] \in WorkerRec /\ r \in RequestRec /\ l \in Where
    BY <2>5, <2>7 DEF IInv, Typed, WorkersTyped, RequestRec, Where
  <2>9. q \in WorkerRec
    BY <2>8, RecordsTyped
  <2>10. q.pc = l /\ q.aux = worker[w].aux /\ q.http = r
    BY <2>8 DEF WorkerRec
  <2>. HIDE DEF q
  <2>11. Becomes(w, q)
    BY <2>3, <2>9, BecomesIt DEF IInv, Typed
  <2>12. worker'[w].pc = l
    BY <2>10, <2>11 DEF Becomes
  <2>13. q.pc \in RequestPCs => q.http \in Requests
    BY <2>5, <2>7, <2>10 DEF RequestPCs
  <2>14. Answering(w)'
    BY <2>7, <2>12, Quiet
  <2>15. q.pc \notin PipePCs \cup {"idle"} /\ worker[w].pc \notin PipePCs \cup {"idle"}
    BY <1>1, <2>7, <2>10 DEF PipePCs
  <2>16. UNCHANGED <<accepted, heap, epoll, fd_of, fds, answer>>
    BY <1>1 DEF conn_vars
  <2>17. WorkersTyped' /\ Serving' /\ Table' /\ Answers'
    BY <2>10, <2>11, <2>13, <2>14, <2>15, <2>16, MovesOutside
  <2>18. ListenerTyped' /\ AnswersTyped' /\ ScriptsTyped'
    BY <1>1, TypesKept
  <2>. QED BY <2>6, <2>17, <2>18 DEF IInv, Typed
<1>. QED BY <1>2, <1>3

\* What one read of the content leaves in the stream.
LEMMA TailTyped ==
  ASSUME ClientsTyped, NEW c \in Conns, inbox[c] # << >>,
         inbox' = [inbox EXCEPT ![c] = Tail(@)], UNCHANGED <<left, sends>>
  PROVE  ClientsTyped'
<1>1. inbox[c] \in Seq(Requests \cup {Body})
  BY DEF ClientsTyped
<1>2. Tail(inbox[c]) \in Seq(Requests \cup {Body})
  BY <1>1
<1>. QED BY <1>2 DEF ClientsTyped

\* Content is read for the first time.
LEMMA ReadContentKeeps ==
  ASSUME IInv, NEW w \in Workers, ReadContent(w)
  PROVE  IInv'
<1>1. /\ UNCHANGED <<accepted, left, sends, answer, conn_vars, fds, cgi_vars, log_lock>>
      /\ worker[w].pc = "content" /\ Conn(w) \in Conns /\ Goto(w, "content_again")
      /\ crashed' \in BOOLEAN
  BY DEF ReadContent, At
<1>2. \/ UNCHANGED inbox
      \/ inbox[Conn(w)] # << >> /\ inbox' = [inbox EXCEPT ![Conn(w)] = Tail(@)]
  BY DEF ReadContent
<1>3. ClientsTyped'
  BY <1>1, <1>2, TailTyped, TypesKept DEF IInv, Typed
<1>4. worker'[w].pc = "content_again"
  BY <1>1, GotoStep DEF IInv, Typed, Where
<1>5. WorkersTyped' /\ Serving' /\ Table' /\ Answers'
  BY <1>1, <1>4, GotoOutside, Quiet DEF PipePCs, RequestPCs, Where, conn_vars
<1>6. ListenerTyped' /\ AnswersTyped' /\ ScriptsTyped'
  BY <1>1, TypesKept DEF IInv, Typed, AnswersTyped
<1>. QED BY <1>3, <1>5, <1>6 DEF IInv, Typed

\* Content is read for the second time.
LEMMA ReadContentAgainKeeps ==
  ASSUME IInv, NEW w \in Workers, ReadContentAgain(w)
  PROVE  IInv'
<1>1. /\ UNCHANGED <<accepted, left, sends, answer, conn_vars, fds, cgi_vars, log_lock, crashed>>
      /\ worker[w].pc = "content_again" /\ Conn(w) \in Conns /\ Goto(w, "inner")
      /\ inbox[Conn(w)] # << >> /\ inbox' = [inbox EXCEPT ![Conn(w)] = Tail(@)]
  BY DEF ReadContentAgain, At
<1>2. ClientsTyped'
  BY <1>1, TailTyped DEF IInv, Typed
<1>3. worker'[w].pc = "inner"
  BY <1>1, GotoStep DEF IInv, Typed, Where
<1>4. WorkersTyped' /\ Serving' /\ Table' /\ Answers'
  BY <1>1, <1>3, GotoOutside, Quiet DEF PipePCs, RequestPCs, Where, conn_vars
<1>5. ListenerTyped' /\ AnswersTyped' /\ ScriptsTyped'
  BY <1>1, TypesKept
<1>. QED BY <1>2, <1>4, <1>5 DEF IInv, Typed

\* A step that writes answer a, complete, and goes to the log.
LEMMA AnswersWhole ==
  ASSUME IInv, NEW w \in Workers, worker[w].pc \in RequestPCs \ PipePCs, NEW a \in AnswerRec,
         Announced(a, worker[w].http), Write(w, a), Goto(w, "log"),
         UNCHANGED <<accepted, heap, epoll, fd_of, fds>>
  PROVE  /\ WorkersTyped' /\ Serving' /\ Table' /\ Answers'
         /\ answer' \in [Conns -> AnswerRec] /\ crashed' \in BOOLEAN
<1>1. worker[w].pc # "idle"
  BY DEF RequestPCs
<1>2. /\ answer' \in [Conns -> AnswerRec] /\ answer'[worker[w].aux] = a /\ crashed' \in BOOLEAN
      /\ \A c \in Conns \ {worker[w].aux} : answer'[c] = answer[c]
  BY <1>1, WriteStep
<1>3. /\ worker'[w].pc = "log" /\ worker'[w].aux = worker[w].aux
      /\ worker'[w].http = worker[w].http
  BY GotoStep DEF IInv, Typed, Where
<1>4. Answering(w)'
  BY <1>2, <1>3 DEF Answering
<1>5. WorkersTyped' /\ Serving' /\ Table' /\ Answers'
  BY <1>1, <1>2, <1>4, GotoOutside DEF PipePCs, RequestPCs, Where
<1>. QED BY <1>2, <1>5

\* The page for what is not found.
LEMMA Push404Keeps ==
  ASSUME IInv, NEW w \in Workers, push404(w)
  PROVE  IInv'
<1>1. /\ UNCHANGED <<client_vars, conn_vars, fds, cgi_vars, log_lock>>
      /\ worker[w].pc = "push404" /\ Write(w, Page404) /\ Goto(w, "log")
  BY DEF push404, At
<1>2. worker[w].http \in Requests
  BY <1>1 DEF IInv, Typed, WorkersTyped, RequestPCs
<1>3. /\ WorkersTyped' /\ Serving' /\ Table' /\ Answers'
      /\ answer' \in [Conns -> AnswerRec] /\ crashed' \in BOOLEAN
  BY <1>1, <1>2, AnswersWhole, WholeAnswers DEF RequestPCs, PipePCs, client_vars, conn_vars
<1>4. ListenerTyped' /\ ClientsTyped' /\ ScriptsTyped'
  BY <1>1, TypesKept DEF client_vars
<1>5. AnswersTyped'
  BY <1>1, <1>3 DEF IInv, Typed, AnswersTyped
<1>. QED BY <1>3, <1>4, <1>5 DEF IInv, Typed

\* A request is sent to where it is answered.
LEMMA InnerKeeps ==
  ASSUME IInv, NEW w \in Workers, processor_inner_routine(w)
  PROVE  IInv'
<1>. DEFINE r == worker[w].http
<1>1. /\ UNCHANGED <<client_vars, conn_vars, fds, cgi_vars, log_lock>> /\ worker[w].pc = "inner"
      /\ UNCHANGED <<accepted, heap, epoll, fd_of>>
  BY DEF processor_inner_routine, At, client_vars, conn_vars
<1>2. r \in Requests
  BY <1>1 DEF IInv, Typed, WorkersTyped, RequestPCs
<1>. HIDE DEF r
<1>3. worker[w].pc \in RequestPCs \ PipePCs /\ worker[w].pc # "idle"
  BY <1>1 DEF RequestPCs, PipePCs
<1>4. /\ WorkersTyped' /\ Serving' /\ Table' /\ Answers'
      /\ answer' \in [Conns -> AnswerRec] /\ crashed' \in BOOLEAN
  <2>1. CASE crashed' = TRUE /\ UNCHANGED <<worker, answer>>
    BY <1>1, <2>1, Unmoved DEF IInv, Typed, AnswersTyped
  <2>2. CASE Write(w, Page404) /\ Goto(w, "log")
    BY <1>1, <1>2, <1>3, <2>2, AnswersWhole, WholeAnswers DEF r
  <2>3. CASE Write(w, DirAnswer(r)) /\ Goto(w, "log")
    BY <1>1, <1>2, <1>3, <2>3, AnswersWhole, WholeAnswers DEF r
  <2>4. CASE Write(w, FileHeader(r)) /\ Goto(w, "sendfile")
    <3>1. FileHeader(r) \in AnswerRec
      BY <1>2, HeaderOfFile
    <3>2. /\ answer' \in [Conns -> AnswerRec] /\ crashed' \in BOOLEAN
          /\ \A c \in Conns \ {worker[w].aux} : answer'[c] = answer[c]
      BY <1>3, <2>4, <3>1, WriteStep
    <3>3. worker'[w].pc = "sendfile"
      BY <2>4, GotoStep DEF IInv, Typed, Where
    <3>4. WorkersTyped' /\ Serving' /\ Table' /\ Answers'
      BY <1>1, <2>4, <3>2, <3>3, GotoOutside, Quiet DEF PipePCs, RequestPCs, Where
    <3>. QED BY <3>2, <3>4
  <2>5. CASE /\ worker' = [worker EXCEPT ![w].pc = "logerr", ![w].then = "push404"]
             /\ UNCHANGED <<answer, crashed>>
    <3>. DEFINE q == [worker[w] EXCEPT !.pc = "logerr", !.then = "push404"]
    <3>1. worker[w] \in WorkerRec /\ "logerr" \in Where /\ "push404" \in Where
      BY DEF IInv, Typed, WorkersTyped, Where
    <3>2. q \in WorkerRec
      BY <3>1, RecordsTyped
    <3>3. /\ q.pc = "logerr" /\ q.then = "push404" /\ q.aux = worker[w].aux
          /\ q.http = worker[w].http /\ worker' = [worker EXCEPT ![w] = q]
      BY <2>5, <3>1 DEF WorkerRec
    <3>. HIDE DEF q
    <3>4. Becomes(w, q)
      BY <3>2, <3>3, BecomesIt DEF IInv, Typed
    <3>5. Answering(w)'
      BY <3>3, <3>4 DEF Answering, Becomes
    <3>6. WorkersTyped' /\ Serving' /\ Table' /\ Answers'
      BY <1>1, <1>2, <2>5, <3>3, <3>4, <3>5, MovesOutside DEF PipePCs, r
    <3>. QED BY <2>5, <3>6 DEF IInv, Typed, AnswersTyped
  <2>6. CASE Goto(w, "pipe_in") /\ UNCHANGED <<answer, crashed>>
    <3>1. worker'[w].pc = "pipe_in"
      BY <2>6, GotoStep DEF IInv, Typed, Where
    <3>2. WorkersTyped' /\ Serving' /\ Table' /\ Answers'
      BY <1>1, <2>6, <3>1, GotoOutside, Quiet DEF PipePCs, RequestPCs, Where
    <3>. QED BY <2>6, <3>2 DEF IInv, Typed, AnswersTyped
  <2>. QED BY <2>1, <2>2, <2>3, <2>4, <2>5, <2>6 DEF processor_inner_routine, r
<1>5. ListenerTyped' /\ ClientsTyped' /\ ScriptsTyped'
  BY <1>1, TypesKept DEF client_vars
<1>6. AnswersTyped'
  BY <1>1, <1>4 DEF IInv, Typed, AnswersTyped
<1>. QED BY <1>4, <1>5, <1>6 DEF IInv, Typed

\* The part of the file is sent: as much as the header has announced.
LEMMA SendfileKeeps ==
  ASSUME IInv, NEW w \in Workers, sendfile(w)
  PROVE  IInv'
<1>. DEFINE r == worker[w].http
            p == FilePart(r)
            l == IF p.status = 304 \/ Sendable(p.s, p.e) = p.e - p.s + 1 THEN "log" ELSE "logerr"
            a == [FileHeader(r) EXCEPT !.body = Sendable(p.s, p.e)]
            q == [worker[w] EXCEPT !.pc = l, !.then = "log"]
<1>1. /\ UNCHANGED <<client_vars, conn_vars, fds, cgi_vars, log_lock>> /\ worker[w].pc = "sendfile"
      /\ UNCHANGED <<accepted, heap, epoll, fd_of>>
  BY DEF sendfile, At, client_vars, conn_vars
<1>2. r \in Requests
  BY <1>1 DEF IInv, Typed, WorkersTyped, RequestPCs
<1>3. /\ FileHeader(r) \in AnswerRec /\ p.status \in {200, 206, 416}
      /\ Sendable(p.s, p.e) \in Nat /\ Announced(a, r)
  BY <1>2, HeaderOfFile
<1>4. /\ Write(w, a)
      /\ worker' = [worker EXCEPT ![w].pc = l, ![w].then = "log"]
  <2>1. p.status # 304
    BY <1>3
  <2>. QED BY <2>1 DEF sendfile
<1>5. a \in AnswerRec
  BY <1>3 DEF AnswerRec
<1>6. worker[w] \in WorkerRec /\ l \in {"log", "logerr"} /\ l \in Where /\ "log" \in Where
  BY DEF IInv, Typed, WorkersTyped, Where
<1>7. worker' = [worker EXCEPT ![w] = q]
  BY <1>4
<1>. HIDE DEF r, p, l, a
<1>8. q \in WorkerRec
  BY <1>6, RecordsTyped
<1>9. q.pc = l /\ q.then = "log" /\ q.aux = worker[w].aux /\ q.http = r
  BY <1>6 DEF WorkerRec, r
<1>. HIDE DEF q
<1>10. Becomes(w, q)
  BY <1>7, <1>8, BecomesIt DEF IInv, Typed
<1>11. /\ answer' \in [Conns -> AnswerRec] /\ answer'[worker[w].aux] = a /\ crashed' \in BOOLEAN
       /\ \A c \in Conns \ {worker[w].aux} : answer'[c] = answer[c]
  BY <1>1, <1>4, <1>5, WriteStep
<1>12. Answering(w)'
  BY <1>3, <1>6, <1>9, <1>10, <1>11 DEF Answering, Becomes
<1>13. WorkersTyped' /\ Serving' /\ Table' /\ Answers'
  BY <1>1, <1>2, <1>6, <1>9, <1>10, <1>11, <1>12, MovesOutside DEF PipePCs
<1>14. ListenerTyped' /\ ClientsTyped' /\ ScriptsTyped'
  BY <1>1, TypesKept DEF client_vars
<1>15. AnswersTyped'
  BY <1>1, <1>11 DEF IInv, Typed, AnswersTyped
<1>. QED BY <1>13, <1>14, <1>15 DEF IInv, Typed

\* An error is written to the log, and the request goes on.
LEMMA LogWriteErrorKeeps ==
  ASSUME IInv, NEW w \in Workers, log_write_error(w)
  PROVE  IInv'
<1>1. /\ UNCHANGED <<client_vars, answer, conn_vars, fds, cgi_vars, log_lock, crashed>>
      /\ UNCHANGED <<accepted, heap, epoll, fd_of>>
      /\ worker[w].pc = "logerr" /\ Goto(w, worker[w].then)
  BY DEF log_write_error, At, client_vars, conn_vars
<1>2. \/ worker[w].then = "push404"
      \/ worker[w].then = "log" /\ Announced(answer[worker[w].aux], worker[w].http)
  BY <1>1 DEF IInv, Answers, Answering
<1>3. worker[w].then \in Where
  BY <1>2 DEF Where
<1>4. /\ worker'[w].pc = worker[w].then /\ worker'[w].aux = worker[w].aux
      /\ worker'[w].http = worker[w].http
  BY <1>1, <1>3, GotoStep DEF IInv, Typed
<1>5. Answering(w)'
  BY <1>1, <1>2, <1>4 DEF Answering
<1>6. WorkersTyped' /\ Serving' /\ Table' /\ Answers'
  BY <1>1, <1>2, <1>3, <1>5, GotoOutside DEF PipePCs, RequestPCs
<1>7. ListenerTyped' /\ ClientsTyped' /\ AnswersTyped' /\ ScriptsTyped'
  BY <1>1, TypesKept DEF client_vars
<1>. QED BY <1>6, <1>7 DEF IInv, Typed

\* The request is written to the log, and its answer is done.
LEMMA LogWriteInfoKeeps ==
  ASSUME IInv, NEW w \in Workers, log_write_info(w)
  PROVE  IInv'
<1>. DEFINE l == IF worker[w].http.keep THEN "peek" ELSE "close"
<1>1. /\ UNCHANGED <<client_vars, conn_vars, fds, cgi_vars, crashed>>
      /\ UNCHANGED <<accepted, heap, epoll, fd_of>>
      /\ worker[w].pc = "log" /\ Goto(w, l)
      /\ answer' = [answer EXCEPT ![worker[w].aux] = NoAnswer]
  BY DEF log_write_info, At, client_vars, conn_vars
<1>2. log_lock' \in BOOLEAN
  BY DEF log_write_info, IInv, Typed, AnswersTyped
<1>3. l \in {"peek", "close"}
  OBVIOUS
<1>. HIDE DEF l
<1>4. l \in Where
  BY <1>3 DEF Where
<1>5. worker'[w].pc = l
  BY <1>1, <1>4, GotoStep DEF IInv, Typed
<1>6. /\ answer' \in [Conns -> AnswerRec]
      /\ \A c \in Conns \ {worker[w].aux} : answer'[c] = answer[c]
  BY <1>1, WholeAnswers DEF IInv, Typed, AnswersTyped
<1>7. Answering(w)'
  BY <1>3, <1>5, Quiet
<1>8. WorkersTyped' /\ Serving' /\ Table' /\ Answers'
  BY <1>1, <1>3, <1>4, <1>6, <1>7, GotoOutside DEF PipePCs, RequestPCs
<1>9. ListenerTyped' /\ ClientsTyped' /\ ScriptsTyped'
  BY <1>1, TypesKept DEF client_vars
<1>10. AnswersTyped'
  BY <1>1, <1>2, <1>6 DEF IInv, Typed, AnswersTyped
<1>. QED BY <1>8, <1>9, <1>10 DEF IInv, Typed

\* A worker waits for another request.
LEMMA PeekKeeps ==
  ASSUME IInv, NEW w \in Workers, peek(w)
  PROVE  IInv'
<1>. DEFINE l == IF Conn(w) \in Conns /\ inbox[Conn(w)] # << >> THEN "parse" ELSE "close"
            q == [worker[w] EXCEPT !.pc = l, !.again = TRUE]
<1>1. /\ UNCHANGED <<client_vars, answer, conn_vars, fds, cgi_vars, log_lock, crashed>>
      /\ UNCHANGED <<accepted, heap, epoll, fd_of>> /\ worker[w].pc = "peek"
  BY DEF peek, At, client_vars, conn_vars
<1>2. worker' = [worker EXCEPT ![w].pc = l, ![w].again = TRUE]
  BY DEF peek
<1>3. worker' = [worker EXCEPT ![w] = q]
  BY <1>2
<1>4. l \in {"parse", "close"}
  OBVIOUS
<1>. HIDE DEF l
<1>5. worker[w] \in WorkerRec /\ l \in Where
  BY <1>4 DEF IInv, Typed, WorkersTyped, Where
<1>6. q \in WorkerRec
  BY <1>5, RecordsTyped
<1>7. q.pc = l /\ q.aux = worker[w].aux
  BY <1>5 DEF WorkerRec
<1>. HIDE DEF q
<1>8. Becomes(w, q)
  BY <1>3, <1>6, BecomesIt DEF IInv, Typed
<1>9. Answering(w)'
  BY <1>4, <1>7, <1>8, Quiet DEF Becomes
<1>10. WorkersTyped' /\ Serving' /\ Table' /\ Answers'
  BY <1>1, <1>4, <1>7, <1>8, <1>9, MovesOutside DEF PipePCs, RequestPCs
<1>11. ListenerTyped' /\ ClientsTyped' /\ AnswersTyped' /\ ScriptsTyped'
  BY <1>1, TypesKept DEF client_vars
<1>. QED BY <1>10, <1>11 DEF IInv, Typed

\* A new pipe is empty.
LEMMA EmptyPipe ==
  ASSUME ScriptsTyped, NEW p, buf' = [buf EXCEPT ![p] = 0], UNCHANGED <<child, zombies>>
  PROVE  ScriptsTyped'
<1>1. 0 \in 0 .. PipeCap
  BY HttpAssumption
<1>2. buf' \in [Pipes -> 0 .. PipeCap]
  BY <1>1 DEF ScriptsTyped
<1>. QED BY <1>2 DEF ScriptsTyped

\* A step of do_cgi that only moves the worker's place keeps all but the table.
LEMMA GotoInside ==
  ASSUME IInv, NEW w \in Workers, NEW l \in Where, Goto(w, l),
         worker[w].pc \in RequestPCs, l # "idle",
         UNCHANGED <<accepted, heap, epoll>>,
         \A c \in Conns \ {worker[w].aux} : answer'[c] = answer[c], Answering(w)'
  PROVE  WorkersTyped' /\ Serving' /\ Answers' /\ \A v \in Workers \ {w} : worker'[v] = worker[v]
<1>. DEFINE q == [worker[w] EXCEPT !.pc = l]
<1>1. /\ Becomes(w, q) /\ worker'[w].pc = l /\ worker'[w].aux = worker[w].aux
      /\ worker'[w].http = worker[w].http
  BY GotoStep DEF IInv, Typed
<1>2. q = worker'[w] /\ \A v \in Workers \ {w} : worker'[v] = worker[v]
  BY <1>1 DEF Becomes
<1>. HIDE DEF q
<1>3. q.http \in Requests /\ worker[w].pc # "idle"
  BY <1>1, <1>2 DEF IInv, Typed, WorkersTyped, RequestPCs
<1>. QED BY <1>1, <1>2, <1>3, Moves

\* A step of the table of descriptors, typed.
LEMMA FdsTyped ==
  ASSUME IInv, fds' \in [Fds -> Files \cup {NoFile}], UNCHANGED <<accepted, conn_vars>>
  PROVE  ListenerTyped'
BY DEF IInv, Typed, ListenerTyped, conn_vars

\* The first pipe of a script.
LEMMA PipeInKeeps ==
  ASSUME IInv, NEW w \in Workers, pipe_in(w)
  PROVE  IInv'
<1>1. /\ UNCHANGED <<client_vars, answer, conn_vars, child, zombies, log_lock, crashed>>
      /\ UNCHANGED <<accepted, heap, epoll, fd_of>>
      /\ worker[w].pc = "pipe_in" /\ PipesOf(w) = {}
  BY DEF pipe_in, At, client_vars, conn_vars, PipesOf
<1>2. CASE PipeFits /\ fds' = Opened(Opened(fds, <<NewPipe, "R">>), <<NewPipe, "W">>)
           /\ buf' = [buf EXCEPT ![NewPipe] = 0]
           /\ worker' = [worker EXCEPT ![w].pc = "pipe_out", ![w].pipe_in = NewPipe]
  <2>. DEFINE q == [worker[w] EXCEPT !.pc = "pipe_out", !.pipe_in = NewPipe]
  <2>1. NewPipe \in Pipes
    BY <1>2, NewPipeUnused DEF IInv
  <2>2. worker[w] \in WorkerRec /\ "pipe_out" \in Where /\ NewPipe \in 0 .. NumPipes
    BY <2>1 DEF IInv, Typed, WorkersTyped, Where, Pipes
  <2>3. q \in WorkerRec
    BY <2>2, RecordsTyped
  <2>4. /\ q.pc = "pipe_out" /\ q.pipe_in = NewPipe /\ q.aux = worker[w].aux
        /\ q.http = worker[w].http /\ worker' = [worker EXCEPT ![w] = q]
    BY <1>2, <2>2 DEF WorkerRec
  <2>. HIDE DEF q
  <2>5. Becomes(w, q)
    BY <2>3, <2>4, BecomesIt DEF IInv, Typed
  <2>6. worker'[w] = q /\ \A v \in Workers \ {w} : worker'[v] = worker[v]
    BY <2>5 DEF Becomes
  <2>7. q.http \in Requests
    BY <1>1, <2>4 DEF IInv, Typed, WorkersTyped, RequestPCs
  <2>8. Answering(w)'
    BY <2>4, <2>6, Quiet
  <2>9. WorkersTyped' /\ Serving' /\ Answers'
    BY <1>1, <2>4, <2>5, <2>7, <2>8, Moves
  <2>10. PipesOf(w)' = PipesOf(w) \cup Ends(NewPipe) /\ PipeOwner(w)'
    BY <1>1, <2>1, <2>4, <2>6 DEF PipesOf, PipeOwner
  <2>11. Table' /\ fds' \in [Fds -> Files \cup {NoFile}]
    BY <1>1, <1>2, <2>6, <2>10, Opens DEF IInv
  <2>12. ScriptsTyped'
    BY <1>1, <1>2, EmptyPipe DEF IInv, Typed
  <2>13. ListenerTyped' /\ ClientsTyped' /\ AnswersTyped'
    BY <1>1, <2>11, FdsTyped, TypesKept DEF client_vars
  <2>. QED BY <2>9, <2>11, <2>12, <2>13 DEF IInv, Typed
<1>3. CASE Goto(w, "push404") /\ UNCHANGED <<fds, buf>>
  <2>1. worker'[w].pc = "push404"
    BY <1>3, GotoStep DEF IInv, Typed, Where
  <2>2. WorkersTyped' /\ Serving' /\ Table' /\ Answers'
    BY <1>1, <1>3, <2>1, GotoOutside, Quiet DEF PipePCs, RequestPCs, Where
  <2>3. ListenerTyped' /\ ClientsTyped' /\ AnswersTyped' /\ ScriptsTyped'
    BY <1>1, <1>3, TypesKept DEF client_vars, cgi_vars
  <2>. QED BY <2>2, <2>3 DEF IInv, Typed
<1>. QED BY <1>2, <1>3 DEF pipe_in

\* The second pipe of a script; after an error the first is closed.
LEMMA PipeOutKeeps ==
  ASSUME IInv, NEW w \in Workers, pipe_out(w)
  PROVE  IInv'
<1>1. /\ UNCHANGED <<client_vars, answer, conn_vars, child, zombies, log_lock, crashed>>
      /\ UNCHANGED <<accepted, heap, epoll, fd_of>>
      /\ worker[w].pc = "pipe_out" /\ PipesOf(w) = Ends(worker[w].pipe_in)
  BY DEF pipe_out, At, client_vars, conn_vars, PipesOf
<1>2. worker[w].pipe_in \in Pipes
  BY <1>1 DEF IInv, Table, PipeOwner
<1>3. CASE PipeFits /\ fds' = Opened(Opened(fds, <<NewPipe, "R">>), <<NewPipe, "W">>)
           /\ buf' = [buf EXCEPT ![NewPipe] = 0]
           /\ worker' = [worker EXCEPT ![w].pc = "fork", ![w].pipe_out = NewPipe]
  <2>. DEFINE q == [worker[w] EXCEPT !.pc = "fork", !.pipe_out = NewPipe]
  <2>1. NewPipe \in Pipes /\ InUse \cap Ends(NewPipe) = {}
    BY <1>3, NewPipeUnused DEF IInv
  <2>2. worker[w] \in WorkerRec /\ "fork" \in Where /\ NewPipe \in 0 .. NumPipes
    BY <2>1 DEF IInv, Typed, WorkersTyped, Where, Pipes
  <2>3. q \in WorkerRec
    BY <2>2, RecordsTyped
  <2>4. /\ q.pc = "fork" /\ q.pipe_out = NewPipe /\ q.pipe_in = worker[w].pipe_in
        /\ q.aux = worker[w].aux /\ q.http = worker[w].http
        /\ worker' = [worker EXCEPT ![w] = q]
    BY <1>3, <2>2 DEF WorkerRec
  <2>. HIDE DEF q
  <2>5. Becomes(w, q)
    BY <2>3, <2>4, BecomesIt DEF IInv, Typed
  <2>6. worker'[w] = q /\ \A v \in Workers \ {w} : worker'[v] = worker[v]
    BY <2>5 DEF Becomes
  <2>7. q.http \in Requests
    BY <1>1, <2>4 DEF IInv, Typed, WorkersTyped, RequestPCs
  <2>8. Answering(w)'
    BY <2>4, <2>6, Quiet
  <2>9. WorkersTyped' /\ Serving' /\ Answers'
    BY <1>1, <2>4, <2>5, <2>7, <2>8, Moves
  <2>10. worker[w].pipe_in # NewPipe
    BY <1>1, <2>1 DEF InUse, Ends
  <2>11. PipesOf(w)' = PipesOf(w) \cup Ends(NewPipe) /\ PipeOwner(w)'
    BY <1>1, <1>2, <2>1, <2>4, <2>6, <2>10 DEF PipesOf, PipeOwner
  <2>12. Table' /\ fds' \in [Fds -> Files \cup {NoFile}]
    BY <1>1, <1>3, <2>6, <2>11, Opens DEF IInv
  <2>13. ScriptsTyped'
    BY <1>1, <1>3, EmptyPipe DEF IInv, Typed
  <2>14. ListenerTyped' /\ ClientsTyped' /\ AnswersTyped'
    BY <1>1, <2>12, FdsTyped, TypesKept DEF client_vars
  <2>. QED BY <2>9, <2>12, <2>13, <2>14 DEF IInv, Typed
<1>4. CASE /\ fds' = Closed(fds, Ends(worker[w].pipe_in)) /\ Goto(w, "push404")
           /\ UNCHANGED buf
  <2>1. worker'[w].pc = "push404"
    BY <1>4, GotoStep DEF IInv, Typed, Where
  <2>2. /\ WorkersTyped' /\ Serving' /\ Answers'
        /\ \A v \in Workers \ {w} : worker'[v] = worker[v]
    BY <1>1, <1>4, <2>1, GotoInside, Quiet DEF RequestPCs, Where
  <2>3. PipesOf(w)' = PipesOf(w) \ Ends(worker[w].pipe_in) /\ PipeOwner(w)'
    BY <1>1, <2>1, NoPipes DEF PipePCs
  <2>4. Table' /\ fds' \in [Fds -> Files \cup {NoFile}]
    BY <1>1, <1>4, <2>2, <2>3, Closes DEF IInv
  <2>5. ListenerTyped' /\ ClientsTyped' /\ AnswersTyped' /\ ScriptsTyped'
    BY <1>1, <1>4, <2>4, FdsTyped, TypesKept DEF client_vars, cgi_vars
  <2>. QED BY <2>2, <2>4, <2>5 DEF IInv, Typed
<1>. QED BY <1>3, <1>4 DEF pipe_out

\* A script starts; after an error both pipes are closed.
LEMMA ForkKeeps ==
  ASSUME IInv, NEW w \in Workers, fork(w)
  PROVE  IInv'
<1>1. /\ UNCHANGED <<client_vars, answer, conn_vars, zombies, buf, log_lock, crashed>>
      /\ UNCHANGED <<accepted, heap, epoll, fd_of>> /\ worker[w].pc = "fork"
  BY DEF fork, At, client_vars, conn_vars
<1>2. /\ PipesOf(w) = Ends(worker[w].pipe_in) \cup Ends(worker[w].pipe_out)
      /\ PipeOwner(w)
  BY <1>1 DEF PipesOf, IInv, Table
<1>3. CASE /\ child' = [child EXCEPT ![w] =
                          [files |-> Inherited(w), pipe_in |-> worker[w].pipe_in,
                           pipe_out |-> worker[w].pipe_out, script |-> worker[w].http.script,
                           todo |-> Scripts[worker[w].http.script].units]]
           /\ Goto(w, "parent") /\ UNCHANGED fds
  <2>1. /\ worker'[w].pc = "parent" /\ worker'[w].pipe_in = worker[w].pipe_in
        /\ worker'[w].pipe_out = worker[w].pipe_out
    BY <1>3, GotoStep DEF IInv, Typed, Where
  <2>2. /\ WorkersTyped' /\ Serving' /\ Answers'
        /\ \A v \in Workers \ {w} : worker'[v] = worker[v]
    BY <1>1, <1>3, <2>1, GotoInside, Quiet DEF RequestPCs, Where
  <2>3. PipesOf(w)' = PipesOf(w) /\ PipeOwner(w)'
    BY <1>1, <1>2, <2>1 DEF PipesOf, PipeOwner
  <2>4. Table'
    BY <1>1, <1>3, <2>2, <2>3, Steady DEF IInv
  <2>5. worker[w].http \in Requests /\ worker[w] \in WorkerRec
    BY <1>1 DEF IInv, Typed, WorkersTyped, RequestPCs
  <2>6. /\ worker[w].http.script \in DOMAIN Scripts
        /\ Scripts[worker[w].http.script].units \in Nat
    BY <2>5, HttpAssumption DEF RequestType
  <2>7. Inherited(w) \subseteq Files
    BY DEF Inherited, Range, IInv, Typed, ListenerTyped
  <2>8. ScriptsTyped'
    <3>1. child'[w] \in ChildRec
      <4>1. worker[w].pipe_in \in 0 .. NumPipes /\ worker[w].pipe_out \in 0 .. NumPipes
        BY <2>5 DEF WorkerRec
      <4>2. child'[w] = [files |-> Inherited(w), pipe_in |-> worker[w].pipe_in,
                         pipe_out |-> worker[w].pipe_out, script |-> worker[w].http.script,
                         todo |-> Scripts[worker[w].http.script].units]
        BY <1>3 DEF IInv, Typed, ScriptsTyped
      <4>. QED BY <2>6, <2>7, <4>1, <4>2 DEF ChildRec
    <3>. QED BY <1>1, <1>3, <3>1 DEF IInv, Typed, ScriptsTyped
  <2>9. ListenerTyped' /\ ClientsTyped' /\ AnswersTyped'
    BY <1>1, <1>3, TypesKept DEF client_vars
  <2>. QED BY <2>2, <2>4, <2>8, <2>9 DEF IInv, Typed
<1>4. CASE /\ fds' = Closed(fds, Ends(worker[w].pipe_in) \cup Ends(worker[w].pipe_out))
           /\ Goto(w, "push404") /\ UNCHANGED child
  <2>1. worker'[w].pc = "push404"
    BY <1>4, GotoStep DEF IInv, Typed, Where
  <2>2. /\ WorkersTyped' /\ Serving' /\ Answers'
        /\ \A v \in Workers \ {w} : worker'[v] = worker[v]
    BY <1>1, <1>4, <2>1, GotoInside, Quiet DEF RequestPCs, Where
  <2>3. /\ PipesOf(w)' = PipesOf(w) \ (Ends(worker[w].pipe_in) \cup Ends(worker[w].pipe_out))
        /\ PipeOwner(w)'
    BY <1>2, <2>1, NoPipes DEF PipePCs
  <2>4. Table' /\ fds' \in [Fds -> Files \cup {NoFile}]
    BY <1>1, <1>2, <1>4, <2>2, <2>3, Closes DEF IInv
  <2>5. ListenerTyped' /\ ClientsTyped' /\ AnswersTyped' /\ ScriptsTyped'
    BY <1>1, <1>4, <2>4, FdsTyped, TypesKept DEF client_vars, cgi_vars
  <2>. QED BY <2>2, <2>4, <2>5 DEF IInv, Typed
<1>. QED BY <1>3, <1>4 DEF fork

\* The parent keeps only the end it reads from.
LEMMA CloseForParentKeeps ==
  ASSUME IInv, NEW w \in Workers, CloseForParent(w)
  PROVE  IInv'
<1>1. /\ UNCHANGED <<client_vars, answer, conn_vars, cgi_vars, log_lock, crashed>>
      /\ UNCHANGED <<accepted, heap, epoll, fd_of>>
      /\ worker[w].pc = "parent" /\ Goto(w, "wait")
      /\ fds' = Closed(fds, Ends(worker[w].pipe_in) \cup {<<worker[w].pipe_out, "W">>})
  BY DEF CloseForParent, At, client_vars, conn_vars
<1>2. /\ PipesOf(w) = Ends(worker[w].pipe_in) \cup Ends(worker[w].pipe_out)
      /\ worker[w].pipe_out \in Pipes /\ worker[w].pipe_in # worker[w].pipe_out
  BY <1>1 DEF PipesOf, IInv, Table, PipeOwner
<1>3. /\ worker'[w].pc = "wait" /\ worker'[w].pipe_out = worker[w].pipe_out
  BY <1>1, GotoStep DEF IInv, Typed, Where
<1>4. /\ WorkersTyped' /\ Serving' /\ Answers'
      /\ \A v \in Workers \ {w} : worker'[v] = worker[v]
  BY <1>1, <1>3, GotoInside, Quiet DEF RequestPCs, Where
<1>5. PipeOwner(w)'
  BY <1>2, <1>3 DEF PipeOwner
<1>6. PipesOf(w)' = PipesOf(w) \ (Ends(worker[w].pipe_in) \cup {<<worker[w].pipe_out, "W">>})
  <2>1. PipesOf(w)' = {<<worker[w].pipe_out, "R">>}
    BY <1>3 DEF PipesOf
  <2>. QED BY <1>2, <2>1 DEF Ends
<1>7. Ends(worker[w].pipe_in) \cup {<<worker[w].pipe_out, "W">>} \subseteq PipesOf(w)
  BY <1>2 DEF Ends
<1>8. Table' /\ fds' \in [Fds -> Files \cup {NoFile}]
  BY <1>1, <1>4, <1>5, <1>6, <1>7, Closes DEF IInv
<1>9. ListenerTyped' /\ ClientsTyped' /\ AnswersTyped' /\ ScriptsTyped'
  BY <1>1, <1>8, FdsTyped, TypesKept DEF client_vars
<1>. QED BY <1>4, <1>8, <1>9 DEF IInv, Typed

\* Some child has ended, or there is none; the status line is written.
LEMMA WaitForKeeps ==
  ASSUME IInv, NEW w \in Workers, wait(w)
  PROVE  IInv'
<1>1. /\ UNCHANGED <<client_vars, conn_vars, fds, child, buf, log_lock>>
      /\ UNCHANGED <<accepted, heap, epoll, fd_of>>
      /\ worker[w].pc = "wait" /\ Goto(w, "copy") /\ zombies' = Max({zombies - 1, 0})
      /\ Write(w, [NoAnswer EXCEPT !.status = 200])
  BY DEF wait, At, client_vars, conn_vars
<1>2. PICK a \in AnswerRec : a = [NoAnswer EXCEPT !.status = 200]
  BY WholeAnswers
<1>3. a.status = 200 /\ a.length = NoLength
  BY <1>2 DEF NoAnswer
<1>4. /\ answer' \in [Conns -> AnswerRec] /\ answer'[worker[w].aux] = a /\ crashed' \in BOOLEAN
      /\ \A c \in Conns \ {worker[w].aux} : answer'[c] = answer[c]
  BY <1>1, <1>2, WriteStep
<1>5. /\ worker'[w].pc = "copy" /\ worker'[w].aux = worker[w].aux
      /\ worker'[w].pipe_out = worker[w].pipe_out
  BY <1>1, GotoStep DEF IInv, Typed, Where
<1>6. Answering(w)'
  BY <1>3, <1>4, <1>5 DEF Answering
<1>7. /\ WorkersTyped' /\ Serving' /\ Answers'
      /\ \A v \in Workers \ {w} : worker'[v] = worker[v]
  BY <1>1, <1>4, <1>5, <1>6, GotoInside DEF RequestPCs, Where
<1>8. worker[w].pipe_out \in Pipes
  BY <1>1 DEF IInv, Table, PipeOwner
<1>9. PipesOf(w)' = PipesOf(w) /\ PipeOwner(w)'
  BY <1>1, <1>5, <1>8 DEF PipesOf, PipeOwner
<1>10. Table'
  BY <1>1, <1>7, <1>9, Steady DEF IInv
<1>11. zombies' \in Nat
  <2>1. zombies \in Nat /\ zombies - 1 \in Int /\ 0 \in Int
    BY DEF IInv, Typed, ScriptsTyped
  <2>2. /\ Max({zombies - 1, 0}) \in {zombies - 1, 0}
        /\ Max({zombies - 1, 0}) >= zombies - 1 /\ Max({zombies - 1, 0}) >= 0
    BY <2>1, LargerOne
  <2>. QED BY <1>1, <2>1, <2>2
<1>12. ListenerTyped' /\ ClientsTyped'
  BY <1>1, TypesKept DEF client_vars
<1>13. AnswersTyped' /\ ScriptsTyped'
  BY <1>1, <1>4, <1>11 DEF IInv, Typed, AnswersTyped, ScriptsTyped
<1>. QED BY <1>7, <1>10, <1>12, <1>13 DEF IInv, Typed

\* The output is copied until nobody can write any more.
LEMMA CgiCopyKeeps ==
  ASSUME IInv, NEW w \in Workers, CgiCopy(w)
  PROVE  IInv'
<1>. DEFINE p == worker[w].pipe_out
            n == Min({buf[p], ReadMax})
<1>1. /\ UNCHANGED <<client_vars, conn_vars, child, zombies, log_lock>>
      /\ UNCHANGED <<accepted, heap, epoll, fd_of>> /\ worker[w].pc = "copy"
  BY DEF CgiCopy, At, client_vars, conn_vars
<1>2. /\ p \in Pipes /\ PipesOf(w) = {<<p, "R">>} /\ worker[w].aux \in Conns
      /\ Conn(w) = worker[w].aux
  BY <1>1, OwnConn DEF PipesOf, IInv, Table, PipeOwner
<1>3. answer[worker[w].aux].status # 206 /\ answer[worker[w].aux].length = NoLength
  BY <1>1 DEF IInv, Answers, Answering
<1>4. CASE /\ n > 0 /\ buf' = [buf EXCEPT ![p] = @ - n]
           /\ answer' = [answer EXCEPT ![worker[w].aux].body = @ + n]
           /\ crashed' \in BOOLEAN /\ UNCHANGED <<fds, worker>>
  <2>1. buf[p] \in 0 .. PipeCap /\ ReadMax \in Nat /\ buf[p] \in Int /\ ReadMax \in Int
    <3>1. buf[p] \in 0 .. PipeCap
      BY <1>2 DEF IInv, Typed, ScriptsTyped
    <3>. QED BY <3>1, HttpAssumption
  <2>2. n \in {buf[p], ReadMax} /\ n <= buf[p]
    BY <2>1, SmallerOne
  <2>. HIDE DEF n
  <2>3. n \in Nat /\ buf[p] - n \in 0 .. PipeCap
    BY <1>4, <2>1, <2>2, HttpAssumption
  <2>4. ScriptsTyped'
    BY <1>1, <1>4, <2>3 DEF IInv, Typed, ScriptsTyped
  <2>5. PICK o \in AnswerRec : o = answer[worker[w].aux]
    BY <1>2 DEF IInv, Typed, AnswersTyped
  <2>6. /\ answer' = [answer EXCEPT ![worker[w].aux] = [o EXCEPT !.body = @ + n]]
        /\ o.body + n \in Nat
    BY <1>4, <2>3, <2>5 DEF AnswerRec
  <2>7. [o EXCEPT !.body = @ + n] \in AnswerRec
    BY <2>6, Zenon DEF AnswerRec
  <2>8. PICK a \in AnswerRec : a = [o EXCEPT !.body = @ + n]
    BY <2>7
  <2>9. a.status = o.status /\ a.length = o.length
    BY <2>8 DEF AnswerRec
  <2>10. /\ answer' \in [Conns -> AnswerRec] /\ answer'[worker[w].aux] = a
         /\ \A c \in Conns \ {worker[w].aux} : answer'[c] = answer[c]
    BY <1>2, <2>6, <2>8 DEF IInv, Typed, AnswersTyped
  <2>11. Answering(w)'
    BY <1>1, <1>3, <1>4, <2>5, <2>9, <2>10 DEF Answering
  <2>12. Table' /\ Serving' /\ WorkersTyped'
    <3>1. PipesOf(w)' = PipesOf(w) /\ PipeOwner(w)' /\ \A v \in Workers \ {w} : worker'[v] = worker[v]
      BY <1>4, SamePipes DEF IInv, Table
    <3>2. Table'
      BY <1>1, <1>4, <3>1, Steady DEF IInv
    <3>. QED BY <1>1, <1>4, <3>2 DEF IInv, Serving, Typed, WorkersTyped
  <2>13. Answers'
    BY <1>1, <1>4, <2>10, <2>11, AnswersKept DEF IInv, Typed, ListenerTyped
  <2>14. ListenerTyped' /\ ClientsTyped'
    BY <1>1, <1>4, TypesKept DEF client_vars
  <2>15. AnswersTyped'
    BY <1>1, <1>4, <2>10 DEF IInv, Typed, AnswersTyped
  <2>. QED BY <2>4, <2>12, <2>13, <2>14, <2>15 DEF IInv, Typed
<1>5. CASE /\ fds' = Closed(fds, {<<p, "R">>}) /\ Goto(w, "log")
           /\ UNCHANGED <<buf, answer, crashed>>
  <2>1. /\ worker'[w].pc = "log" /\ worker'[w].aux = worker[w].aux
        /\ worker'[w].http = worker[w].http
    BY <1>5, GotoStep DEF IInv, Typed, Where
  <2>2. Announced(answer[worker[w].aux], worker[w].http)
    BY <1>3 DEF Announced
  <2>3. Answering(w)'
    BY <1>5, <2>1, <2>2 DEF Answering
  <2>4. /\ WorkersTyped' /\ Serving' /\ Answers'
        /\ \A v \in Workers \ {w} : worker'[v] = worker[v]
    BY <1>1, <1>5, <2>3, GotoInside DEF RequestPCs, Where
  <2>5. PipesOf(w)' = PipesOf(w) \ {<<p, "R">>} /\ PipeOwner(w)'
    BY <1>2, <2>1, NoPipes DEF PipePCs
  <2>6. Table' /\ fds' \in [Fds -> Files \cup {NoFile}]
    BY <1>1, <1>2, <1>5, <2>4, <2>5, Closes DEF IInv
  <2>7. ListenerTyped' /\ ClientsTyped' /\ AnswersTyped' /\ ScriptsTyped'
    BY <1>1, <1>5, <2>6, FdsTyped, TypesKept DEF client_vars, cgi_vars
  <2>. QED BY <2>4, <2>6, <2>7 DEF IInv, Typed
<1>6. \/ /\ n > 0 /\ buf' = [buf EXCEPT ![p] = @ - n]
         /\ answer' = [answer EXCEPT ![worker[w].aux].body = @ + n]
         /\ crashed' \in BOOLEAN /\ UNCHANGED <<fds, worker>>
      \/ /\ fds' = Closed(fds, {<<p, "R">>}) /\ Goto(w, "log")
         /\ UNCHANGED <<buf, answer, crashed>>
  BY <1>2 DEF CgiCopy
<1>. QED BY <1>4, <1>5, <1>6

\* A script writes, or ends.
LEMMA ScriptKeeps ==
  ASSUME IInv, NEW w \in Workers, Script(w)
  PROVE  IInv'
<1>1. UNCHANGED <<client_vars, answer, conn_vars, fds, worker, log_lock, crashed>>
  BY DEF Script
<1>2. child \in [Workers -> ChildRec] /\ zombies \in Nat /\ buf \in [Pipes -> 0 .. PipeCap]
  BY DEF IInv, Typed, ScriptsTyped
<1>3. ASSUME child[w].todo > 0, buf[child[w].pipe_out] < PipeCap,
             buf' = [buf EXCEPT ![child[w].pipe_out] = @ + 1],
             child' = [child EXCEPT ![w].todo = @ - 1], UNCHANGED zombies
      PROVE  ScriptsTyped'
  <2>1. PICK o \in ChildRec : o = child[w]
    BY <1>2
  <2>2. o.todo - 1 \in Nat /\ child' = [child EXCEPT ![w] = [o EXCEPT !.todo = @ - 1]]
    BY <1>3, <2>1 DEF ChildRec
  <2>3. [o EXCEPT !.todo = @ - 1] \in ChildRec
    BY <2>2, Zenon DEF ChildRec
  <2>4. child' \in [Workers -> ChildRec]
    BY <1>2, <2>2, <2>3
  <2>5. PICK p : p = child[w].pipe_out
    OBVIOUS
  <2>6. p \in Pipes => buf[p] + 1 \in 0 .. PipeCap
    BY <1>2, <1>3, <2>5, HttpAssumption
  <2>7. buf' \in [Pipes -> 0 .. PipeCap]
    BY <1>2, <1>3, <2>5, <2>6
  <2>. QED BY <1>2, <1>3, <2>4, <2>7 DEF ScriptsTyped
<1>4. ASSUME child' = [child EXCEPT ![w] = NoChild], zombies' = zombies + 1, UNCHANGED buf
      PROVE  ScriptsTyped'
  <2>1. NoChild \in ChildRec
    BY HttpAssumption DEF NoChild, ChildRec
  <2>. QED BY <1>2, <1>4, <2>1 DEF ScriptsTyped
<1>5. ScriptsTyped'
  BY <1>3, <1>4 DEF Script
<1>6. ListenerTyped' /\ ClientsTyped' /\ AnswersTyped'
  BY <1>1, TypesKept DEF client_vars
<1>7. Serving' /\ Table' /\ Answers' /\ WorkersTyped'
  BY <1>1, Unmoved DEF client_vars, conn_vars
<1>. QED BY <1>5, <1>6, <1>7 DEF IInv, Typed

\* A worker closes its connection, and only that, and serves it no longer.
LEMMA CloseKeeps ==
  ASSUME IInv, NEW w \in Workers, close(w)
  PROVE  IInv'
<1>1. PICK c : c = worker[w].aux
  OBVIOUS
<1>2. /\ UNCHANGED <<client_vars, answer, listening, epoll, cgi_vars, log_lock, crashed>>
      /\ worker[w].pc = "close" /\ accepted' = accepted
      /\ fds' = [fds EXCEPT ![fd_of[c]] = NoFile]
      /\ heap' = heap \ {c} /\ fd_of' = [fd_of EXCEPT ![c] = 0]
      /\ worker' = [worker EXCEPT ![w] = Idle]
  BY <1>1 DEF close, At, client_vars
<1>3. c \in Conns /\ c \in heap \ epoll /\ fd_of[c] \in Fds /\ fds[fd_of[c]] = c
  BY <1>1, <1>2, OwnConn DEF IInv
<1>4. Becomes(w, Idle)
  BY <1>2, IdleTyped, BecomesIt DEF IInv, Typed
<1>5. /\ worker' \in [Workers -> WorkerRec] /\ worker'[w].pc = "idle" /\ worker'[w].aux = NoConn
      /\ \A v \in Workers \ {w} : worker'[v] = worker[v]
  BY <1>4 DEF Becomes, Idle
<1>6. /\ fds \in [Fds -> Files \cup {NoFile}] /\ fd_of \in [Conns -> 0 .. NumFds]
      /\ accepted \subseteq Conns /\ heap \subseteq Conns /\ epoll \subseteq Conns
      /\ epoll \subseteq heap /\ heap \subseteq accepted
      /\ listening \in BOOLEAN
      /\ OpenOnce(fds) /\ OpenFiles(fds) = InUse /\ Numbered /\ PipesApart
      /\ \A v \in Workers : PipeOwner(v)
  BY DEF IInv, Typed, ListenerTyped, Table, Serving
<1>7. fds' = Closed(fds, {c})
  <2>1. \A f \in Fds : fds[f] \in {c} <=> f = fd_of[c]
    <3>1. c # NoFile
      BY <1>3, HttpAssumption DEF Files
    <3>. QED BY <1>3, <1>6, <3>1 DEF OpenOnce
  <2>. QED BY <1>2, <1>3, <1>6, <2>1 DEF Closed
<1>8. /\ fds' \in [Fds -> Files \cup {NoFile}] /\ OpenOnce(fds')
      /\ OpenFiles(fds') = OpenFiles(fds) \ {c}
      /\ \A f \in Fds : fds[f] \notin {c} => fds'[f] = fds[f]
  BY <1>6, <1>7, ClosedTable
<1>9. fd_of' \in [Conns -> 0 .. NumFds] /\ \A d \in Conns \ {c} : fd_of'[d] = fd_of[d]
  <2>1. 0 \in 0 .. NumFds
    BY HttpAssumption
  <2>. QED BY <1>2, <1>6, <2>1
<1>10. ListenerTyped'
  BY <1>2, <1>6, <1>8, <1>9 DEF ListenerTyped
<1>11. WorkersTyped'
  BY <1>5 DEF IInv, Typed, WorkersTyped, RequestPCs
<1>12. Serving'
  <2>1. \A v \in Workers \ {w} : worker[v].aux # c
    BY <1>1, <1>3, HttpAssumption DEF IInv, Serving
  <2>2. ASSUME NEW v \in Workers
        PROVE  /\ worker'[v].pc = "idle" => worker'[v].aux = NoConn
               /\ worker'[v].pc # "idle" => worker'[v].aux \in heap' \ epoll'
    <3>1. CASE v = w
      BY <1>5, <3>1
    <3>2. CASE v # w
      BY <1>2, <1>5, <2>1, <3>2 DEF IInv, Serving
    <3>. QED BY <3>1, <3>2
  <2>3. \A u, v \in Workers : worker'[u].aux = worker'[v].aux /\ worker'[v].aux # NoConn => u = v
    BY <1>5 DEF IInv, Serving
  <2>. QED BY <1>2, <1>3, <1>6, <2>2, <2>3 DEF Serving
<1>13. \A v \in Workers : PipesOf(v)' = PipesOf(v) /\ PipeOwner(v)'
  <2>1. PipesOf(w)' = PipesOf(w) /\ PipeOwner(w)'
    BY <1>2, <1>5, NoPipes DEF PipePCs
  <2>. QED BY <1>5, <1>6, <2>1, SamePipes
<1>14. Table'
  <2>1. Numbered'
    <3>1. ASSUME NEW d \in heap \ {c} PROVE fd_of'[d] \in Fds /\ fds'[fd_of'[d]] = d
      BY <1>6, <1>8, <1>9 DEF Numbered
    <3>. QED BY <1>2, <3>1 DEF Numbered
  <2>2. \A v \in Workers : c \notin PipesOf(v)
    BY <1>3, <1>6, PipesTyped
  <2>3. InUse' = InUse \ {c} /\ PipesApart'
    BY <1>2, <1>6, <1>13, <2>2 DEF InUse, PipesApart
  <2>. QED BY <1>6, <1>8, <1>13, <2>1, <2>3 DEF Table
<1>15. Answers'
  BY <1>2, <1>5 DEF IInv, Answers, Answering
<1>16. ClientsTyped' /\ AnswersTyped' /\ ScriptsTyped'
  BY <1>2, TypesKept DEF client_vars
<1>. QED BY <1>10, <1>11, <1>12, <1>14, <1>15, <1>16 DEF IInv, Typed
-----------------------------------------------------------------------------
\* The invariant.

\* The server starts with nothing open and nobody busy.
LEMMA InitInv == Init => IInv
<1>. SUFFICES ASSUME Init PROVE IInv
  OBVIOUS
<1>1. \A w \in Workers : worker[w] = Idle
  BY DEF Init
<1>2. /\ \A w \in Workers : worker[w].pc = "idle" /\ worker[w].aux = NoConn
      /\ \A f \in Fds : fds[f] = NoFile
      /\ heap = {} /\ epoll = {} /\ accepted = {}
  BY <1>1 DEF Init, Idle
<1>3. ListenerTyped
  BY HttpAssumption DEF Init, ListenerTyped
<1>4. ClientsTyped
  BY HttpAssumption DEF Init, ClientsTyped
<1>5. AnswersTyped
  BY WholeAnswers DEF Init, AnswersTyped
<1>6. WorkersTyped
  BY <1>1, <1>2, IdleTyped DEF Init, WorkersTyped, RequestPCs
<1>7. ScriptsTyped
  <2>1. 0 \in 0 .. PipeCap /\ NoChild \in ChildRec
    BY HttpAssumption DEF NoChild, ChildRec
  <2>. QED BY <2>1 DEF Init, ScriptsTyped
<1>8. Serving
  BY <1>2 DEF Serving
<1>9. Table
  <2>1. \A w \in Workers : PipesOf(w) = {} /\ PipeOwner(w)
    BY <1>2 DEF PipesOf, PipeOwner
  <2>2. InUse = {} /\ PipesApart
    BY <1>2, <2>1 DEF InUse, PipesApart
  <2>3. OpenFiles(fds) = {} /\ OpenOnce(fds) /\ Numbered
    BY <1>2 DEF OpenFiles, OpenOnce, Numbered
  <2>. QED BY <2>1, <2>2, <2>3 DEF Table
<1>10. Answers
  BY <1>2 DEF Answers, Answering
<1>. QED BY <1>3, <1>4, <1>5, <1>6, <1>7, <1>8, <1>9, <1>10 DEF IInv, Typed

\* Every step of the server, its clients and its scripts keeps the invariant.
LEMMA NextInv == IInv /\ [Next]_vars => IInv'
<1>. SUFFICES ASSUME IInv, [Next]_vars PROVE IInv'
  OBVIOUS
<1>1. ASSUME NEW c \in Conns, NEW r \in Requests, Send(c, r) PROVE IInv'
  BY <1>1, SendKeeps
<1>2. ASSUME NEW c \in Conns, Leave(c) PROVE IInv'
  BY <1>2, LeaveKeeps
<1>3. ASSUME NEW c \in Conns, Accept(c) PROVE IInv'
  BY <1>3, AcceptKeeps
<1>4. CASE AcceptFails
  BY <1>4, AcceptFailsKeeps
<1>5. ASSUME NEW w \in Workers, WorkerStep(w) PROVE IInv'
  <2>1. CASE epoll_wait(w) BY <2>1, EpollWaitKeeps
  <2>2. CASE http_parse(w) BY <2>2, HttpParseKeeps
  <2>3. CASE ReadContent(w) BY <2>3, ReadContentKeeps
  <2>4. CASE ReadContentAgain(w) BY <2>4, ReadContentAgainKeeps
  <2>5. CASE processor_inner_routine(w) BY <2>5, InnerKeeps
  <2>6. CASE push404(w) BY <2>6, Push404Keeps
  <2>7. CASE sendfile(w) BY <2>7, SendfileKeeps
  <2>8. CASE pipe_in(w) BY <2>8, PipeInKeeps
  <2>9. CASE pipe_out(w) BY <2>9, PipeOutKeeps
  <2>10. CASE fork(w) BY <2>10, ForkKeeps
  <2>11. CASE CloseForParent(w) BY <2>11, CloseForParentKeeps
  <2>12. CASE wait(w) BY <2>12, WaitForKeeps
  <2>13. CASE CgiCopy(w) BY <2>13, CgiCopyKeeps
  <2>14. CASE log_write_error(w) BY <2>14, LogWriteErrorKeeps
  <2>15. CASE log_write_info(w) BY <2>15, LogWriteInfoKeeps
  <2>16. CASE peek(w) BY <2>16, PeekKeeps
  <2>17. CASE close(w) BY <2>17, CloseKeeps
  <2>. QED
    BY <1>5, <2>1, <2>2, <2>3, <2>4, <2>5, <2>6, <2>7, <2>8, <2>9, <2>10, <2>11, <2>12, <2>13,
       <2>14, <2>15, <2>16, <2>17 DEF WorkerStep
<1>6. ASSUME NEW w \in Workers, Script(w) PROVE IInv'
  BY <1>6, ScriptKeeps
<1>7. CASE UNCHANGED vars
  <2>1. UNCHANGED <<client_vars, answer, conn_vars, fds, worker, cgi_vars, log_lock, crashed>>
    BY <1>7 DEF vars
  <2>2. ListenerTyped' /\ ClientsTyped' /\ AnswersTyped' /\ ScriptsTyped'
    BY <2>1, TypesKept DEF client_vars
  <2>3. Serving' /\ Table' /\ Answers' /\ WorkersTyped'
    BY <2>1, Unmoved DEF client_vars, conn_vars
  <2>. QED BY <2>2, <2>3 DEF IInv, Typed
<1>. QED BY <1>1, <1>2, <1>3, <1>4, <1>5, <1>6, <1>7 DEF Next

\* The invariant holds always.
LEMMA Invariance == Spec => []IInv
BY InitInv, NextInv, PTL DEF Spec

-----------------------------------------------------------------------------
\* What follows from it.

\* TypeOK is a part of the invariant.
LEMMA TypesRight == IInv => TypeOK
<1>. SUFFICES ASSUME IInv PROVE TypeOK
  OBVIOUS
<1>1. ListenerTyped /\ ClientsTyped /\ AnswersTyped /\ WorkersTyped /\ ScriptsTyped
  BY DEF IInv, Typed
<1>2. \A c \in Conns : \A i \in DOMAIN inbox[c] : inbox[c][i] \in Requests \cup {Body}
  <2>1. ASSUME NEW c \in Conns PROVE inbox[c] \in Seq(Requests \cup {Body})
    BY <1>1 DEF ClientsTyped
  <2>. QED BY <2>1
<1>3. worker \in [Workers -> [pc : Where, aux : Conns \cup {NoConn},
                              http : Requests \cup {NoRequest, Body},
                              pipe_in : 0 .. NumPipes, pipe_out : 0 .. NumPipes,
                              again : BOOLEAN, then : Where]]
  BY <1>1, Zenon DEF WorkersTyped, WorkerRec, RequestRec
<1>4. answer \in [Conns -> [status : Nat, length : Int, first : Nat, body : Nat]]
  BY <1>1, Zenon DEF AnswersTyped, AnswerRec
<1>5. \A w \in Workers : child[w].files \subseteq Files /\ child[w].todo \in Nat
  BY <1>1 DEF ScriptsTyped, ChildRec
<1>. QED
  BY <1>1, <1>2, <1>3, <1>4, <1>5
  DEF ListenerTyped, ClientsTyped, AnswersTyped, ScriptsTyped, TypeOK

\* Workers, connections and processor_states belong together: nobody serves a
\* connection of another, and the descriptor in a processor_state is that of its
\* connection, although numbers are given out again (processor.c).
THEOREM WorkersApartHolds == Spec => []WorkersApart
<1>1. IInv => WorkersApart
  <2>. SUFFICES ASSUME IInv PROVE WorkersApart
    OBVIOUS
  <2>1. ASSUME NEW w \in Workers, worker[w].pc # "idle"
        PROVE  /\ worker[w].aux \in heap /\ Conn(w) = worker[w].aux
               /\ \A v \in Workers \ {w} : worker[v].aux # worker[w].aux
    <3>1. worker[w].aux \in Conns /\ worker[w].aux \in heap /\ Conn(w) = worker[w].aux
      BY <2>1, OwnConn DEF IInv
    <3>. QED BY <3>1, HttpAssumption DEF IInv, Serving
  <2>. QED BY <2>1, TypesRight DEF WorkersApart, ServesOwn
<1>. QED BY <1>1, Invariance, PTL

\* The server has exactly the descriptors open that somebody will close, each
\* once: accept, pipe, fork and close lose none, whichever of them fails.
THEOREM DescriptorsAccountedHolds == Spec => []DescriptorsAccounted
<1>1. IInv => DescriptorsAccounted
  <2>. SUFFICES ASSUME IInv PROVE DescriptorsAccounted
    OBVIOUS
  <2>1. fds \in [Fds -> Files \cup {NoFile}] /\ OpenOnce(fds) /\ OpenFiles(fds) = InUse
    BY DEF IInv, Typed, ListenerTyped, Table
  <2>2. Range(fds) \ {NoFile} = OpenFiles(fds)
    BY <2>1 DEF Range, OpenFiles
  <2>3. Cardinality({f \in Fds : fds[f] # NoFile}) = Cardinality(OpenFiles(fds))
    BY <2>1, CountedOnce
  <2>. QED BY <2>1, <2>2, <2>3 DEF DescriptorsAccounted
<1>. QED BY <1>1, Invariance, PTL

\* A finished answer has the length it has announced, and a part of a file is
\* what was asked for, of the file without its last byte (send_file_gio).
THEOREM AnswerAsAnnouncedHolds == Spec => []AnswerAsAnnounced
<1>1. IInv => AnswerAsAnnounced
  BY DEF IInv, Answers, Answering, Announced, AnswerAsAnnounced
<1>. QED BY <1>1, Invariance, PTL
-----------------------------------------------------------------------------
\* The output of scripts.  What a script has written and what it has yet to write
\* add up, wherever it is: on its way (child), in the pipe, or in the answer.  A
\* second invariant, on top of IInv: it is there that the pipe is the worker's own.

ScriptPCs == {"parent", "wait", "copy"}
Poured(w) == IF worker[w].pc = "copy" THEN answer[worker[w].aux].body ELSE 0
OfScript(r, a) == r.host = "known" /\ r.target = "cgi" /\ a.status = 200

Pours(w) ==
  /\ Running(w) =>
       /\ worker[w].pc \in ScriptPCs /\ child[w].pipe_out = worker[w].pipe_out
       /\ <<worker[w].pipe_out, "W">> \in child[w].files
  /\ ~Running(w) => child[w].todo = 0
  /\ worker[w].pc = "fork" => buf[worker[w].pipe_out] = 0
  /\ worker[w].pc \in ScriptPCs =>
       Poured(w) + buf[worker[w].pipe_out] + child[w].todo = Scripts[worker[w].http.script].units
  /\ worker[w].pc = "sendfile" => worker[w].http.target # "cgi"
  /\ worker[w].pc = "logerr" /\ worker[w].then = "log" => worker[w].http.target # "cgi"
  /\ worker[w].pc = "log" /\ OfScript(worker[w].http, answer[worker[w].aux]) =>
       answer[worker[w].aux].body = Scripts[worker[w].http.script].units

Pouring == \A w \in Workers : Pours(w)

\* The output pipes of two workers are not the same.
LEMMA OwnOutput ==
  ASSUME IInv, NEW v \in Workers, NEW w \in Workers, v # w,
         worker[v].pc \in {"fork"} \cup ScriptPCs, worker[w].pc \in {"fork"} \cup ScriptPCs
  PROVE  worker[v].pipe_out # worker[w].pipe_out
<1>1. <<worker[v].pipe_out, "R">> \in PipesOf(v) /\ <<worker[w].pipe_out, "R">> \in PipesOf(w)
  BY DEF PipesOf, Ends, ScriptPCs
<1>2. PipesOf(v) \cap PipesOf(w) = {}
  BY DEF IInv, Table, PipesApart
<1>. QED BY <1>1, <1>2

\* A worker that does not move, whose script, pipe and answer do not change.
LEMMA PoursStill ==
  ASSUME NEW v \in Workers, Pours(v), worker'[v] = worker[v], child'[v] = child[v],
         worker[v].pc # "idle" => answer'[worker[v].aux] = answer[worker[v].aux],
         worker[v].pc \in {"fork"} \cup ScriptPCs =>
           buf'[worker[v].pipe_out] = buf[worker[v].pipe_out]
  PROVE  Pours(v)'
<1>1. Running(v)' <=> Running(v)
  BY DEF Running
<1>2. CASE worker[v].pc = "idle"
  BY <1>1, <1>2 DEF Pours, ScriptPCs
<1>3. CASE worker[v].pc # "idle"
  <2>1. answer'[worker[v].aux] = answer[worker[v].aux]
    BY <1>3
  <2>. QED BY <1>1, <2>1 DEF Pours, ScriptPCs, Poured
<1>. QED BY <1>2, <1>3

\* A step of worker w leaves the output of the others alone.
LEMMA OthersPour ==
  ASSUME IInv, Pouring, NEW w \in Workers,
         \A v \in Workers \ {w} : worker'[v] = worker[v] /\ child'[v] = child[v],
         \/ answer' = answer
         \/ /\ worker[w].pc # "idle"
            /\ \A c \in Conns \ {worker[w].aux} : answer'[c] = answer[c],
         \A v \in Workers \ {w} : worker[v].pc \in {"fork"} \cup ScriptPCs =>
           buf'[worker[v].pipe_out] = buf[worker[v].pipe_out],
         Pours(w)'
  PROVE  Pouring'
<1>1. ASSUME NEW v \in Workers \ {w} PROVE Pours(v)'
  <2>1. worker[v].pc # "idle" => answer'[worker[v].aux] = answer[worker[v].aux]
    <3>1. CASE worker[v].pc # "idle" /\ worker[w].pc # "idle"
      <4>1. worker[v].aux \in Conns /\ worker[w].aux \in Conns
        BY <3>1, OwnConn DEF IInv
      <4>2. worker[v].aux # worker[w].aux
        BY <4>1, HttpAssumption DEF IInv, Serving
      <4>. QED BY <4>1, <4>2
    <3>. QED BY <3>1
  <2>. QED BY <2>1, PoursStill DEF Pouring
<1>. QED BY <1>1 DEF Pouring

\* A step of a worker that has no script, to where it has none and no answer either.
LEMMA QuietPour ==
  ASSUME IInv, Pouring, NEW w \in Workers,
         \A v \in Workers \ {w} : worker'[v] = worker[v], child' = child,
         worker[w].pc \notin ScriptPCs,
         worker'[w].pc \notin {"fork", "sendfile", "logerr", "log"} \cup ScriptPCs,
         \/ answer' = answer
         \/ /\ worker[w].pc # "idle"
            /\ \A c \in Conns \ {worker[w].aux} : answer'[c] = answer[c],
         \A v \in Workers \ {w} : worker[v].pc \in {"fork"} \cup ScriptPCs =>
           buf'[worker[v].pipe_out] = buf[worker[v].pipe_out]
  PROVE  Pouring'
<1>1. ~Running(w) /\ child[w].todo = 0 /\ (Running(w)' <=> Running(w))
  BY DEF Pouring, Pours, Running
<1>2. Pours(w)'
  BY <1>1 DEF Pours, ScriptPCs
<1>. QED BY <1>2, OthersPour

\* The same for a step to the log, where the answer is not a script's.
LEMMA LogPour ==
  ASSUME IInv, Pouring, NEW w \in Workers, NEW l, Goto(w, l), UNCHANGED <<child, buf>>,
         worker[w].pc \notin ScriptPCs \cup {"idle"},
         \/ l = "log" /\ ~OfScript(worker[w].http, answer'[worker[w].aux])
         \/ l = "sendfile" /\ worker[w].http.target # "cgi"
         \/ l = "push404",
         \A c \in Conns \ {worker[w].aux} : answer'[c] = answer[c]
  PROVE  Pouring'
<1>1. /\ \A v \in Workers \ {w} : worker'[v] = worker[v]
      /\ worker'[w].pc = l /\ worker'[w].aux = worker[w].aux /\ worker'[w].http = worker[w].http
  BY DEF Goto, IInv, Typed, WorkersTyped, WorkerRec
<1>2. ~Running(w) /\ child[w].todo = 0 /\ (Running(w)' <=> Running(w))
  BY DEF Pouring, Pours, Running
<1>3. Pours(w)'
  BY <1>1, <1>2 DEF Pours, ScriptPCs
<1>. QED BY <1>1, <1>3, OthersPour

\* Where a new pipe is not somebody's output pipe.
LEMMA NewPipeApart ==
  ASSUME IInv, PipeFits, NEW v \in Workers, worker[v].pc \in {"fork"} \cup ScriptPCs
  PROVE  worker[v].pipe_out # NewPipe
<1>1. <<worker[v].pipe_out, "R">> \in InUse
  BY DEF PipesOf, Ends, ScriptPCs, InUse
<1>2. <<NewPipe, "R">> \notin InUse
  BY NewPipeUnused DEF IInv, Ends
<1>. QED BY <1>1, <1>2

\* A new pipe is empty, and the others keep what is in them.
LEMMA NewPipeEmpty ==
  ASSUME IInv, PipeFits, buf' = [buf EXCEPT ![NewPipe] = 0]
  PROVE  /\ buf'[NewPipe] = 0
         /\ \A v \in Workers : worker[v].pc \in {"fork"} \cup ScriptPCs =>
              buf'[worker[v].pipe_out] = buf[worker[v].pipe_out]
<1>1. buf \in [Pipes -> 0 .. PipeCap] /\ NewPipe \in Pipes
  BY NewPipeUnused DEF IInv, Typed, ScriptsTyped
<1>2. \A p : p # NewPipe => buf'[p] = buf[p]
  BY <1>1
<1>. QED BY <1>1, <1>2, NewPipeApart

\* Steps before and after the script: the parser, the listener and the log.
LEMMA SimplePour ==
  ASSUME IInv, Pouring, NEW w \in Workers,
         \/ epoll_wait(w) \/ http_parse(w) \/ ReadContent(w) \/ ReadContentAgain(w)
         \/ peek(w) \/ log_write_info(w) \/ close(w)
  PROVE  Pouring'
<1>1. worker \in [Workers -> WorkerRec]
  BY DEF IInv, Typed, WorkersTyped
<1>2. /\ \A v \in Workers \ {w} : worker'[v] = worker[v]
      /\ worker[w].pc \notin ScriptPCs
      /\ worker'[w].pc \in {"idle", "parse", "close", "content", "inner", "content_again", "peek"}
  <2>1. CASE epoll_wait(w)
    BY <1>1, <2>1 DEF epoll_wait, At, Idle, ScriptPCs
  <2>2. CASE http_parse(w)
    BY <1>1, <2>2 DEF http_parse, At, Goto, ScriptPCs, WorkerRec
  <2>3. CASE ReadContent(w) \/ ReadContentAgain(w)
    BY <1>1, <2>3 DEF ReadContent, ReadContentAgain, At, Goto, ScriptPCs, WorkerRec
  <2>4. CASE peek(w) \/ log_write_info(w)
    <3>1. CASE peek(w)
      BY <1>1, <2>4, <3>1 DEF peek, At, ScriptPCs, WorkerRec
    <3>2. CASE log_write_info(w)
      <4>1. PICK l \in {"peek", "close"} : Goto(w, l) /\ worker[w].pc = "log"
        BY <3>2 DEF log_write_info, At
      <4>. QED BY <1>1, <4>1 DEF Goto, ScriptPCs, WorkerRec
    <3>. QED BY <2>4, <3>1, <3>2
  <2>5. CASE close(w)
    BY <1>1, <2>5 DEF close, At, Idle, ScriptPCs
  <2>. QED BY <2>1, <2>2, <2>3, <2>4, <2>5
<1>3. UNCHANGED cgi_vars
  BY DEF epoll_wait, http_parse, ReadContent, ReadContentAgain, peek, log_write_info, close
<1>4. \/ answer' = answer
      \/ /\ worker[w].pc # "idle"
         /\ \A c \in Conns \ {worker[w].aux} : answer'[c] = answer[c]
  <2>1. CASE log_write_info(w)
    <3>1. answer' = [answer EXCEPT ![worker[w].aux] = NoAnswer] /\ worker[w].pc # "idle"
      BY <2>1 DEF log_write_info, At
    <3>. QED BY <3>1 DEF IInv, Typed, AnswersTyped
  <2>. QED BY <2>1 DEF epoll_wait, http_parse, ReadContent, ReadContentAgain, peek, close
<1>. QED BY <1>2, <1>3, <1>4, QuietPour DEF ScriptPCs, cgi_vars

\* A write to the worker's connection changes no other answer.
LEMMA WriteOnlyOwn ==
  ASSUME IInv, NEW w \in Workers, worker[w].pc # "idle", NEW a, Write(w, a)
  PROVE  /\ answer'[worker[w].aux] = a
         /\ \A c \in Conns \ {worker[w].aux} : answer'[c] = answer[c]
<1>1. Conn(w) = worker[w].aux /\ worker[w].aux \in Conns
  BY OwnConn DEF IInv
<1>2. answer' = [answer EXCEPT ![worker[w].aux] = a]
  BY <1>1 DEF Write
<1>. QED BY <1>1, <1>2 DEF IInv, Typed, AnswersTyped

\* Answers that are not made by a script.
LEMMA AnswerPour ==
  ASSUME IInv, Pouring, NEW w \in Workers,
         processor_inner_routine(w) \/ push404(w) \/ sendfile(w) \/ log_write_error(w)
  PROVE  Pouring'
<1>. DEFINE r == worker[w].http
<1>1. /\ UNCHANGED <<child, buf>> /\ worker[w].pc \notin ScriptPCs \cup {"idle"}
  BY DEF processor_inner_routine, push404, sendfile, log_write_error, cgi_vars, At, ScriptPCs
<1>2. worker \in [Workers -> WorkerRec]
  BY DEF IInv, Typed, WorkersTyped
<1>3. Page404.status # 200
  BY DEF Page404, Whole
<1>4. CASE Write(w, Page404) /\ Goto(w, "log")
  BY <1>1, <1>3, <1>4, WriteOnlyOwn, LogPour DEF OfScript
<1>5. CASE processor_inner_routine(w)
  <2>1. CASE crashed' = TRUE /\ UNCHANGED <<worker, answer>>
    BY <1>1, <2>1, PoursStill DEF Pouring
  <2>2. CASE r.target # "cgi" /\ Write(w, DirAnswer(r)) /\ Goto(w, "log")
    BY <1>1, <2>2, WriteOnlyOwn, LogPour DEF OfScript
  <2>3. CASE r.target # "cgi" /\ Write(w, FileHeader(r)) /\ Goto(w, "sendfile")
    BY <1>1, <2>3, WriteOnlyOwn, LogPour
  <2>4. CASE /\ worker' = [worker EXCEPT ![w].pc = "logerr", ![w].then = "push404"]
             /\ UNCHANGED <<answer, crashed>>
    <3>1. /\ worker'[w].pc = "logerr" /\ worker'[w].then = "push404"
          /\ \A v \in Workers \ {w} : worker'[v] = worker[v]
      BY <1>2, <2>4 DEF WorkerRec
    <3>2. ~Running(w) /\ child[w].todo = 0 /\ (Running(w)' <=> Running(w))
      BY <1>1 DEF Pouring, Pours, Running
    <3>3. Pours(w)'
      BY <1>1, <3>1, <3>2 DEF Pours, ScriptPCs
    <3>. QED BY <1>1, <2>4, <3>1, <3>3, OthersPour
  <2>5. CASE Goto(w, "pipe_in") /\ UNCHANGED <<answer, crashed>>
    <3>1. worker'[w].pc = "pipe_in" /\ \A v \in Workers \ {w} : worker'[v] = worker[v]
      BY <1>2, <2>5 DEF WorkerRec, Goto
    <3>. QED BY <1>1, <2>5, <3>1, QuietPour DEF ScriptPCs
  <2>6. \/ crashed' = TRUE /\ UNCHANGED <<worker, answer>>
        \/ Write(w, Page404) /\ Goto(w, "log")
        \/ r.target # "cgi" /\ Write(w, DirAnswer(r)) /\ Goto(w, "log")
        \/ r.target # "cgi" /\ Write(w, FileHeader(r)) /\ Goto(w, "sendfile")
        \/ /\ worker' = [worker EXCEPT ![w].pc = "logerr", ![w].then = "push404"]
           /\ UNCHANGED <<answer, crashed>>
        \/ Goto(w, "pipe_in") /\ UNCHANGED <<answer, crashed>>
    BY <1>5 DEF processor_inner_routine
  <2>. QED BY <1>4, <2>1, <2>2, <2>3, <2>4, <2>5, <2>6
<1>6. CASE push404(w)
  BY <1>4, <1>6 DEF push404
<1>7. CASE sendfile(w)
  <2>. DEFINE q == FilePart(r)
              m == IF q.status = 304 THEN 0 ELSE Sendable(q.s, q.e)
              l == IF q.status = 304 \/ m = q.e - q.s + 1 THEN "log" ELSE "logerr"
              a == [FileHeader(r) EXCEPT !.body = m]
  <2>1. /\ l \in {"log", "logerr"} /\ Write(w, a)
        /\ worker' = [worker EXCEPT ![w].pc = l, ![w].then = "log"]
    BY <1>7 DEF sendfile
  <2>. HIDE DEF q, m, l, a
  <2>2. r.target # "cgi"
    BY <1>7 DEF sendfile, At, Pouring, Pours
  <2>3. /\ worker'[w].pc = l /\ worker'[w].then = "log" /\ worker'[w].http = r
        /\ \A v \in Workers \ {w} : worker'[v] = worker[v]
    BY <1>2, <2>1 DEF WorkerRec
  <2>4. \A c \in Conns \ {worker[w].aux} : answer'[c] = answer[c]
    BY <1>1, <2>1, WriteOnlyOwn
  <2>5. ~Running(w) /\ child[w].todo = 0 /\ (Running(w)' <=> Running(w))
    BY <1>1 DEF Pouring, Pours, Running
  <2>6. Pours(w)'
    BY <1>1, <2>1, <2>2, <2>3, <2>5 DEF Pours, ScriptPCs, OfScript
  <2>. QED BY <1>1, <2>3, <2>4, <2>6, OthersPour
<1>8. CASE log_write_error(w)
  <2>1. Goto(w, worker[w].then) /\ answer' = answer /\ worker[w].pc = "logerr"
    BY <1>8 DEF log_write_error, At
  <2>2. \/ worker[w].then = "push404"
        \/ worker[w].then = "log" /\ r.target # "cgi"
    BY <2>1 DEF IInv, Answers, Answering, Pouring, Pours
  <2>. QED BY <1>1, <2>1, <2>2, LogPour DEF OfScript
<1>. QED BY <1>5, <1>6, <1>7, <1>8

\* The pipes: an empty one for the output.
LEMMA PipesPour ==
  ASSUME IInv, Pouring, NEW w \in Workers, pipe_in(w) \/ pipe_out(w)
  PROVE  Pouring'
<1>1. /\ UNCHANGED <<answer, child>> /\ worker[w].pc \in {"pipe_in", "pipe_out"}
  BY DEF pipe_in, pipe_out, At
<1>2. worker \in [Workers -> WorkerRec]
  BY DEF IInv, Typed, WorkersTyped
<1>3. CASE Goto(w, "push404") /\ UNCHANGED buf
  <2>1. worker'[w].pc = "push404" /\ \A v \in Workers \ {w} : worker'[v] = worker[v]
    BY <1>2, <1>3 DEF WorkerRec, Goto
  <2>. QED BY <1>1, <1>3, <2>1, QuietPour DEF ScriptPCs
<1>4. CASE /\ PipeFits /\ buf' = [buf EXCEPT ![NewPipe] = 0]
           /\ worker' = [worker EXCEPT ![w].pc = "pipe_out", ![w].pipe_in = NewPipe]
  <2>1. worker'[w].pc = "pipe_out" /\ \A v \in Workers \ {w} : worker'[v] = worker[v]
    BY <1>2, <1>4 DEF WorkerRec
  <2>. QED BY <1>1, <1>4, <2>1, QuietPour, NewPipeEmpty DEF ScriptPCs
<1>5. CASE /\ PipeFits /\ buf' = [buf EXCEPT ![NewPipe] = 0]
           /\ worker' = [worker EXCEPT ![w].pc = "fork", ![w].pipe_out = NewPipe]
  <2>1. /\ worker'[w].pc = "fork" /\ worker'[w].pipe_out = NewPipe
        /\ \A v \in Workers \ {w} : worker'[v] = worker[v]
    BY <1>2, <1>5 DEF WorkerRec
  <2>2. ~Running(w) /\ child[w].todo = 0 /\ (Running(w)' <=> Running(w))
    BY <1>1 DEF Pouring, Pours, Running, ScriptPCs
  <2>3. buf'[NewPipe] = 0
    BY <1>5, NewPipeEmpty
  <2>4. Pours(w)'
    BY <1>1, <2>1, <2>2, <2>3 DEF Pours, ScriptPCs
  <2>. QED BY <1>1, <1>5, <2>1, <2>4, OthersPour, NewPipeEmpty
<1>. QED BY <1>3, <1>4, <1>5 DEF pipe_in, pipe_out

\* A script starts with all of its output to write, into a pipe whose other end
\* it holds.
LEMMA ForkPour ==
  ASSUME IInv, Pouring, NEW w \in Workers, fork(w)
  PROVE  Pouring'
<1>1. /\ UNCHANGED <<answer, buf>> /\ worker[w].pc = "fork"
  BY DEF fork, At
<1>2. worker \in [Workers -> WorkerRec] /\ child \in [Workers -> ChildRec]
  BY DEF IInv, Typed, WorkersTyped, ScriptsTyped
<1>3. CASE /\ child' = [child EXCEPT ![w] =
                          [files |-> Inherited(w), pipe_in |-> worker[w].pipe_in,
                           pipe_out |-> worker[w].pipe_out, script |-> worker[w].http.script,
                           todo |-> Scripts[worker[w].http.script].units]]
           /\ Goto(w, "parent")
  <2>1. /\ worker'[w].pc = "parent" /\ worker'[w].pipe_out = worker[w].pipe_out
        /\ worker'[w].http = worker[w].http
        /\ \A v \in Workers \ {w} : worker'[v] = worker[v]
    BY <1>2, <1>3 DEF WorkerRec, Goto
  <2>2. /\ child'[w].files = Inherited(w) /\ child'[w].pipe_out = worker[w].pipe_out
        /\ child'[w].todo = Scripts[worker[w].http.script].units
        /\ \A v \in Workers \ {w} : child'[v] = child[v]
    BY <1>2, <1>3
  <2>3. <<worker[w].pipe_out, "W">> \in Inherited(w)
    <3>1. <<worker[w].pipe_out, "W">> \in OpenFiles(fds)
      BY <1>1 DEF IInv, Table, InUse, PipesOf, Ends
    <3>2. worker[w].pipe_in # worker[w].pipe_out
      BY <1>1 DEF IInv, Table, PipeOwner
    <3>. QED BY <3>1, <3>2 DEF Inherited, OpenFiles, Range, IInv, Typed, ListenerTyped
  <2>4. buf[worker[w].pipe_out] = 0
    BY <1>1 DEF Pouring, Pours
  <2>5. Scripts[worker[w].http.script].units \in Nat
    <3>1. worker[w].http \in Requests
      BY <1>1 DEF IInv, Typed, WorkersTyped, RequestPCs
    <3>. QED BY <3>1, HttpAssumption DEF RequestType
  <2>6. Pours(w)'
    BY <1>1, <2>1, <2>2, <2>3, <2>4, <2>5 DEF Pours, ScriptPCs, Poured, Running
  <2>. QED BY <1>1, <2>1, <2>2, <2>6, OthersPour
<1>4. CASE Goto(w, "push404") /\ UNCHANGED child
  <2>1. worker'[w].pc = "push404" /\ \A v \in Workers \ {w} : worker'[v] = worker[v]
    BY <1>2, <1>4 DEF WorkerRec, Goto
  <2>. QED BY <1>1, <1>4, <2>1, QuietPour DEF ScriptPCs
<1>. QED BY <1>3, <1>4 DEF fork

\* The parent goes on, and begins an answer with nothing in it.
LEMMA ParentPour ==
  ASSUME IInv, Pouring, NEW w \in Workers, CloseForParent(w) \/ wait(w)
  PROVE  Pouring'
<1>1. UNCHANGED <<child, buf>> /\ worker[w].pc \in {"parent", "wait"}
  BY DEF CloseForParent, wait, At, cgi_vars
<1>2. worker \in [Workers -> WorkerRec]
  BY DEF IInv, Typed, WorkersTyped
<1>3. PICK l \in {"wait", "copy"} : Goto(w, l)
  BY DEF CloseForParent, wait
<1>4. /\ worker'[w].pc = l /\ worker'[w].pipe_out = worker[w].pipe_out
      /\ worker'[w].http = worker[w].http /\ worker'[w].aux = worker[w].aux
      /\ \A v \in Workers \ {w} : worker'[v] = worker[v]
  BY <1>2, <1>3 DEF WorkerRec, Goto
<1>5. /\ l = "copy" => answer'[worker[w].aux].body = 0
      /\ \A c \in Conns \ {worker[w].aux} : answer'[c] = answer[c]
  <2>1. CASE CloseForParent(w)
    <3>1. answer' = answer /\ worker' = [worker EXCEPT ![w].pc = "wait"]
      BY <2>1 DEF CloseForParent, Goto
    <3>2. worker'[w].pc = "wait"
      BY <1>2, <3>1 DEF WorkerRec
    <3>. QED BY <1>4, <3>1, <3>2
  <2>2. CASE wait(w)
    <3>1. Write(w, [NoAnswer EXCEPT !.status = 200])
      BY <2>2 DEF wait
    <3>2. [NoAnswer EXCEPT !.status = 200].body = 0
      BY DEF NoAnswer
    <3>. QED BY <1>1, <3>1, <3>2, WriteOnlyOwn
  <2>. QED BY <2>1, <2>2
<1>6. Running(w)' <=> Running(w)
  BY <1>1 DEF Running
<1>7. Pours(w)'
  BY <1>1, <1>4, <1>5, <1>6 DEF Pouring, Pours, ScriptPCs, Poured
<1>. QED BY <1>1, <1>4, <1>5, <1>7, OthersPour

\* What is read from the pipe goes into the answer; at the end nothing is left.
LEMMA CopyPour ==
  ASSUME IInv, Pouring, NEW w \in Workers, CgiCopy(w)
  PROVE  Pouring'
<1>. DEFINE p == worker[w].pipe_out
            n == Min({buf[p], ReadMax})
<1>1. worker[w].pc = "copy" /\ UNCHANGED child
  BY DEF CgiCopy, At
<1>2. /\ worker \in [Workers -> WorkerRec] /\ answer \in [Conns -> AnswerRec]
      /\ buf \in [Pipes -> 0 .. PipeCap] /\ child[w] \in ChildRec
  BY DEF IInv, Typed, WorkersTyped, AnswersTyped, ScriptsTyped
<1>3. p \in Pipes /\ worker[w].aux \in Conns /\ Conn(w) = worker[w].aux
  BY <1>1, OwnConn DEF IInv, Table, PipeOwner
<1>4. buf[p] \in Nat /\ ReadMax \in Nat \ {0} /\ buf[p] \in Int /\ ReadMax \in Int
  <2>1. buf[p] \in 0 .. PipeCap
    BY <1>2, <1>3
  <2>. QED BY <2>1, HttpAssumption
<1>5. n \in {buf[p], ReadMax} /\ n <= buf[p]
  BY <1>4, SmallerOne
<1>6. /\ answer[worker[w].aux].body + buf[p] + child[w].todo
           = Scripts[worker[w].http.script].units
      /\ answer[worker[w].aux].body \in Nat /\ child[w].todo \in Nat
  BY <1>1, <1>2, <1>3 DEF Pouring, Pours, ScriptPCs, Poured, AnswerRec, ChildRec
<1>7. Running(w)' <=> Running(w)
  BY <1>1 DEF Running
<1>8. \/ /\ buf' = [buf EXCEPT ![p] = @ - n]
         /\ answer' = [answer EXCEPT ![worker[w].aux].body = @ + n]
         /\ UNCHANGED worker
      \/ n = 0 /\ ~Holds(<<p, "W">>) /\ Goto(w, "log") /\ UNCHANGED <<buf, answer>>
  BY <1>3 DEF CgiCopy
<1>. HIDE DEF n
<1>9. CASE /\ buf' = [buf EXCEPT ![p] = @ - n]
           /\ answer' = [answer EXCEPT ![worker[w].aux].body = @ + n]
           /\ UNCHANGED worker
  <2>1. /\ buf'[p] = buf[p] - n /\ \A b : b # p => buf'[b] = buf[b]
        /\ answer'[worker[w].aux].body = answer[worker[w].aux].body + n
        /\ \A c \in Conns \ {worker[w].aux} : answer'[c] = answer[c]
    BY <1>2, <1>3, <1>9 DEF AnswerRec
  <2>2. \A v \in Workers \ {w} : worker[v].pc \in {"fork"} \cup ScriptPCs =>
          buf'[worker[v].pipe_out] = buf[worker[v].pipe_out]
    BY <1>1, <2>1, OwnOutput DEF ScriptPCs
  <2>3. answer'[worker[w].aux].body + buf'[p] + child[w].todo
          = Scripts[worker[w].http.script].units
    BY <1>4, <1>5, <1>6, <2>1
  <2>4. Pours(w)'
    BY <1>1, <1>7, <1>9, <2>3 DEF Pouring, Pours, ScriptPCs, Poured
  <2>. QED BY <1>1, <1>9, <2>1, <2>2, <2>4, OthersPour
<1>10. CASE n = 0 /\ ~Holds(<<p, "W">>) /\ Goto(w, "log") /\ UNCHANGED <<buf, answer>>
  <2>1. ~Running(w)
    BY <1>10 DEF Pouring, Pours, Holds
  <2>2. child[w].todo = 0 /\ buf[p] = 0
    BY <1>4, <1>5, <1>10, <2>1 DEF Pouring, Pours
  <2>3. answer[worker[w].aux].body = Scripts[worker[w].http.script].units
    BY <1>6, <2>2
  <2>4. /\ worker'[w].pc = "log" /\ worker'[w].http = worker[w].http
        /\ worker'[w].aux = worker[w].aux
        /\ \A v \in Workers \ {w} : worker'[v] = worker[v]
    BY <1>2, <1>10 DEF WorkerRec, Goto
  <2>5. Pours(w)'
    BY <1>1, <1>7, <1>10, <2>1, <2>2, <2>3, <2>4 DEF Pours, ScriptPCs
  <2>. QED BY <1>1, <1>10, <2>4, <2>5, OthersPour
<1>. QED BY <1>8, <1>9, <1>10

\* A script writes into its own pipe, and ends when it has written all.
LEMMA ScriptPour ==
  ASSUME IInv, Pouring, NEW w \in Workers, Script(w)
  PROVE  Pouring'
<1>. DEFINE p == worker[w].pipe_out
<1>1. /\ UNCHANGED <<answer, worker>> /\ Running(w)
  BY DEF Script
<1>2. /\ worker[w].pc \in ScriptPCs /\ child[w].pipe_out = p
      /\ <<p, "W">> \in child[w].files
      /\ Poured(w) + buf[p] + child[w].todo = Scripts[worker[w].http.script].units
  BY <1>1 DEF Pouring, Pours
<1>3. /\ child \in [Workers -> ChildRec] /\ buf \in [Pipes -> 0 .. PipeCap]
      /\ answer \in [Conns -> AnswerRec]
  BY DEF IInv, Typed, ScriptsTyped, AnswersTyped
<1>4. p \in Pipes
  BY <1>2 DEF IInv, Table, PipeOwner, ScriptPCs
<1>5. buf[p] \in Nat /\ child[w].todo \in Nat /\ Poured(w) \in Nat
  <2>1. buf[p] \in 0 .. PipeCap /\ child[w] \in ChildRec
    BY <1>3, <1>4
  <2>2. Poured(w) \in Nat
    <3>1. CASE worker[w].pc = "copy"
      <4>1. worker[w].aux \in Conns
        BY <3>1, OwnConn DEF IInv
      <4>. QED BY <1>3, <3>1, <4>1 DEF Poured, AnswerRec
    <3>. QED BY <3>1 DEF Poured
  <2>. QED BY <2>1, <2>2, HttpAssumption DEF ChildRec
<1>6. Poured(w)' = Poured(w)
  BY <1>1 DEF Poured
<1>7. CASE /\ child[w].todo > 0 /\ buf' = [buf EXCEPT ![p] = @ + 1]
           /\ child' = [child EXCEPT ![w].todo = @ - 1]
  <2>1. /\ buf'[p] = buf[p] + 1 /\ \A b : b # p => buf'[b] = buf[b]
        /\ child'[w].todo = child[w].todo - 1 /\ child'[w].files = child[w].files
        /\ child'[w].pipe_out = child[w].pipe_out
        /\ \A v \in Workers \ {w} : child'[v] = child[v]
    BY <1>3, <1>4, <1>7 DEF ChildRec
  <2>2. \A v \in Workers \ {w} : worker[v].pc \in {"fork"} \cup ScriptPCs =>
          buf'[worker[v].pipe_out] = buf[worker[v].pipe_out]
    BY <1>2, <2>1, OwnOutput
  <2>3. Poured(w)' + buf'[p] + child'[w].todo = Scripts[worker[w].http.script].units
    BY <1>2, <1>5, <1>6, <2>1
  <2>4. Running(w)'
    BY <1>1, <2>1 DEF Running
  <2>5. Pours(w)'
    BY <1>1, <1>2, <2>1, <2>3, <2>4 DEF Pours, ScriptPCs
  <2>. QED BY <1>1, <2>1, <2>2, <2>5, OthersPour
<1>8. CASE child[w].todo = 0 /\ child' = [child EXCEPT ![w] = NoChild] /\ UNCHANGED buf
  <2>1. /\ child'[w].todo = 0 /\ child'[w].files = {}
        /\ \A v \in Workers \ {w} : child'[v] = child[v]
    BY <1>3, <1>8 DEF NoChild
  <2>2. ~Running(w)'
    BY <2>1 DEF Running
  <2>3. Poured(w)' + buf'[p] + child'[w].todo = Scripts[worker[w].http.script].units
    BY <1>2, <1>6, <1>8, <2>1
  <2>4. Pours(w)'
    BY <1>1, <1>2, <2>1, <2>2, <2>3 DEF Pours, ScriptPCs
  <2>. QED BY <1>1, <1>8, <2>1, <2>4, OthersPour
<1>. QED BY <1>2, <1>7, <1>8 DEF Script

\* Every step keeps the account of the output.
LEMMA NextPour == IInv /\ Pouring /\ [Next]_vars => Pouring'
<1>. SUFFICES ASSUME IInv, Pouring, [Next]_vars PROVE Pouring'
  OBVIOUS
<1>1. CASE UNCHANGED <<worker, child, buf, answer>>
  BY <1>1, PoursStill DEF Pouring
<1>2. ASSUME NEW c \in Conns, (\E r \in Requests : Send(c, r)) \/ Leave(c) \/ Accept(c)
      PROVE  Pouring'
  BY <1>1, <1>2 DEF Send, Leave, Accept, cgi_vars
<1>3. CASE AcceptFails
  BY <1>1, <1>3 DEF AcceptFails, cgi_vars
<1>4. ASSUME NEW w \in Workers, WorkerStep(w) PROVE Pouring'
  BY <1>4, SimplePour, AnswerPour, PipesPour, ForkPour, ParentPour, CopyPour DEF WorkerStep
<1>5. ASSUME NEW w \in Workers, Script(w) PROVE Pouring'
  BY <1>5, ScriptPour
<1>6. CASE UNCHANGED vars
  BY <1>1, <1>6 DEF vars, cgi_vars
<1>. QED BY <1>2, <1>3, <1>4, <1>5, <1>6 DEF Next

\* At the start no script runs.
LEMMA InitPour == Init => Pouring
BY DEF Init, Pouring, Pours, Running, NoChild, Idle, ScriptPCs

\* An answer made by a script has all of the script's output: the loop of do_cgi
\* ends only when the script has, although any child may end the wait before it,
\* and other children hold copies of the pipe.
THEOREM WholeOutputHolds == Spec => []WholeOutput
<1>1. Pouring => WholeOutput
  BY DEF Pouring, Pours, WholeOutput, OfScript
<1>2. Spec => []Pouring
  BY Invariance, InitPour, NextPour, PTL DEF Spec
<1>. QED BY <1>1, <1>2, PTL
=============================================================================
