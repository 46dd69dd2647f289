---------------------------- MODULE MCHttpServer ----------------------------
(* Instances of HttpServer for TLC: the requests and the scripts.            *)
EXTENDS HttpServer, TLC

Get == [parses |-> TRUE, host |-> "known", target |-> "file", range |-> NoRange,
        match |-> FALSE, keep |-> FALSE, content |-> FALSE, script |-> "quiet"]
File(range, keep) == [Get EXCEPT !.range = range, !.keep = keep]
Cgi(script) == [Get EXCEPT !.target = "cgi", !.script = script]

MCScripts == ("quiet" :> [reads |-> FALSE, units |-> 0])
          @@ ("talks" :> [reads |-> FALSE, units |-> 2])
          @@ ("listens" :> [reads |-> TRUE, units |-> 1])

\* one request for each way through the server
MCRequests ==
    {File(split_range("none", 0, 0), TRUE), File(split_range("from-", 1, 0), FALSE),
     File(split_range("from-to", 2, 1), FALSE), Cgi("talks"),
     [Get EXCEPT !.parses = FALSE], [Get EXCEPT !.host = "none"],
     [Get EXCEPT !.host = "unknown"], [Get EXCEPT !.target = "missing"],
     [Get EXCEPT !.target = "dir", !.match = TRUE], [Get EXCEPT !.content = TRUE]}

ContentRequests == {[Get EXCEPT !.content = TRUE]}
ListenRequests == {Cgi("listens")}
LoudRequests == {Cgi("talks")}
FileRequests == {Get}
CachedRequests == {[Get EXCEPT !.match = TRUE]}
=============================================================================
