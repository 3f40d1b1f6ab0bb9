---------------------------- MODULE MCHttpServer ----------------------------
(***************************************************************************)
(* Instances of HttpServer for TLC: what clients send.                     *)
(***************************************************************************)
EXTENDS HttpServer

Post(p, n)  == [path |-> p, cmd |-> "none", len |-> n, chunked |-> FALSE, keep |-> TRUE]
Closing(r)  == [r EXCEPT !.keep = FALSE]
InChunks(r) == [r EXCEPT !.chunked = TRUE]
Login       == Post("/api/login", 3)
Register    == Post("/api/reg", 2)
NoBody      == Post("/api/md5", 0)
Unknown     == Post("/favicon.ico", 1)
FileCount   == [path |-> "/api/myfiles", cmd |-> "count", len |-> 1, chunked |-> FALSE, keep |-> TRUE]

\* Clients that take "Connection:close" at its word: one request each.
OneRequest  == {<<Login>>, <<Closing(InChunks(Register))>>, <<NoBody>>, <<Unknown>>, <<FileCount>>}
\* A client that sends a second request on the same connection.
TwoRequests == {<<Login, Register>>}
=============================================================================
