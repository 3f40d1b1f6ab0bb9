------------------------------ MODULE Framing ------------------------------
(***************************************************************************)
(* Where requests begin and end, seen from the handlers: what              *)
(* CHttpParserWrapper keeps of a stream of requests.  HttpParser shows     *)
(* that the parser, byte by byte, does this.                               *)
(*                                                                         *)
(* The stream is a sequence of tokens: a method, an URL, the end of the    *)
(* headers (which says how long the body is, whether it comes in chunks,   *)
(* and whether the connection goes on after it), the units of the body,    *)
(* and the last chunk.                                                     *)
(***************************************************************************)
EXTENDS Integers, Sequences

\* ParseHttpContent starts over, with every field of the wrapper cleared.
NoMessage ==
  [phase |-> "start", need |-> 0, chunked |-> FALSE, keep |-> FALSE,
   url |-> <<>>, body |-> <<>>, read_all |-> FALSE]

\* The callbacks: OnUrl and OnBody append.
OnUrl(p, tok) == [p EXCEPT !.url = Append(@, tok)]

\* Mutant of OnBody: = for append.
OnBodyAssigns(p, tok) == [p EXCEPT !.body = <<tok>>]

OnBody(p, tok) == [p EXCEPT !.body = Append(@, tok)]

\* Mutant of OnMessageComplete: SetReadAll is forgotten.
CompleteSilently(p) == p

OnMessageComplete(p) == [p EXCEPT !.read_all = TRUE]

\* NEW_MESSAGE: another message may start, unless this one was the last.
Complete(p) == [OnMessageComplete(p) EXCEPT !.phase = IF p.keep THEN "start" ELSE "dead"]

\* Mutant of Consume: OnHeadersComplete takes the message to be complete.
ConsumeEager(p, tok) ==
  CASE p.phase = "start" /\ tok.kind = "method" -> [p EXCEPT !.phase = "url"]
    [] p.phase = "url" /\ tok.kind = "url" -> [OnUrl(p, tok) EXCEPT !.phase = "headers"]
    [] p.phase = "headers" /\ tok.kind = "end" -> [OnMessageComplete(p) EXCEPT !.phase = "body"]
    [] OTHER -> OnBody(p, tok)

\* http_parser_execute on one token.  A parser that is dead, or sees what it
\* does not expect, takes no more input.
Consume(p, tok) ==
  LET q == [p EXCEPT !.phase = "body", !.need = tok.len, !.chunked = tok.chunked,
                     !.keep = tok.keep]
      b == [OnBody(p, tok) EXCEPT !.need = @ - 1]
  IN  CASE p.phase = "start" /\ tok.kind = "method" -> [p EXCEPT !.phase = "url"]
        [] p.phase = "url" /\ tok.kind = "url" -> [OnUrl(p, tok) EXCEPT !.phase = "headers"]
        [] p.phase = "headers" /\ tok.kind = "end" ->
             IF q.need = 0 /\ ~q.chunked THEN Complete(q) ELSE q
        [] p.phase = "body" /\ tok.kind = "unit" ->
             IF b.need = 0 /\ ~b.chunked THEN Complete(b) ELSE b
        [] p.phase = "body" /\ tok.kind = "last" /\ p.chunked -> Complete(p)
        [] OTHER -> [p EXCEPT !.phase = "dead"]

ParseTokens(tokens) ==
  LET after[n \in 0 .. Len(tokens)] ==
        IF n = 0 THEN NoMessage ELSE Consume(after[n - 1], tokens[n])
  IN  after[Len(tokens)]
=============================================================================
