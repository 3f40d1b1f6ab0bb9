----------------------------- MODULE HttpServer -----------------------------
(***************************************************************************)
(* From bytes to handlers: HttpServer, HttpConnection, CHttpParserWrapper  *)
(* and the routing table of url.cc.                                        *)
(*                                                                         *)
(* A client writes requests to its connection; the network cuts the stream *)
(* into arbitrary segments.  Each segment that arrives is appended to the  *)
(* connection's input buffer, which nobody ever consumes, and onMessage    *)
(* parses the whole buffer from the start, as if seen for the first time.  *)
(*                                                                         *)
(* Bytes are abstracted to the tokens of Framing, which says what the      *)
(* parser and its wrapper make of them.                                    *)
(***************************************************************************)
EXTENDS FiniteSets, SequencesExt, Framing

CONSTANTS
  Conn,       \* TCP connections
  Script,     \* what a client may send: a set of sequences of requests
  UuidMod     \* 2^32: m_conn_uuid_generator wraps

\* A request is [path, cmd, len, chunked, keep]: the URL is its path followed by
\* "cmd" when there is one, its body has len units, keep says it is keep-alive.
Paths == {"/api/reg", "/api/login", "/api/upload", "/api/md5", "/api/myfiles", "/api/sharepic"}

ASSUME HttpServerAssumption ==
  /\ UuidMod \in Nat \ {0}
  /\ \A s \in Script :
       /\ s \in Seq(Range(s))
       /\ \A i \in DOMAIN s : s[i].len \in Nat /\ {s[i].keep, s[i].chunked} \subseteq BOOLEAN
                              /\ {"path", "cmd"} \subseteq DOMAIN s[i]

VARIABLES
  state,      \* [Conn -> "new" | "open" | "closed"]
  script,     \* [Conn -> the requests its client sends]
  buf,        \* [Conn -> tokens received so far: the whole of buf]
  context,    \* [Conn -> its uuid, in TcpConnection's context]
  sm_httpMap, \* uuid -> the connection its HttpConnection was made for
  m_conn_uuid_generator,
  replies     \* [Conn -> what has been sent on it]

vars == <<state, script, buf, context, sm_httpMap, m_conn_uuid_generator, replies>>

-----------------------------------------------------------------------------
\* What request i of connection c looks like on the wire.
Token(k, c, i) ==
  LET r == script[c][i]
  IN  [kind |-> k, conn |-> c, req |-> i, len |-> r.len, chunked |-> r.chunked, keep |-> r.keep]
Url(c, i)  == <<Token("url", c, i)>>
Body(c, i) == [n \in 1 .. script[c][i].len |-> Token("unit", c, i)]
Wire(c, i) ==
  <<Token("method", c, i)>> \o Url(c, i) \o <<Token("end", c, i)>> \o Body(c, i)
  \o (IF script[c][i].chunked THEN <<Token("last", c, i)>> ELSE <<>>)
Stream(c) ==
  LET upto[i \in 0 .. Len(script[c])] == IF i = 0 THEN <<>> ELSE upto[i - 1] \o Wire(c, i)
  IN  upto[Len(script[c])]

Request(tok) == script[tok.conn][tok.req]

\* url::get_urlid compares the whole URL string with the table: two URLs one
\* after the other, or a URL with a cmd, are in no row of it.
Route(p) ==
  IF Len(p.url) = 1 /\ Request(p.url[1]).cmd = "none" /\ Request(p.url[1]).path \in Paths
  THEN Request(p.url[1]).path
  ELSE "404"

-----------------------------------------------------------------------------
Init ==
  /\ state = [c \in Conn |-> "new"]
  /\ script \in [Conn -> Script]
  /\ buf = [c \in Conn |-> <<>>]
  /\ context = [c \in Conn |-> 0]
  /\ sm_httpMap = <<>>
  /\ m_conn_uuid_generator = 0
  /\ replies = [c \in Conn |-> <<>>]

\* onConnection, connected.
Connect(c) ==
  /\ state[c] = "new"
  /\ state' = [state EXCEPT ![c] = "open"]
  /\ context' = [context EXCEPT ![c] = m_conn_uuid_generator]
  /\ m_conn_uuid_generator' = (m_conn_uuid_generator + 1) % UuidMod
  /\ sm_httpMap' = [u \in DOMAIN sm_httpMap \cup {m_conn_uuid_generator} |->
                      IF u = m_conn_uuid_generator THEN c ELSE sm_httpMap[u]]
  /\ UNCHANGED <<script, buf, replies>>

\* onConnection, disconnected: nothing but a log line.
Disconnect(c) ==
  /\ state[c] = "open"
  /\ state' = [state EXCEPT ![c] = "closed"]
  /\ UNCHANGED <<script, buf, context, sm_httpMap, m_conn_uuid_generator, replies>>

\* HttpConnection::onRead for the HttpConnection found under c's uuid: it
\* answers on the connection it was made for, if it has a whole message.
OnRead(c, tokens) ==
  LET p  == ParseTokens(tokens)
      to == sm_httpMap[context[c]]
  IN  replies' = IF p.read_all
                 THEN [replies EXCEPT ![to] =
                         Append(@, [route |-> Route(p), url |-> p.url, body |-> p.body])]
                 ELSE replies

\* Mutant of Message: a buffer that is emptied when it has been parsed.
MessageRetrieves(c, n) ==
  LET stream == Stream(c)
  IN  /\ state[c] = "open"
      /\ Len(buf[c]) + n <= Len(stream)
      /\ buf' = [buf EXCEPT ![c] = SubSeq(stream, Len(@) + 1, Len(@) + n)]
      /\ OnRead(c, buf'[c])
      /\ UNCHANGED <<state, script, context, sm_httpMap, m_conn_uuid_generator>>

\* n more tokens arrive on c.
Arrive(c, n) ==
  LET stream == Stream(c)
  IN  /\ state[c] = "open"
      /\ Len(buf[c]) + n <= Len(stream)
      /\ buf' = [buf EXCEPT ![c] = SubSeq(stream, 1, Len(@) + n)]

\* The IO thread of c calls onMessage.
Message(c, n) ==
  /\ Arrive(c, n)
  /\ OnRead(c, buf'[c])
  /\ UNCHANGED <<state, script, context, sm_httpMap, m_conn_uuid_generator>>

Deliver(c) == \E n \in 1 .. Len(Stream(c)) : Message(c, n)

Next == \E c \in Conn : Connect(c) \/ Disconnect(c) \/ Deliver(c)

Spec == Init /\ [][Next]_vars

\* Clients send what they have begun to send, and the network delivers it.
Fairness == \A c \in Conn : WF_buf(\E n \in 1 .. Len(Stream(c)) : Arrive(c, n))

FairSpec == Spec /\ Fairness

-----------------------------------------------------------------------------
TypeOK ==
  /\ state \in [Conn -> {"new", "open", "closed"}]
  /\ script \in [Conn -> Script]
  /\ \A c \in Conn : IsPrefix(buf[c], Stream(c))
  /\ m_conn_uuid_generator \in 0 .. UuidMod - 1
  /\ context \in [Conn -> 0 .. UuidMod - 1]
  /\ DOMAIN sm_httpMap \subseteq 0 .. UuidMod - 1
  /\ \A u \in DOMAIN sm_httpMap : sm_httpMap[u] \in Conn
  /\ DOMAIN replies = Conn

\* http_parser_wrapper.h:9, the wrapper extracts "url and content body from an
\* ajax request": what a handler is given, to answer on c, is one request of c's
\* own client, whole and unmixed, however many connections have come and gone.
ExtractsOneRequest ==
  \A c \in Conn : \A k \in DOMAIN replies[c] :
    \E i \in DOMAIN script[c] : replies[c][k].url = Url(c, i) /\ replies[c][k].body = Body(c, i)

\* However its bytes are cut up, a request is handled at most once, although
\* every segment that arrives makes the parser read all of it again.
HandledAtMostOnce ==
  \A c \in Conn : Len(replies[c]) <= Len(script[c])

\* A client that stays is answered.
EveryClientAnswered ==
  \A c \in Conn : state[c] = "open" ~> (replies[c] # <<>> \/ state[c] = "closed")
=============================================================================
