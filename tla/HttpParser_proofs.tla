------------------------- MODULE HttpParser_proofs --------------------------
(***************************************************************************)
(* Theorems about http_parser, for any streams cut anywhere.               *)
(*                                                                         *)
(* First what a byte makes of a parser, state by state: it keeps its types *)
(* and marks what its state says (the lemmas that end in Step).  Then two  *)
(* parsers of the same bytes, the one with all of them in its buffer, the  *)
(* other with those behind a cut: a byte leaves them in step (the lemmas   *)
(* that end in Links), and in front of the cut nobody sees what is behind  *)
(* it (those that end in Same), save a body that goes past it.  Then the   *)
(* loop of http_parser_execute, by induction over the bytes that are left. *)
(*                                                                         *)
(* Last CHttpParserWrapper, which gets the callbacks: after every byte it  *)
(* either waits for a value whose name has just gone by, or keeps only     *)
(* values that belong to their names (the lemmas that end in Telling).     *)
(* Most states tell it of no header at all (those that end in Hushed).     *)
(***************************************************************************)
EXTENDS HttpParser, Lemmas

-----------------------------------------------------------------------------
\* What a parser is.

Fields ==
  {"state", "header_state", "flags", "content_length", "nread", "http", "method", "upgrade",
   "errno", "returned", "pos", "mark", "from", "resumed", "out"}
Marks     == {"url", "header_field", "header_value", "body"}
Events(S) == [kind : Marks \cup {"headers_complete", "message_complete"}, bytes : Seq(S)]

IsParser(s) == s = [f \in Fields |-> s[f]]

\* A parser in a buffer of n bytes of S.
Typed(S, n, s) ==
  /\ IsParser(s)
  /\ s.state \in States /\ s.content_length \in 0 .. ULLONG_MAX
  /\ s.nread \in 0 .. HTTP_MAX_HEADER_SIZE + 1
  /\ s.mark \in Marks \cup {"none"} /\ s.from \in 1 .. n + 1 /\ s.pos \in 1 .. n + 1
  /\ s.resumed \in BOOLEAN /\ s.returned \in BOOLEAN /\ s.upgrade \in BOOLEAN
  /\ s.out \in Seq(Events(S))

\* What is marked in which state.
ReadsBody == {"s_body_identity", "s_chunk_data", "s_chunk_data_almost_done"}
Named     == {"s_header_field", "s_header_value"}
Marked(s) ==
  /\ s.state \in UrlStates => s.mark = "url"
  /\ s.state = "s_header_field" => s.mark = "header_field"
  /\ s.state = "s_header_value" => s.mark = "header_value"
  /\ s.state \in ReadsBody => s.mark \in {"none", "body"}
  /\ s.state \notin UrlStates \cup Named \cup ReadsBody => s.mark = "none"
  /\ s.state \in {"s_body_identity", "s_chunk_data"} => s.content_length # 0
  /\ s.mark # "none" => s.from <= s.pos

Going(S, n, s) ==
  Typed(S, n, s) /\ ~Halted(s) /\ s.pos <= n /\ s.nread <= HTTP_MAX_HEADER_SIZE

Stepped(S, n, s, r) ==
  /\ Typed(S, n, r) /\ r.nread <= HTTP_MAX_HEADER_SIZE /\ r.pos = s.pos
  /\ ~Halted(r) => Marked(r)

\* The states in which nothing is marked.
Plain ==
  {"s_chunk_data_done", "s_message_done", "s_dead", "s_start_req", "s_req_spaces_before_url",
   "s_req_http_start", "s_req_http_minor", "s_req_line_almost_done", "s_header_field_start",
   "s_header_value_start", "s_header_value_lws", "s_header_almost_done", "s_headers_almost_done",
   "s_chunk_size_start", "s_chunk_size", "s_chunk_parameters", "s_chunk_size_almost_done"}

\* The states, by what is marked in them.
LEMMA StateFacts ==
  /\ States = Plain \cup UrlStates \cup Named \cup ReadsBody
  /\ \A q \in Plain : q \notin UrlStates \cup Named \cup ReadsBody
  /\ \A q \in UrlStates : q \notin Named \cup ReadsBody
  /\ \A q \in Named : q \notin ReadsBody
  BY DEF States, Plain, UrlStates, UrlMayEnd, BodyStates, Named, ReadsBody

\* A step of a state without a mark, to another one.
LEMMA PlainStep ==
  ASSUME NEW S, NEW n \in Nat, NEW s, Going(S, n, s), s.mark = "none", NEW r, IsParser(r),
         r.state \in States, r.errno = "OK" => r.state \in Plain \cup {"s_body_identity", "s_chunk_data"},
         r.state \in {"s_body_identity", "s_chunk_data"} => r.content_length # 0,
         r.mark = "none", r.pos = s.pos, r.from = s.from, r.resumed = s.resumed,
         r.nread \in {0, s.nread}, r.content_length \in 0 .. ULLONG_MAX,
         r.upgrade \in BOOLEAN, r.returned \in BOOLEAN, r.out \in Seq(Events(S))
  PROVE  Stepped(S, n, s, r)
  <1>1. Typed(S, n, r) /\ r.nread <= HTTP_MAX_HEADER_SIZE
    BY HttpParserAssumption DEF Going, Typed
  <1>2. ~Halted(r) => Marked(r)
    <2>1. ~Halted(r) => r.state \in Plain \cup {"s_body_identity", "s_chunk_data"}
      BY DEF Halted
    <2>2. CASE r.state \in Plain
      <3>1. r.state \notin UrlStates \cup Named \cup ReadsBody
        BY <2>2, StateFacts
      <3> QED
        BY <3>1 DEF Marked, Named, ReadsBody
    <2>3. CASE r.state \in {"s_body_identity", "s_chunk_data"}
      <3>1. r.state \in ReadsBody /\ r.state \notin UrlStates \cup Named
        BY <2>3, StateFacts DEF ReadsBody
      <3> QED
        BY <2>3, <3>1 DEF Marked, Named
    <2> QED
      BY <2>1, <2>2, <2>3
  <1> QED
    BY <1>1, <1>2 DEF Stepped

\* A number that grows stays in its width.
LEMMA GrowFacts ==
  ASSUME NEW s, IsParser(s), s.content_length \in 0 .. ULLONG_MAX,
         NEW base \in Nat, NEW digit \in Nat, NEW e
  PROVE  LET r == Grow(s, base, digit, e)
         IN  /\ IsParser(r) /\ r.content_length \in 0 .. ULLONG_MAX
             /\ \A f \in Fields \ {"content_length", "errno"} : r[f] = s[f]
             /\ r.errno \in {s.errno, e}
  <1> DEFINE t == (s.content_length * base + digit) % Width
  <1>1. t \in 0 .. ULLONG_MAX
    <2>1. s.content_length * base + digit \in Nat
      BY HttpParserAssumption DEF ULLONG_MAX
    <2> QED
      BY <2>1, HttpParserAssumption DEF ULLONG_MAX
  <1>2. Grow(s, base, digit, e) = IF t < s.content_length \/ t = ULLONG_MAX
          THEN [s EXCEPT !.errno = e] ELSE [s EXCEPT !.content_length = t]
    BY DEF Grow, SET_ERRNO
  <1> HIDE DEF t
  <1> QED
    BY <1>1, <1>2 DEF IsParser, Fields

\* A notification is an event.
LEMMA NotifyFacts ==
  ASSUME NEW S, NEW out \in Seq(Events(S)), NEW kind \in {"headers_complete", "message_complete"}
  PROVE  Append(out, [kind |-> kind, bytes |-> <<>>]) \in Seq(Events(S))
  <1>1. [kind |-> kind, bytes |-> <<>>] \in Events(S)
    <2>1. <<>> \in Seq(S)
      OBVIOUS
    <2> QED
      BY <2>1 DEF Events
  <1> QED
    BY <1>1

\* A byte before a request.
LEMMA StartReqStep ==
  ASSUME NEW S, NEW n \in Nat, NEW s, Going(S, n, s), s.mark = "none", NEW ch,
         s.state = "s_start_req"
  PROVE  Stepped(S, n, s, StartReq(s, ch))
  <1>0. PICK r : r = StartReq(s, ch)
    OBVIOUS
  <1>1. IsParser(r)
    BY <1>0 DEF Going, Typed, IsParser, StartReq, To, SET_ERRNO, EndOfLine
  <1>2. /\ r.state \in States
        /\ r.errno = "OK" => r.state \in Plain \cup {"s_body_identity", "s_chunk_data"}
        /\ r.state \in {"s_body_identity", "s_chunk_data"} => r.content_length # 0
        /\ r.mark = "none" /\ r.pos = s.pos /\ r.from = s.from /\ r.resumed = s.resumed
        /\ r.nread \in {0, s.nread} /\ r.content_length \in 0 .. ULLONG_MAX
        /\ r.upgrade \in BOOLEAN /\ r.returned \in BOOLEAN /\ r.out \in Seq(Events(S))
    BY <1>0, HttpParserAssumption DEF Going, Halted, Typed, IsParser, Fields, Plain, States,
       BodyStates, ULLONG_MAX,
       StartReq, To, SET_ERRNO, EndOfLine
  <1> QED
    BY <1>0, <1>1, <1>2, PlainStep

\* A digit more of the minor version.
AnotherDigit(s, ch) ==
  s.state = "s_req_http_minor" /\ ch \in Digits /\ Longer(s.http, ch)[2] <= 999

\* What HttpVersion makes of a byte, one case behind the other.
Version(s, ch) ==
  IF s.state = "s_req_http_start" /\ ch = " " THEN s
  ELSE IF s.state = "s_req_http_start" /\ ch \in DOMAIN Versions
       THEN [s EXCEPT !.http = Versions[ch], !.state = "s_req_http_minor"]
  ELSE IF AnotherDigit(s, ch) THEN [s EXCEPT !.http = Longer(s.http, ch)]
  ELSE IF s.state = "s_req_http_minor" /\ ch = "CR" THEN To(s, "s_req_line_almost_done")
  ELSE IF s.state \in {"s_req_http_minor", "s_req_line_almost_done"} /\ ch = "LF"
       THEN To(s, "s_header_field_start")
  ELSE SET_ERRNO(s, [s_req_http_start |-> "INVALID_CONSTANT",
                     s_req_http_minor |-> "INVALID_VERSION",
                     s_req_line_almost_done |-> "LF_EXPECTED"][s.state])

\* No byte is two of a blank, a version, a digit and an end of the line.
LEMMA HttpVersionIs ==
  ASSUME NEW s, NEW ch
  PROVE  HttpVersion(s, ch) = Version(s, ch)
  <1>1. " " \notin DOMAIN Versions
    BY DEF Versions
  <1>2. "CR" \notin Digits /\ "LF" \notin Digits
    BY DEF Digits
  <1>3. CASE s.state = "s_req_http_start"
    BY <1>1, <1>3 DEF HttpVersion, Version, AnotherDigit
  <1>4. CASE s.state = "s_req_http_minor"
    <2>1. CASE AnotherDigit(s, ch)
      BY <1>2, <1>4, <2>1 DEF HttpVersion, Version, AnotherDigit
    <2>2. CASE ~AnotherDigit(s, ch)
      BY <1>4, <2>2 DEF HttpVersion, Version, AnotherDigit
    <2> QED
      BY <2>1, <2>2
  <1>5. CASE s.state \notin {"s_req_http_start", "s_req_http_minor"}
    BY <1>5 DEF HttpVersion, Version, AnotherDigit
  <1> QED
    BY <1>3, <1>4, <1>5

\* A byte of the version.
LEMMA HttpVersionStep ==
  ASSUME NEW S, NEW n \in Nat, NEW s, Going(S, n, s), s.mark = "none", NEW ch,
         s.state \in {"s_req_http_start", "s_req_http_minor", "s_req_line_almost_done"}
  PROVE  Stepped(S, n, s, HttpVersion(s, ch))
  <1> DEFINE code == [s_req_http_start |-> "INVALID_CONSTANT",
                      s_req_http_minor |-> "INVALID_VERSION",
                      s_req_line_almost_done |-> "LF_EXPECTED"][s.state]
  <1>0. PICK r : r = HttpVersion(s, ch)
    OBVIOUS
  <1>1. PICK h, v : h = Longer(s.http, ch) /\ v = Versions[ch]
    OBVIOUS
  <1>2. PICK e : e = code
    OBVIOUS
  <1>3. e # "OK"
    <2>1. code \in {"INVALID_CONSTANT", "INVALID_VERSION", "LF_EXPECTED"}
      OBVIOUS
    <2> QED
      BY <1>2, <2>1
  <1>4. r \in {s, [s EXCEPT !.http = h], [s EXCEPT !.http = v, !.state = "s_req_http_minor"],
               To(s, "s_req_line_almost_done"), To(s, "s_header_field_start"), SET_ERRNO(s, e)}
    <2>1. r = Version(s, ch)
      BY <1>0, HttpVersionIs
    <2> QED
      BY <1>1, <1>2, <2>1 DEF Version
  <1>5. IsParser(r)
    BY <1>4 DEF Going, Typed, IsParser, To, SET_ERRNO
  <1>6. /\ r.mark = s.mark /\ r.pos = s.pos /\ r.from = s.from /\ r.resumed = s.resumed
        /\ r.nread = s.nread /\ r.content_length = s.content_length /\ r.upgrade = s.upgrade
        /\ r.returned = s.returned /\ r.out = s.out
        /\ r.state \in {s.state, "s_req_http_minor", "s_req_line_almost_done", "s_header_field_start"}
    BY <1>4 DEF Going, Typed, IsParser, Fields, To, SET_ERRNO
  <1>7. r.state \in Plain /\ r.state \notin {"s_body_identity", "s_chunk_data"}
    BY <1>6 DEF Plain
  <1>8. r.state \in States
    BY <1>6 DEF States
  <1> QED
    BY <1>0, <1>5, <1>6, <1>7, <1>8, PlainStep DEF Going, Typed

\* The line feed behind a header.
LEMMA HeaderAlmostDoneStep ==
  ASSUME NEW S, NEW n \in Nat, NEW s, Going(S, n, s), s.mark = "none", NEW ch,
         s.state = "s_header_almost_done"
  PROVE  Stepped(S, n, s, HeaderAlmostDone(s, ch))
  <1>0. PICK r : r = HeaderAlmostDone(s, ch)
    OBVIOUS
  <1>1. IsParser(r)
    BY <1>0 DEF Going, Typed, IsParser, HeaderAlmostDone, SET_ERRNO
  <1>2. /\ r.state \in States
        /\ r.errno = "OK" => r.state \in Plain \cup {"s_body_identity", "s_chunk_data"}
        /\ r.state \in {"s_body_identity", "s_chunk_data"} => r.content_length # 0
        /\ r.mark = "none" /\ r.pos = s.pos /\ r.from = s.from /\ r.resumed = s.resumed
        /\ r.nread \in {0, s.nread} /\ r.content_length \in 0 .. ULLONG_MAX
        /\ r.upgrade \in BOOLEAN /\ r.returned \in BOOLEAN /\ r.out \in Seq(Events(S))
    BY <1>0, HttpParserAssumption DEF Going, Halted, Typed, IsParser, Fields, Plain, States,
       BodyStates, ULLONG_MAX,
       HeaderAlmostDone, SET_ERRNO
  <1> QED
    BY <1>0, <1>1, <1>2, PlainStep

\* The first digit of the size of a chunk.
LEMMA ChunkSizeStartStep ==
  ASSUME NEW S, NEW n \in Nat, NEW s, Going(S, n, s), s.mark = "none", NEW ch,
         s.state = "s_chunk_size_start"
  PROVE  Stepped(S, n, s, ChunkSizeStart(s, ch))
  <1>0. PICK r : r = ChunkSizeStart(s, ch)
    OBVIOUS
  <1>1. IsParser(r)
    BY <1>0 DEF Going, Typed, IsParser, ChunkSizeStart, SET_ERRNO
  <1>2. /\ r.state \in States
        /\ r.errno = "OK" => r.state \in Plain \cup {"s_body_identity", "s_chunk_data"}
        /\ r.state \in {"s_body_identity", "s_chunk_data"} => r.content_length # 0
        /\ r.mark = "none" /\ r.pos = s.pos /\ r.from = s.from /\ r.resumed = s.resumed
        /\ r.nread \in {0, s.nread} /\ r.content_length \in 0 .. ULLONG_MAX
        /\ r.upgrade \in BOOLEAN /\ r.returned \in BOOLEAN /\ r.out \in Seq(Events(S))
    BY <1>0, HttpParserAssumption DEF Going, Halted, Typed, IsParser, Fields, Plain, States,
       BodyStates, ULLONG_MAX,
       ChunkSizeStart, SET_ERRNO, HexDigits, Digits, Value
  <1> QED
    BY <1>0, <1>1, <1>2, PlainStep

\* The line feed behind the size of a chunk.
LEMMA ChunkSizeAlmostDoneStep ==
  ASSUME NEW S, NEW n \in Nat, NEW s, Going(S, n, s), s.mark = "none", NEW ch,
         s.state = "s_chunk_size_almost_done"
  PROVE  Stepped(S, n, s, ChunkSizeAlmostDone(s, ch))
  <1>0. PICK r : r = ChunkSizeAlmostDone(s, ch)
    OBVIOUS
  <1>1. IsParser(r)
    BY <1>0 DEF Going, Typed, IsParser, ChunkSizeAlmostDone, To, SET_ERRNO
  <1>2. /\ r.state \in States
        /\ r.errno = "OK" => r.state \in Plain \cup {"s_body_identity", "s_chunk_data"}
        /\ r.state \in {"s_body_identity", "s_chunk_data"} => r.content_length # 0
        /\ r.mark = "none" /\ r.pos = s.pos /\ r.from = s.from /\ r.resumed = s.resumed
        /\ r.nread \in {0, s.nread} /\ r.content_length \in 0 .. ULLONG_MAX
        /\ r.upgrade \in BOOLEAN /\ r.returned \in BOOLEAN /\ r.out \in Seq(Events(S))
    BY <1>0, HttpParserAssumption DEF Going, Halted, Typed, IsParser, Fields, Plain, States,
       BodyStates, ULLONG_MAX,
       ChunkSizeAlmostDone, To, SET_ERRNO
  <1> QED
    BY <1>0, <1>1, <1>2, PlainStep

\* The line feed behind a chunk.
LEMMA ChunkDataDoneStep ==
  ASSUME NEW S, NEW n \in Nat, NEW s, Going(S, n, s), s.mark = "none", NEW ch,
         s.state = "s_chunk_data_done"
  PROVE  Stepped(S, n, s, ChunkDataDone(s, ch))
  <1>0. PICK r : r = ChunkDataDone(s, ch)
    OBVIOUS
  <1>1. IsParser(r)
    BY <1>0 DEF Going, Typed, IsParser, ChunkDataDone, SET_ERRNO
  <1>2. /\ r.state \in States
        /\ r.errno = "OK" => r.state \in Plain \cup {"s_body_identity", "s_chunk_data"}
        /\ r.state \in {"s_body_identity", "s_chunk_data"} => r.content_length # 0
        /\ r.mark = "none" /\ r.pos = s.pos /\ r.from = s.from /\ r.resumed = s.resumed
        /\ r.nread \in {0, s.nread} /\ r.content_length \in 0 .. ULLONG_MAX
        /\ r.upgrade \in BOOLEAN /\ r.returned \in BOOLEAN /\ r.out \in Seq(Events(S))
    BY <1>0, HttpParserAssumption DEF Going, Halted, Typed, IsParser, Fields, Plain, States,
       BodyStates, ULLONG_MAX,
       ChunkDataDone, SET_ERRNO
  <1> QED
    BY <1>0, <1>1, <1>2, PlainStep

\* The line feed behind the headers, looked at again.
LEMMA HeadersDoneStep ==
  ASSUME NEW S, NEW n \in Nat, NEW s, Going(S, n, s), s.mark = "none", NEW ch,
         s.state \in Plain
  PROVE  Stepped(S, n, s, HeadersDone(s, ch))
  <1>0. PICK r : r = HeadersDone(s, ch)
    OBVIOUS
  <1>1. IsParser(r)
    BY <1>0 DEF Going, Typed, IsParser, HeadersDone, MessageComplete, Notify, NEW_MESSAGE, To,
       SET_ERRNO
  <1>2. /\ r.state \in States
        /\ r.errno = "OK" => r.state \in Plain \cup {"s_body_identity", "s_chunk_data"}
        /\ r.state \in {"s_body_identity", "s_chunk_data"} => r.content_length # 0
        /\ r.mark = "none" /\ r.pos = s.pos /\ r.from = s.from /\ r.resumed = s.resumed
        /\ r.nread \in {0, s.nread} /\ r.content_length \in 0 .. ULLONG_MAX
        /\ r.upgrade \in BOOLEAN /\ r.returned \in BOOLEAN /\ r.out \in Seq(Events(S))
    BY <1>0, HttpParserAssumption, NotifyFacts DEF Going, Halted, Typed, IsParser, Fields, Plain,
       States, BodyStates, ULLONG_MAX,
       HeadersDone, MessageComplete, Notify, NEW_MESSAGE, To, SET_ERRNO
  <1> QED
    BY <1>0, <1>1, <1>2, PlainStep

\* A digit of the size of a chunk, or what ends it.
LEMMA ChunkSizeStep ==
  ASSUME NEW S, NEW n \in Nat, NEW s, Going(S, n, s), s.mark = "none", NEW ch,
         s.state = "s_chunk_size"
  PROVE  Stepped(S, n, s, ChunkSize(s, ch))
  <1>1. IsParser(s) /\ s.content_length \in 0 .. ULLONG_MAX
    BY DEF Going, Typed
  <1>2. CASE ch \in HexDigits
    <2>1. Value[ch] \in Nat
      BY <1>2 DEF Value, HexDigits, Digits
    <2>2. PICK r : r = Grow(s, 16, Value[ch], "INVALID_CONTENT_LENGTH")
      OBVIOUS
    <2>3. /\ IsParser(r) /\ r.content_length \in 0 .. ULLONG_MAX
          /\ \A f \in Fields \ {"content_length", "errno"} : r[f] = s[f]
      BY <1>1, <2>1, <2>2, GrowFacts
    <2>4. ChunkSize(s, ch) = r
      BY <1>2, <2>2 DEF ChunkSize, HexDigits, Digits
    <2>5. /\ r.state = "s_chunk_size" /\ r.mark = s.mark /\ r.pos = s.pos /\ r.from = s.from
          /\ r.resumed = s.resumed /\ r.nread = s.nread /\ r.upgrade = s.upgrade
          /\ r.returned = s.returned /\ r.out = s.out
      BY <2>3 DEF Fields
    <2>6. Stepped(S, n, s, r)
      BY <2>3, <2>5, PlainStep DEF Going, Typed, Plain
    <2> QED
      BY <2>4, <2>6
  <1>3. CASE ch \notin HexDigits
    <2>1. PICK r : r = ChunkSize(s, ch)
      OBVIOUS
    <2>2. IsParser(r)
      BY <1>1, <1>3, <2>1 DEF IsParser, ChunkSize, To, SET_ERRNO, HexDigits, Digits
    <2>3. /\ r.state \in Plain /\ r.mark = s.mark /\ r.pos = s.pos /\ r.from = s.from
          /\ r.resumed = s.resumed /\ r.nread = s.nread /\ r.upgrade = s.upgrade
          /\ r.content_length = s.content_length /\ r.returned = s.returned /\ r.out = s.out
      BY <1>1, <1>3, <2>1 DEF IsParser, Fields, ChunkSize, To, SET_ERRNO, HexDigits, Digits, Plain
    <2>4. r.state \notin {"s_body_identity", "s_chunk_data"} /\ r.state \in States
      BY <2>3 DEF Plain, States, BodyStates
    <2> QED
      BY <2>1, <2>2, <2>3, <2>4, PlainStep DEF Going, Typed
  <1> QED
    BY <1>2, <1>3

\* An error leaves everything else alone.
LEMMA ErrorStep ==
  ASSUME NEW S, NEW n \in Nat, NEW s, Going(S, n, s), NEW e, e # "OK"
  PROVE  Stepped(S, n, s, SET_ERRNO(s, e))
  BY DEF Going, Stepped, Typed, IsParser, Halted, SET_ERRNO, Fields

\* The line feed behind the headers.
LEMMA HeadersAlmostDoneStep ==
  ASSUME NEW S, NEW n \in Nat, NEW s, Going(S, n, s), s.mark = "none", NEW ch,
         s.state \in Plain
  PROVE  Stepped(S, n, s, HeadersAlmostDone(s, ch))
  <1>1. CASE ch # "LF"
    BY <1>1, ErrorStep DEF HeadersAlmostDone
  <1>2. CASE ch = "LF" /\ "F_TRAILING" \in s.flags
    <2>0. PICK r : r = MessageComplete(s)
      OBVIOUS
    <2>1. IsParser(r)
      BY <2>0 DEF Going, Typed, IsParser, MessageComplete, Notify, To
    <2>2. /\ r.state \in {"s_start_req", "s_dead"}
          /\ r.mark = "none" /\ r.pos = s.pos /\ r.from = s.from /\ r.resumed = s.resumed
          /\ r.nread = s.nread /\ r.content_length = s.content_length
          /\ r.upgrade = s.upgrade /\ r.returned = s.returned /\ r.out \in Seq(Events(S))
      BY <2>0, NotifyFacts DEF Going, Typed, IsParser, Fields, MessageComplete, Notify, To,
         NEW_MESSAGE
    <2>3. /\ r.state \in States /\ r.state \in Plain
          /\ r.state \notin {"s_body_identity", "s_chunk_data"}
      BY <2>2 DEF Plain, States, BodyStates
    <2>4. Stepped(S, n, s, r)
      BY <2>1, <2>2, <2>3, PlainStep DEF Going, Typed
    <2> QED
      BY <1>2, <2>0, <2>4 DEF HeadersAlmostDone
  <1>3. CASE ch = "LF" /\ "F_TRAILING" \notin s.flags
    <2>0. PICK h : h = [Notify(s, "headers_complete") EXCEPT
                          !.upgrade = "F_UPGRADE" \in s.flags \/ s.method = "CONNECT"]
      OBVIOUS
    <2>1. IsParser(h)
      BY <2>0 DEF Going, Typed, IsParser, Notify
    <2>2. /\ h.state = s.state /\ h.mark = s.mark /\ h.pos = s.pos /\ h.from = s.from
          /\ h.resumed = s.resumed /\ h.nread = s.nread /\ h.content_length = s.content_length
          /\ h.upgrade \in BOOLEAN /\ h.returned = s.returned /\ h.errno = s.errno
          /\ h.out \in Seq(Events(S))
      BY <2>0, NotifyFacts DEF Going, Typed, IsParser, Fields, Notify
    <2>3. Going(S, n, h)
      BY <2>1, <2>2 DEF Going, Typed, Halted
    <2>4. Stepped(S, n, h, HeadersDone(h, ch))
      BY <2>2, <2>3, HeadersDoneStep
    <2>5. HeadersAlmostDone(s, ch) = HeadersDone(h, ch)
      BY <1>3, <2>0 DEF HeadersAlmostDone
    <2> QED
      BY <2>2, <2>4, <2>5 DEF Stepped
  <1> QED
    BY <1>1, <1>2, <1>3

\* A state that is entered with what is marked there.
LEMMA EnterStep ==
  ASSUME NEW S, NEW n \in Nat, NEW s, Going(S, n, s), NEW r, IsParser(r),
         r.state \in UrlStates \cup Named,
         r.mark = IF r.state \in UrlStates THEN "url"
                  ELSE IF r.state = "s_header_field" THEN "header_field" ELSE "header_value",
         r.pos = s.pos, r.from \in 1 .. s.pos, r.resumed \in BOOLEAN, r.nread = s.nread,
         r.content_length \in 0 .. ULLONG_MAX,
         r.upgrade \in BOOLEAN, r.returned \in BOOLEAN, r.out \in Seq(Events(S))
  PROVE  Stepped(S, n, s, r)
  <1>1. r.state \in States /\ r.state \notin ReadsBody /\ (r.state \in UrlStates => r.state \notin Named)
    BY StateFacts
  <1>2. r.mark \in Marks
    BY DEF Marks
  <1>3. Typed(S, n, r) /\ r.nread <= HTTP_MAX_HEADER_SIZE
    BY <1>1, <1>2 DEF Going, Typed
  <1>4. Marked(r)
    BY <1>1 DEF Marked, Going, Typed, Named, ReadsBody
  <1> QED
    BY <1>3, <1>4 DEF Stepped

\* A name begins, or the headers end.
LEMMA HeaderFieldStartStep ==
  ASSUME NEW S, NEW n \in Nat, NEW s, Going(S, n, s), s.mark = "none", NEW ch,
         s.state \in Plain
  PROVE  Stepped(S, n, s, HeaderFieldStart(s, ch))
  <1>1. CASE ch = "CR"
    <2>0. PICK r : r = To(s, "s_headers_almost_done")
      OBVIOUS
    <2>1. IsParser(r)
      BY <2>0 DEF Going, Typed, IsParser, To
    <2>2. /\ r.state = "s_headers_almost_done"
          /\ r.mark = "none" /\ r.pos = s.pos /\ r.from = s.from /\ r.resumed = s.resumed
          /\ r.nread = s.nread /\ r.content_length = s.content_length
          /\ r.upgrade = s.upgrade /\ r.returned = s.returned /\ r.out = s.out
      BY <2>0 DEF Going, Typed, IsParser, Fields, To
    <2>3. /\ r.state \in States /\ r.state \in Plain
          /\ r.state \notin {"s_body_identity", "s_chunk_data"}
      BY <2>2 DEF Plain, States, BodyStates
    <2>4. Stepped(S, n, s, r)
      BY <2>1, <2>2, <2>3, PlainStep DEF Going, Typed
    <2> QED
      BY <1>1, <2>0, <2>4 DEF HeaderFieldStart, TokenBytes, HeaderNames, HexDigits, Digits
  <1>2. CASE ch = "LF"
    <2>1. HeaderFieldStart(s, ch) = HeadersAlmostDone(s, ch)
      BY <1>2 DEF HeaderFieldStart, TokenBytes, HeaderNames, HexDigits, Digits
    <2> QED
      BY <2>1, HeadersAlmostDoneStep
  <1>3. CASE ch \in TokenBytes
    <2>0. PICK r : r = [MARK(s, "header_field") EXCEPT !.state = "s_header_field",
                                                       !.header_state = HeaderState(ch)]
      OBVIOUS
    <2>1. IsParser(r)
      BY <2>0 DEF Going, Typed, IsParser, MARK
    <2>2. /\ r.state = "s_header_field" /\ r.mark = "header_field"
          /\ r.pos = s.pos /\ r.from = s.pos /\ r.resumed = FALSE
          /\ r.nread = s.nread /\ r.content_length = s.content_length
          /\ r.upgrade = s.upgrade /\ r.returned = s.returned /\ r.out = s.out
      BY <2>0 DEF Going, Typed, IsParser, Fields, MARK
    <2>3. r.state \in Named /\ r.state \notin UrlStates
      BY <2>2, StateFacts DEF Named
    <2>4. r.mark = IF r.state \in UrlStates THEN "url"
                   ELSE IF r.state = "s_header_field" THEN "header_field" ELSE "header_value"
      BY <2>2, <2>3
    <2>5. s.pos \in 1 .. n + 1
      BY DEF Going, Typed
    <2>6. r.from \in 1 .. s.pos /\ r.resumed \in BOOLEAN
      <3>1. s.pos \in 1 .. s.pos
        BY <2>5
      <3> QED
        BY <2>2, <3>1
    <2>7. /\ r.content_length \in 0 .. ULLONG_MAX /\ r.upgrade \in BOOLEAN
          /\ r.returned \in BOOLEAN /\ r.out \in Seq(Events(S))
      BY <2>2 DEF Going, Typed
    <2>8. Stepped(S, n, s, r)
      BY <2>1, <2>2, <2>3, <2>4, <2>6, <2>7, EnterStep
    <2> QED
      BY <1>3, <2>0, <2>8 DEF HeaderFieldStart, TokenBytes, HeaderNames, HexDigits, Digits
  <1>4. CASE ch \notin {"CR", "LF"} \cup TokenBytes
    <2>1. HeaderFieldStart(s, ch) = SET_ERRNO(s, "INVALID_HEADER_TOKEN")
      BY <1>4 DEF HeaderFieldStart
    <2> QED
      BY <2>1, ErrorStep
  <1> QED
    BY <1>1, <1>2, <1>3, <1>4

\* The byte behind a line of a value: it continues the value, or the header is done.
LEMMA HeaderValueLwsStep ==
  ASSUME NEW S, NEW n \in Nat, NEW s, Going(S, n, s), s.mark = "none", NEW ch
  PROVE  Stepped(S, n, s, HeaderValueLws(s, ch))
  <1>0. PICK q : q = IF ch = " " THEN "s_header_value_start" ELSE "s_header_field_start"
    OBVIOUS
  <1>1. PICK r : r = To(s, q)
    OBVIOUS
  <1>2. IsParser(r)
    BY <1>1 DEF Going, Typed, IsParser, To
  <1>3. /\ r.state = q
        /\ r.mark = "none" /\ r.pos = s.pos /\ r.from = s.from /\ r.resumed = s.resumed
        /\ r.nread = s.nread /\ r.content_length = s.content_length /\ r.errno = s.errno
        /\ r.upgrade = s.upgrade /\ r.returned = s.returned /\ r.out = s.out
    BY <1>1 DEF Going, Typed, IsParser, Fields, To
  <1>4. /\ q \in Plain /\ q \in States /\ q \notin {"s_body_identity", "s_chunk_data"}
    BY <1>0 DEF Plain, States, BodyStates
  <1>5. Stepped(S, n, s, r)
    BY <1>2, <1>3, <1>4, PlainStep DEF Going, Typed
  <1>6. CASE ch = " "
    BY <1>0, <1>1, <1>5, <1>6 DEF HeaderValueLws
  <1>7. CASE ch # " "
    <2>1. Going(S, n, r)
      BY <1>2, <1>3, <1>4 DEF Going, Typed, Halted
    <2>2. Stepped(S, n, r, HeaderFieldStart(r, ch))
      BY <1>3, <1>4, <2>1, HeaderFieldStartStep
    <2>3. HeaderValueLws(s, ch) = HeaderFieldStart(r, ch)
      BY <1>0, <1>1, <1>7 DEF HeaderValueLws
    <2> QED
      BY <1>3, <2>2, <2>3 DEF Stepped
  <1> QED
    BY <1>6, <1>7

\* Another state without a mark.
LEMMA ToStep ==
  ASSUME NEW S, NEW n \in Nat, NEW s, Going(S, n, s), s.mark = "none", NEW q \in Plain
  PROVE  Stepped(S, n, s, To(s, q))
  <1>1. PICK r : r = To(s, q)
    OBVIOUS
  <1>2. IsParser(r)
    BY <1>1 DEF Going, Typed, IsParser, To
  <1>3. /\ r.state = q
        /\ r.mark = "none" /\ r.pos = s.pos /\ r.from = s.from /\ r.resumed = s.resumed
        /\ r.nread = s.nread /\ r.content_length = s.content_length
        /\ r.upgrade = s.upgrade /\ r.returned = s.returned /\ r.out = s.out
    BY <1>1 DEF Going, Typed, IsParser, Fields, To
  <1>4. q \in States /\ q \notin {"s_body_identity", "s_chunk_data"}
    BY DEF Plain, States, BodyStates
  <1> QED
    BY <1>1, <1>2, <1>3, <1>4, PlainStep DEF Going, Typed

\* A byte that changes nothing.
LEMMA StayStep ==
  ASSUME NEW S, NEW n \in Nat, NEW s, Going(S, n, s), Marked(s)
  PROVE  Stepped(S, n, s, s)
  BY DEF Going, Stepped

\* A piece of data more keeps the callbacks what they are.
LEMMA DeliveredTyped ==
  ASSUME NEW S, NEW out \in Seq(Events(S)), NEW kind \in Marks, NEW bytes \in Seq(S), NEW continues
  PROVE  Delivered(out, kind, bytes, continues) \in Seq(Events(S))
  <1>1. CASE continues /\ out # <<>> /\ out[Len(out)].kind = kind
    <2>1. Len(out) \in 1 .. Len(out) /\ Len(out) \in Nat
      BY <1>1
    <2>2. PICK e \in Events(S) : e = out[Len(out)]
      BY <2>1
    <2>3. e.bytes \o bytes \in Seq(S)
      BY DEF Events
    <2>4. [e EXCEPT !.bytes = e.bytes \o bytes] \in Events(S)
      BY <2>3 DEF Events
    <2>5. PICK d \in Events(S) : d = [e EXCEPT !.bytes = e.bytes \o bytes]
      BY <2>4
    <2>6. Delivered(out, kind, bytes, continues) = [out EXCEPT ![Len(out)] = d]
      BY <1>1, <2>2, <2>5 DEF Delivered
    <2> QED
      BY <2>1, <2>6
  <1>2. CASE ~(continues /\ out # <<>> /\ out[Len(out)].kind = kind)
    <2>1. Delivered(out, kind, bytes, continues) = Append(out, [kind |-> kind, bytes |-> bytes])
      BY <1>2 DEF Delivered
    <2>2. [kind |-> kind, bytes |-> bytes] \in Events(S)
      BY DEF Events
    <2> QED
      BY <2>1, <2>2
  <1> QED
    BY <1>1, <1>2

\* A part of the buffer.
LEMMA PartFacts ==
  ASSUME NEW S, NEW w \in Seq(S), NEW a \in Nat, NEW e \in Nat, 1 <= a, a <= e + 1, e <= Len(w)
  PROVE  /\ SubSeq(w, a, e) \in Seq(S) /\ Len(SubSeq(w, a, e)) = e - a + 1
         /\ \A k \in 1 .. e - a + 1 : SubSeq(w, a, e)[k] = w[a + k - 1]
  OBVIOUS

\* What the callbacks have been given with what is marked up to position end.
Closed(s, data, end) == Delivered(s.out, s.mark, SubSeq(data, s.from, end), s.resumed \/ s.mark = "body")

\* What has been marked goes to its callback, and the rest stays as it is.
LEMMA CloseFacts ==
  ASSUME NEW S, NEW data \in Seq(S), NEW s, IsParser(s), NEW kind \in Marks, s.mark = kind,
         s.out \in Seq(Events(S)), s.from \in Nat, NEW end \in Nat, 1 <= s.from, s.from <= end + 1,
         end <= Len(data)
  PROVE  LET r == CALLBACK_DATA(s, data, kind, end)
         IN  /\ IsParser(r)
             /\ \A f \in Fields \ {"mark", "resumed", "out"} : r[f] = s[f]
             /\ r.mark = "none" /\ ~r.resumed /\ r.resumed \in BOOLEAN
             /\ r.out = Closed(s, data, end)
             /\ r.out \in Seq(Events(S))
  <1>1. PICK o : o = Delivered(s.out, kind, SubSeq(data, s.from, end), s.resumed \/ kind = "body")
    OBVIOUS
  <1>2. SubSeq(data, s.from, end) \in Seq(S)
    BY PartFacts
  <1>3. o \in Seq(Events(S))
    BY <1>1, <1>2, DeliveredTyped
  <1>4. PICK r : r = CALLBACK_DATA(s, data, kind, end)
    OBVIOUS
  <1>5. r = [s EXCEPT !.mark = "none", !.resumed = FALSE, !.out = o]
    BY <1>1, <1>4, <1>2 DEF CALLBACK_DATA, IsParser, Fields
  <1>6. IsParser(r)
    BY <1>5 DEF IsParser
  <1>7. /\ \A f \in Fields \ {"mark", "resumed", "out"} : r[f] = s[f]
        /\ r.mark = "none" /\ ~r.resumed /\ r.resumed \in BOOLEAN /\ r.out = o
    BY <1>5 DEF IsParser, Fields
  <1>8. o = Closed(s, data, end)
    BY <1>1 DEF Closed
  <1> QED
    BY <1>3, <1>4, <1>6, <1>7, <1>8

\* The parser goes on without a mark.
LEMMA CloseGoes ==
  ASSUME NEW S, NEW data \in Seq(S), NEW n \in Nat, n = Len(data), NEW s, Going(S, n, s),
         NEW kind \in Marks, s.mark = kind, s.from <= s.pos
  PROVE  LET r == CALLBACK_DATA(s, data, kind, s.pos - 1)
         IN  /\ Going(S, n, r) /\ r.mark = "none" /\ r.pos = s.pos /\ r.state = s.state
             /\ r.header_state = s.header_state /\ r.flags = s.flags
  <1>1. IsParser(s) /\ s.out \in Seq(Events(S)) /\ s.from \in Nat /\ 1 <= s.from /\ s.pos \in 1 .. n
    BY DEF Going, Typed
  <1>2. PICK end \in Nat : end = s.pos - 1 /\ s.from <= end + 1 /\ end <= Len(data)
    BY <1>1
  <1>3. PICK r : r = CALLBACK_DATA(s, data, kind, end)
    OBVIOUS
  <1>4. /\ IsParser(r)
        /\ \A f \in Fields \ {"mark", "resumed", "out"} : r[f] = s[f]
        /\ r.mark = "none" /\ ~r.resumed /\ r.resumed \in BOOLEAN /\ r.out \in Seq(Events(S))
    BY <1>1, <1>2, <1>3, CloseFacts
  <1>5. /\ r.state = s.state /\ r.content_length = s.content_length /\ r.nread = s.nread
        /\ r.from = s.from /\ r.pos = s.pos /\ r.returned = s.returned /\ r.upgrade = s.upgrade
        /\ r.errno = s.errno /\ r.header_state = s.header_state /\ r.flags = s.flags
    BY <1>4 DEF Fields
  <1>6. Going(S, n, r)
    BY <1>4, <1>5 DEF Going, Typed, Halted
  <1> QED
    BY <1>2, <1>3, <1>4, <1>5, <1>6

\* A byte of an URL leads to another state of an URL, or to an error.
LEMMA UrlCharFacts ==
  ASSUME NEW q \in UrlStates \cup {"s_req_spaces_before_url"}, NEW ch
  PROVE  parse_url_char(q, ch) \in UrlStates \cup {"s_dead"}
  <1>1. \/ parse_url_char(q, ch) \in
            {"s_req_path", "s_req_schema", "s_req_schema_slash", "s_req_schema_slash_slash",
             "s_req_server_start", "s_req_query_string_start", "s_req_server_with_at",
             "s_req_server", "s_req_query_string", "s_req_fragment_start", "s_req_fragment", "s_dead"}
        \/ parse_url_char(q, ch) = q /\ q # "s_req_spaces_before_url"
    BY DEF parse_url_char
  <1> QED
    BY <1>1 DEF UrlStates, UrlMayEnd

\* A byte of the URL, given to the table.
LEMMA UrlCharStep ==
  ASSUME NEW S, NEW n \in Nat, NEW s, Going(S, n, s), s.mark = "url", s.from <= s.pos,
         s.state \in UrlStates \cup {"s_req_spaces_before_url"}, NEW ch
  PROVE  Stepped(S, n, s, UrlChar(s, ch))
  <1>1. PICK q \in UrlStates \cup {"s_dead"} : q = parse_url_char(s.state, ch)
    BY UrlCharFacts
  <1>2. PICK r : r = To(s, q)
    OBVIOUS
  <1>3. IsParser(r)
    BY <1>2 DEF Going, Typed, IsParser, To
  <1>4. /\ r.state = q /\ r.errno = s.errno
        /\ r.mark = "url" /\ r.pos = s.pos /\ r.from = s.from /\ r.resumed = s.resumed
        /\ r.nread = s.nread /\ r.content_length = s.content_length
        /\ r.upgrade = s.upgrade /\ r.returned = s.returned /\ r.out = s.out
    BY <1>2 DEF Going, Typed, IsParser, Fields, To
  <1>5. CASE q = "s_dead"
    <2>1. q \in States
      BY <1>5 DEF States
    <2>2. Going(S, n, r)
      BY <1>3, <1>4, <2>1 DEF Going, Typed, Halted, Marks
    <2>3. UrlChar(s, ch) = SET_ERRNO(r, "INVALID_URL")
      BY <1>1, <1>2, <1>4, <1>5 DEF UrlChar
    <2> QED
      BY <1>4, <2>2, <2>3, ErrorStep DEF Stepped
  <1>6. CASE q # "s_dead"
    <2>1. UrlChar(s, ch) = r
      BY <1>1, <1>2, <1>4, <1>6 DEF UrlChar
    <2>2. r.state \in UrlStates
      BY <1>4, <1>6
    <2>3. s.pos \in 1 .. n + 1 /\ s.from \in 1 .. n + 1
      BY DEF Going, Typed
    <2>4. r.from \in 1 .. s.pos
      BY <1>4, <2>3
    <2>5. /\ r.resumed \in BOOLEAN /\ r.content_length \in 0 .. ULLONG_MAX /\ r.upgrade \in BOOLEAN
          /\ r.returned \in BOOLEAN /\ r.out \in Seq(Events(S))
      BY <1>4 DEF Going, Typed
    <2> QED
      BY <1>3, <1>4, <2>1, <2>2, <2>4, <2>5, EnterStep
  <1> QED
    BY <1>5, <1>6

\* The URL begins.
LEMMA BeforeUrlStep ==
  ASSUME NEW S, NEW n \in Nat, NEW s, Going(S, n, s), Marked(s), s.mark = "none", NEW ch,
         s.state = "s_req_spaces_before_url"
  PROVE  Stepped(S, n, s, BeforeUrl(s, ch))
  <1>1. CASE ch = " "
    BY <1>1, StayStep DEF BeforeUrl
  <1>2. CASE ch # " "
    <2>1. PICK q : q = IF s.method = "CONNECT" THEN "s_req_server_start" ELSE s.state
      OBVIOUS
    <2>2. PICK r : r = To(MARK(s, "url"), q)
      OBVIOUS
    <2>3. IsParser(r)
      BY <2>2 DEF Going, Typed, IsParser, To, MARK
    <2>4. /\ r.state = q /\ r.errno = s.errno
          /\ r.mark = "url" /\ r.pos = s.pos /\ r.from = s.pos /\ r.resumed \in BOOLEAN
          /\ r.nread = s.nread /\ r.content_length = s.content_length
          /\ r.upgrade = s.upgrade /\ r.returned = s.returned /\ r.out = s.out
      BY <2>2 DEF Going, Typed, IsParser, Fields, To, MARK
    <2>5. q \in UrlStates \cup {"s_req_spaces_before_url"} /\ q \in States
      BY <2>1 DEF UrlStates, States
    <2>6. Going(S, n, r)
      BY <2>3, <2>4, <2>5 DEF Going, Typed, Halted, Marks
    <2>7. r.from <= r.pos
      BY <2>4 DEF Going, Typed
    <2>8. Stepped(S, n, r, UrlChar(r, ch))
      BY <2>4, <2>5, <2>6, <2>7, UrlCharStep
    <2>9. BeforeUrl(s, ch) = UrlChar(r, ch)
      BY <1>2, <2>1, <2>2 DEF BeforeUrl
    <2> QED
      BY <2>4, <2>8, <2>9 DEF Stepped
  <1> QED
    BY <1>1, <1>2

\* A byte of the URL, or what ends it.
LEMMA InUrlStep ==
  ASSUME NEW S, NEW data \in Seq(S), NEW n \in Nat, n = Len(data), NEW s, Going(S, n, s), Marked(s),
         NEW ch, s.state \in UrlStates
  PROVE  Stepped(S, n, s, InUrl(s, data, ch))
  <1>1. s.mark = "url" /\ s.from <= s.pos
    BY DEF Marked
  <1>2. PICK e : e = CALLBACK_DATA(s, data, "url", s.pos - 1)
    OBVIOUS
  <1>3. Going(S, n, e) /\ e.mark = "none" /\ e.pos = s.pos
    <2>1. "url" \in Marks
      BY DEF Marks
    <2> QED
      BY <1>1, <1>2, <2>1, CloseGoes
  <1>4. CASE s.state \in UrlMayEnd /\ ch = " "
    <2>1. InUrl(s, data, ch) = To(e, "s_req_http_start")
      BY <1>2, <1>4 DEF InUrl, EndOfLine
    <2>2. "s_req_http_start" \in Plain
      BY DEF Plain
    <2>3. Stepped(S, n, e, To(e, "s_req_http_start"))
      BY <1>3, <2>2, ToStep
    <2> QED
      BY <1>3, <2>1, <2>3 DEF Stepped
  <1>5. CASE s.state \in UrlMayEnd /\ ch \in EndOfLine
    <2>1. PICK q \in Plain : q = IF ch = "CR" THEN "s_req_line_almost_done" ELSE "s_header_field_start"
      BY DEF Plain
    <2>2. PICK r : r = [e EXCEPT !.http = <<0, 9>>, !.state = q]
      OBVIOUS
    <2>3. IsParser(r)
      BY <1>3, <2>2 DEF Going, Typed, IsParser
    <2>4. /\ r.state = q
          /\ r.mark = "none" /\ r.pos = e.pos /\ r.from = e.from /\ r.resumed = e.resumed
          /\ r.nread = e.nread /\ r.content_length = e.content_length
          /\ r.upgrade = e.upgrade /\ r.returned = e.returned /\ r.out = e.out
      BY <1>3, <2>2 DEF Going, Typed, IsParser, Fields
    <2>5. q \in States /\ q \notin {"s_body_identity", "s_chunk_data"}
      BY DEF Plain, States, BodyStates
    <2>6. Stepped(S, n, e, r)
      BY <1>3, <2>3, <2>4, <2>5, PlainStep DEF Going, Typed
    <2>7. InUrl(s, data, ch) = r
      BY <1>2, <1>5, <2>1, <2>2 DEF InUrl, EndOfLine
    <2> QED
      BY <1>3, <2>6, <2>7 DEF Stepped
  <1>6. CASE ~(s.state \in UrlMayEnd /\ ch \in EndOfLine \cup {" "})
    <2>1. InUrl(s, data, ch) = UrlChar(s, ch)
      BY <1>6 DEF InUrl
    <2> QED
      BY <1>1, <2>1, UrlCharStep
  <1> QED
    BY <1>4, <1>5, <1>6

\* A byte that leaves state and mark.
LEMMA KeepStep ==
  ASSUME NEW S, NEW n \in Nat, NEW s, Going(S, n, s), Marked(s), NEW r, IsParser(r),
         s.state \notin {"s_body_identity", "s_chunk_data"},
         r.state = s.state, r.mark = s.mark, r.pos = s.pos, r.from = s.from, r.resumed = s.resumed,
         r.nread = s.nread, r.content_length \in 0 .. ULLONG_MAX, r.upgrade = s.upgrade,
         r.returned = s.returned, r.out = s.out
  PROVE  Stepped(S, n, s, r)
  BY DEF Stepped, Going, Typed, Marked

\* A byte of a name, or the colon behind it.
LEMMA HeaderFieldStep ==
  ASSUME NEW S, NEW data \in Seq(S), NEW n \in Nat, n = Len(data), NEW s, Going(S, n, s), Marked(s),
         NEW ch, s.state = "s_header_field"
  PROVE  Stepped(S, n, s, HeaderField(s, data, ch))
  <1>1. s.mark = "header_field" /\ s.from <= s.pos
    BY DEF Marked
  <1>2. PICK e : e = CALLBACK_DATA(s, data, "header_field", s.pos - 1)
    OBVIOUS
  <1>3. Going(S, n, e) /\ e.mark = "none" /\ e.pos = s.pos
    <2>1. "header_field" \in Marks
      BY DEF Marks
    <2> QED
      BY <1>1, <1>2, <2>1, CloseGoes
  <1>4. CASE ch \in TokenBytes
    <2>1. PICK r : r = [s EXCEPT !.header_state = "h_general"]
      OBVIOUS
    <2>2. IsParser(r)
      BY <2>1 DEF Going, Typed, IsParser
    <2>3. /\ r.state = s.state /\ r.errno = s.errno
          /\ r.mark = s.mark /\ r.pos = s.pos /\ r.from = s.from /\ r.resumed = s.resumed
          /\ r.nread = s.nread /\ r.content_length = s.content_length
          /\ r.upgrade = s.upgrade /\ r.returned = s.returned /\ r.out = s.out
      BY <2>1 DEF Going, Typed, IsParser, Fields
    <2>4. Stepped(S, n, s, r)
      BY <2>2, <2>3, KeepStep DEF Going, Typed
    <2>5. HeaderField(s, data, ch) = r
      BY <1>4, <2>1 DEF HeaderField, TokenBytes, HeaderNames, HexDigits, Digits
    <2> QED
      BY <2>4, <2>5
  <1>5. CASE ch \in {":", "CR", "LF"}
    <2>1. PICK q \in Plain : q = CASE ch = ":"  -> "s_header_value_start"
                                   [] ch = "CR" -> "s_header_almost_done"
                                   [] ch = "LF" -> "s_header_field_start"
      BY <1>5 DEF Plain
    <2>2. HeaderField(s, data, ch) = To(e, q)
      BY <1>2, <1>5, <2>1 DEF HeaderField, TokenBytes, HeaderNames, HexDigits, Digits
    <2>3. Stepped(S, n, e, To(e, q))
      BY <1>3, ToStep
    <2> QED
      BY <1>3, <2>2, <2>3 DEF Stepped
  <1>6. CASE ch \notin TokenBytes \cup {":", "CR", "LF"}
    <2>1. HeaderField(s, data, ch) = SET_ERRNO(s, "INVALID_HEADER_TOKEN")
      BY <1>6 DEF HeaderField
    <2> QED
      BY <2>1, ErrorStep
  <1> QED
    BY <1>4, <1>5, <1>6

\* A value begins, or there is none.
LEMMA HeaderValueStartStep ==
  ASSUME NEW S, NEW data \in Seq(S), NEW n \in Nat, n = Len(data), NEW s, Going(S, n, s), Marked(s),
         s.mark = "none", NEW ch, s.state = "s_header_value_start"
  PROVE  Stepped(S, n, s, HeaderValueStart(s, data, ch))
  <1>1. PICK m : m = To(MARK(s, "header_value"), "s_header_value")
    OBVIOUS
  <1>2. IsParser(m)
    BY <1>1 DEF Going, Typed, IsParser, To, MARK
  <1>3. /\ m.state = "s_header_value" /\ m.mark = "header_value" /\ m.pos = s.pos /\ m.from = s.pos
        /\ m.resumed \in BOOLEAN /\ m.nread = s.nread /\ m.content_length = s.content_length
        /\ m.upgrade = s.upgrade /\ m.returned = s.returned /\ m.out = s.out /\ m.errno = s.errno
        /\ m.flags = s.flags /\ m.header_state = s.header_state
    BY <1>1 DEF Going, Typed, IsParser, Fields, To, MARK
  <1>4. m.state \in States /\ "header_value" \in Marks /\ m.state \notin UrlStates \cup ReadsBody
    BY <1>3 DEF States, Marks, UrlStates, UrlMayEnd, ReadsBody
  <1>5. Going(S, n, m)
    BY <1>2, <1>3, <1>4 DEF Going, Typed, Halted
  <1>6. m.from <= m.pos
    BY <1>3 DEF Going, Typed
  <1>7. Marked(m)
    BY <1>3, <1>4, <1>6 DEF Marked, Named, ReadsBody
  <1>8. PICK e : e = CALLBACK_DATA(m, data, "header_value", m.pos - 1)
    OBVIOUS
  <1>9. Going(S, n, e) /\ e.mark = "none" /\ e.pos = s.pos
    BY <1>3, <1>4, <1>5, <1>6, <1>8, CloseGoes
  <1>10. CASE ch = " "
    BY <1>10, StayStep DEF HeaderValueStart
  <1>11. CASE ch = "CR"
    <2>1. PICK r : r = [e EXCEPT !.header_state = "h_general", !.state = "s_header_almost_done"]
      OBVIOUS
    <2>2. IsParser(r)
      BY <1>9, <2>1 DEF Going, Typed, IsParser
    <2>3. /\ r.state = "s_header_almost_done"
          /\ r.mark = "none" /\ r.pos = e.pos /\ r.from = e.from /\ r.resumed = e.resumed
          /\ r.nread = e.nread /\ r.content_length = e.content_length
          /\ r.upgrade = e.upgrade /\ r.returned = e.returned /\ r.out = e.out
      BY <1>9, <2>1 DEF Going, Typed, IsParser, Fields
    <2>4. /\ r.state \in States /\ r.state \in Plain
          /\ r.state \notin {"s_body_identity", "s_chunk_data"}
      BY <2>3 DEF Plain, States, BodyStates
    <2>5. Stepped(S, n, e, r)
      BY <1>9, <2>2, <2>3, <2>4, PlainStep DEF Going, Typed
    <2>6. HeaderValueStart(s, data, ch) = r
      BY <1>1, <1>3, <1>8, <1>11, <2>1 DEF HeaderValueStart
    <2> QED
      BY <1>9, <2>5, <2>6 DEF Stepped
  <1>12. CASE ch = "LF"
    <2>1. HeaderValueStart(s, data, ch) = To(e, "s_header_field_start")
      BY <1>1, <1>3, <1>8, <1>12 DEF HeaderValueStart
    <2>2. "s_header_field_start" \in Plain
      BY DEF Plain
    <2>3. Stepped(S, n, e, To(e, "s_header_field_start"))
      BY <1>9, <2>2, ToStep
    <2> QED
      BY <1>9, <2>1, <2>3 DEF Stepped
  <1>13. CASE ch \notin {" ", "CR", "LF"} /\ s.header_state = "h_content_length" /\ ch \notin Digits
    <2>1. HeaderValueStart(s, data, ch) = SET_ERRNO(m, "INVALID_CONTENT_LENGTH")
      BY <1>1, <1>13 DEF HeaderValueStart
    <2>2. Stepped(S, n, m, SET_ERRNO(m, "INVALID_CONTENT_LENGTH"))
      BY <1>5, ErrorStep
    <2> QED
      BY <1>3, <2>1, <2>2 DEF Stepped
  <1>14. CASE ch \notin {" ", "CR", "LF"} /\ ~(s.header_state = "h_content_length" /\ ch \notin Digits)
    <2>1. PICK r : r = HeaderValueStart(s, data, ch)
      OBVIOUS
    <2>2. r = IF s.header_state = "h_content_length" THEN [m EXCEPT !.content_length = Value[ch]]
              ELSE [m EXCEPT !.header_state = ValueState(s.header_state, ch),
                             !.flags = IF s.header_state = "h_upgrade" THEN @ \cup {"F_UPGRADE"} ELSE @]
      BY <1>1, <1>14, <2>1 DEF HeaderValueStart
    <2>3. s.header_state = "h_content_length" => Value[ch] \in 0 .. ULLONG_MAX
      <3>1. ch \in Digits => Value[ch] \in 0 .. 10
        BY DEF Value, HexDigits, Digits
      <3>2. ULLONG_MAX \in Nat /\ 10 <= ULLONG_MAX
        BY HttpParserAssumption DEF ULLONG_MAX
      <3>3. s.header_state = "h_content_length" => Value[ch] \in 0 .. 10
        BY <1>14, <3>1
      <3>4. 0 .. 10 \subseteq 0 .. ULLONG_MAX
        BY <3>2
      <3> QED
        BY <3>3, <3>4
    <2>4. IsParser(r)
      BY <1>2, <2>2 DEF IsParser
    <2>5. /\ r.state = m.state /\ r.mark = m.mark /\ r.pos = m.pos /\ r.from = m.from
          /\ r.resumed = m.resumed /\ r.nread = m.nread
          /\ r.content_length \in {m.content_length, Value[ch]}
          /\ s.header_state # "h_content_length" => r.content_length = m.content_length
          /\ r.upgrade = m.upgrade /\ r.returned = m.returned /\ r.out = m.out
      BY <1>2, <2>2 DEF IsParser, Fields
    <2>6. r.content_length \in 0 .. ULLONG_MAX
      BY <1>5, <2>3, <2>5 DEF Going, Typed
    <2>7. Stepped(S, n, m, r)
      BY <1>3, <1>5, <1>7, <2>4, <2>5, <2>6, KeepStep
    <2> QED
      BY <1>3, <2>1, <2>7 DEF Stepped
  <1> QED
    BY <1>10, <1>11, <1>12, <1>13, <1>14

\* A byte of a value, or the end of its line.
LEMMA HeaderValueStep ==
  ASSUME NEW S, NEW data \in Seq(S), NEW n \in Nat, n = Len(data), NEW s, Going(S, n, s), Marked(s),
         NEW ch, s.state = "s_header_value"
  PROVE  Stepped(S, n, s, HeaderValue(s, data, ch))
  <1>1. s.mark = "header_value" /\ s.from <= s.pos
    BY DEF Marked
  <1>2. PICK e : e = CALLBACK_DATA(s, data, "header_value", s.pos - 1)
    OBVIOUS
  <1>3. Going(S, n, e) /\ e.mark = "none" /\ e.pos = s.pos
    <2>1. "header_value" \in Marks
      BY DEF Marks
    <2> QED
      BY <1>1, <1>2, <2>1, CloseGoes
  <1>4. PICK m : m = To(e, "s_header_almost_done")
    OBVIOUS
  <1>5. Stepped(S, n, e, m)
    <2>1. "s_header_almost_done" \in Plain
      BY DEF Plain
    <2> QED
      BY <1>3, <1>4, <2>1, ToStep
  <1>6. CASE ch = "CR"
    <2>1. HeaderValue(s, data, ch) = m
      BY <1>2, <1>4, <1>6 DEF HeaderValue
    <2> QED
      BY <1>3, <1>5, <2>1 DEF Stepped
  <1>7. CASE ch = "LF"
    <2>1. HeaderValue(s, data, ch) = HeaderAlmostDone(m, ch)
      BY <1>2, <1>4, <1>7 DEF HeaderValue
    <2>2. /\ m.mark = "none" /\ m.state = "s_header_almost_done" /\ m.errno = e.errno
          /\ m.returned = e.returned /\ m.pos = e.pos
      BY <1>3, <1>4 DEF Going, Typed, IsParser, Fields, To
    <2>3. Going(S, n, m)
      BY <1>3, <1>5, <2>2 DEF Going, Stepped, Halted
    <2>4. Stepped(S, n, m, HeaderAlmostDone(m, ch))
      BY <2>2, <2>3, HeaderAlmostDoneStep
    <2> QED
      BY <1>3, <2>1, <2>2, <2>4 DEF Stepped
  <1>8. CASE ch = " "
    BY <1>8, StayStep DEF HeaderValue
  <1>9. CASE ch \notin {" ", "CR", "LF"} /\ s.header_state # "h_content_length"
    <2>1. PICK r : r = [s EXCEPT !.header_state = "h_general"]
      OBVIOUS
    <2>2. IsParser(r)
      BY <2>1 DEF Going, Typed, IsParser
    <2>3. /\ r.state = s.state /\ r.errno = s.errno
          /\ r.mark = s.mark /\ r.pos = s.pos /\ r.from = s.from /\ r.resumed = s.resumed
          /\ r.nread = s.nread /\ r.content_length = s.content_length
          /\ r.upgrade = s.upgrade /\ r.returned = s.returned /\ r.out = s.out
      BY <2>1 DEF Going, Typed, IsParser, Fields
    <2>4. Stepped(S, n, s, r)
      BY <2>2, <2>3, KeepStep DEF Going, Typed
    <2>5. HeaderValue(s, data, ch) = r
      BY <1>9, <2>1 DEF HeaderValue
    <2> QED
      BY <2>4, <2>5
  <1>10. CASE ch \in Digits /\ s.header_state = "h_content_length"
    <2>1. IsParser(s) /\ s.content_length \in 0 .. ULLONG_MAX
      BY DEF Going, Typed
    <2>2. Value[ch] \in Nat
      BY <1>10 DEF Value, HexDigits, Digits
    <2>3. PICK r : r = Grow(s, 10, Value[ch], "INVALID_CONTENT_LENGTH")
      OBVIOUS
    <2>4. /\ IsParser(r) /\ r.content_length \in 0 .. ULLONG_MAX
          /\ \A f \in Fields \ {"content_length", "errno"} : r[f] = s[f]
      BY <2>1, <2>2, <2>3, GrowFacts
    <2>5. HeaderValue(s, data, ch) = r
      BY <1>10, <2>3 DEF HeaderValue, Digits
    <2>6. /\ r.state = s.state /\ r.mark = s.mark /\ r.pos = s.pos /\ r.from = s.from
          /\ r.resumed = s.resumed /\ r.nread = s.nread /\ r.upgrade = s.upgrade
          /\ r.returned = s.returned /\ r.out = s.out
      BY <2>4 DEF Fields
    <2>7. Stepped(S, n, s, r)
      BY <2>4, <2>6, KeepStep
    <2> QED
      BY <2>5, <2>7
  <1>11. CASE ch \notin Digits \cup {" ", "CR", "LF"} /\ s.header_state = "h_content_length"
    <2>1. HeaderValue(s, data, ch) = SET_ERRNO(s, "INVALID_CONTENT_LENGTH")
      BY <1>11 DEF HeaderValue
    <2> QED
      BY <2>1, ErrorStep
  <1> QED
    BY <1>6, <1>7, <1>8, <1>9, <1>10, <1>11

\* The least of some numbers.
LEMMA MinFacts ==
  ASSUME NEW T \in SUBSET Nat, T # {}
  PROVE  Min(T) \in T /\ \A y \in T : Min(T) <= y
  BY LeastElement DEF Min

\* As much of a body as the buffer has.
LEMMA ReadBodyFacts ==
  ASSUME NEW S, NEW data \in Seq(S), NEW n \in Nat, n = Len(data), NEW s, Going(S, n, s), Marked(s),
         s.state \in {"s_body_identity", "s_chunk_data"}
  PROVE  LET r == ReadBody(s, data)
         IN  /\ IsParser(r)
             /\ \A f \in {"state", "header_state", "flags", "nread", "http", "method", "upgrade",
                          "errno", "returned", "out"} : r[f] = s[f]
             /\ r.mark = "body" /\ r.from \in 1 .. s.pos /\ r.resumed \in BOOLEAN
             /\ s.mark = "body" => r.from = s.from /\ r.resumed = s.resumed
             /\ s.mark # "body" => r.from = s.pos /\ ~r.resumed
             /\ r.content_length \in 0 .. s.content_length
             /\ r.pos \in s.pos .. n
             /\ r.pos - s.pos + 1 = s.content_length - r.content_length
             /\ r.content_length = 0 \/ r.pos = n
             /\ s.content_length <= n - s.pos + 1 => r.content_length = 0
  <1>1. /\ IsParser(s) /\ s.content_length \in Nat \ {0} /\ s.pos \in 1 .. n /\ s.from \in 1 .. n + 1
        /\ s.mark \in {"none", "body"}
        /\ s.mark # "none" => s.from <= s.pos
        /\ s.resumed \in BOOLEAN
    BY HttpParserAssumption DEF Going, Typed, Marked, ReadsBody, ULLONG_MAX
  <1>2. PICK k \in Nat : k = Min({s.content_length, Len(data) - s.pos + 1})
    <2>1. {s.content_length, Len(data) - s.pos + 1} \in SUBSET Nat
      BY <1>1
    <2> QED
      BY <2>1, MinFacts
  <1>3. /\ k = s.content_length \/ k = n - s.pos + 1
        /\ k <= s.content_length /\ k <= n - s.pos + 1
    <2>1. {s.content_length, Len(data) - s.pos + 1} \in SUBSET Nat
      BY <1>1
    <2> QED
      BY <1>2, <2>1, MinFacts
  <1>4. PICK r : r = ReadBody(s, data)
    OBVIOUS
  <1>5. r = [MARK(s, "body") EXCEPT !.content_length = @ - k, !.pos = @ + k - 1]
    BY <1>2, <1>4 DEF ReadBody
  <1>6. IsParser(r)
    BY <1>1, <1>5 DEF IsParser, MARK
  <1>7. /\ \A f \in {"state", "header_state", "flags", "nread", "http", "method", "upgrade",
                     "errno", "returned", "out"} : r[f] = s[f]
        /\ r.mark = "body" /\ r.resumed \in BOOLEAN
        /\ s.mark = "body" => r.from = s.from /\ r.resumed = s.resumed
        /\ s.mark # "body" => r.from = s.pos /\ ~r.resumed
        /\ r.content_length = s.content_length - k /\ r.pos = s.pos + k - 1
    <2>1. CASE s.mark = "body"
      <3>1. r = [s EXCEPT !.content_length = @ - k, !.pos = @ + k - 1]
        BY <1>5, <2>1 DEF MARK
      <3> QED
        BY <1>1, <2>1, <3>1 DEF IsParser, Fields
    <2>2. CASE s.mark = "none"
      <3>1. PICK m : m = [s EXCEPT !.mark = "body", !.from = s.pos, !.resumed = FALSE]
        OBVIOUS
      <3>2. /\ \A f \in Fields \ {"mark", "from", "resumed"} : m[f] = s[f]
            /\ m.mark = "body" /\ m.from = s.pos /\ ~m.resumed /\ m.resumed \in BOOLEAN
            /\ IsParser(m)
        BY <1>1, <3>1 DEF IsParser, Fields
      <3>3. r = [m EXCEPT !.content_length = @ - k, !.pos = @ + k - 1]
        BY <1>5, <2>2, <3>1 DEF MARK
      <3> QED
        BY <2>2, <3>2, <3>3 DEF IsParser, Fields
    <2> QED
      BY <1>1, <2>1, <2>2
  <1>8. r.from \in 1 .. s.pos
    BY <1>1, <1>7
  <1>9. /\ r.content_length \in 0 .. s.content_length /\ r.pos \in s.pos .. n
        /\ r.pos - s.pos + 1 = s.content_length - r.content_length
        /\ r.content_length = 0 \/ r.pos = n
        /\ s.content_length <= n - s.pos + 1 => r.content_length = 0
    <2>1. s.content_length \in Nat /\ s.pos \in Nat /\ 1 <= s.pos /\ s.pos <= n
      BY <1>1
    <2>2. k >= 1
      BY <1>1, <1>3
    <2>3. r.content_length = s.content_length - k /\ r.pos = s.pos + k - 1
      BY <1>7
    <2> QED
      BY <1>3, <2>1, <2>2, <2>3
  <1> QED
    BY <1>4, <1>6, <1>7, <1>8, <1>9

\* A round that took a byte, or as much of a body as there was.
Moved(S, n, s, r) ==
  /\ Typed(S, n, r) /\ r.nread <= HTTP_MAX_HEADER_SIZE /\ r.pos \in s.pos .. n
  /\ ~Halted(r) => Marked(r)

\* A piece of a chunk.
LEMMA ChunkDataStep ==
  ASSUME NEW S, NEW data \in Seq(S), NEW n \in Nat, n = Len(data), NEW s, Going(S, n, s), Marked(s),
         s.state = "s_chunk_data"
  PROVE  Moved(S, n, s, ChunkData(s, data))
  <1>1. PICK r : r = ReadBody(s, data)
    OBVIOUS
  <1>2. /\ IsParser(r)
        /\ \A f \in {"state", "header_state", "flags", "nread", "http", "method", "upgrade",
                     "errno", "returned", "out"} : r[f] = s[f]
        /\ r.mark = "body" /\ r.from \in 1 .. s.pos /\ r.resumed \in BOOLEAN
        /\ r.content_length \in 0 .. s.content_length
        /\ r.pos \in s.pos .. n
    BY <1>1, ReadBodyFacts
  <1>3. PICK q : q = IF r.content_length = 0 THEN "s_chunk_data_almost_done" ELSE "s_chunk_data"
    OBVIOUS
  <1>4. PICK t : t = ChunkData(s, data)
    OBVIOUS
  <1>5. r.state = "s_chunk_data"
    BY <1>2
  <1>6. t = IF r.content_length = 0 THEN To(r, "s_chunk_data_almost_done") ELSE r
    BY <1>1, <1>4 DEF ChunkData
  <1>7. IsParser(t)
    BY <1>2, <1>6 DEF IsParser, To
  <1>8. /\ t.state = q /\ t.mark = "body" /\ t.from = r.from /\ t.resumed = r.resumed
        /\ t.nread = s.nread /\ t.upgrade = s.upgrade /\ t.returned = s.returned /\ t.out = s.out
        /\ t.content_length = r.content_length /\ t.pos = r.pos
    BY <1>2, <1>3, <1>5, <1>6 DEF IsParser, Fields, To
  <1>9. q \in States /\ q \in ReadsBody
    BY <1>3 DEF States, BodyStates, ReadsBody
  <1>10. /\ s.pos \in 1 .. n /\ s.content_length \in 0 .. ULLONG_MAX /\ ULLONG_MAX \in Nat
    BY HttpParserAssumption DEF Going, Typed, ULLONG_MAX
  <1>11. t.from \in 1 .. n + 1 /\ t.pos \in 1 .. n + 1 /\ t.content_length \in 0 .. ULLONG_MAX /\ t.from <= t.pos
    BY <1>2, <1>8, <1>10
  <1>12. Typed(S, n, t) /\ t.nread <= HTTP_MAX_HEADER_SIZE
    BY <1>2, <1>7, <1>8, <1>9, <1>11 DEF Going, Typed, Marks
  <1>13. Marked(t)
    <2>1. t.state \notin UrlStates \cup Named
      BY <1>8, <1>9, StateFacts
    <2>2. t.state \in {"s_body_identity", "s_chunk_data"} => t.content_length # 0
      BY <1>3, <1>8
    <2> QED
      BY <1>8, <1>9, <1>11, <2>1, <2>2 DEF Marked, Named
  <1> QED
    BY <1>2, <1>4, <1>8, <1>12, <1>13 DEF Moved

\* A piece of a body of a stated length.
LEMMA BodyIdentityStep ==
  ASSUME NEW S, NEW data \in Seq(S), NEW n \in Nat, n = Len(data), NEW s, Going(S, n, s), Marked(s),
         s.state = "s_body_identity"
  PROVE  Moved(S, n, s, BodyIdentity(s, data))
  <1>1. PICK r : r = ReadBody(s, data)
    OBVIOUS
  <1>2. /\ IsParser(r)
        /\ \A f \in {"state", "header_state", "flags", "nread", "http", "method", "upgrade",
                     "errno", "returned", "out"} : r[f] = s[f]
        /\ r.mark = "body" /\ r.from \in 1 .. s.pos /\ r.resumed \in BOOLEAN
        /\ r.content_length \in 0 .. s.content_length
        /\ r.pos \in s.pos .. n
    BY <1>1, ReadBodyFacts
  <1>3. /\ r.state = "s_body_identity" /\ r.nread = s.nread /\ r.upgrade = s.upgrade
        /\ r.returned = s.returned /\ r.out = s.out /\ r.errno = s.errno
    BY <1>2
  <1>4. /\ s.pos \in 1 .. n /\ s.content_length \in 0 .. ULLONG_MAX /\ ULLONG_MAX \in Nat
        /\ s.out \in Seq(Events(S))
    BY HttpParserAssumption DEF Going, Typed, ULLONG_MAX
  <1>5. /\ r.from \in 1 .. n + 1 /\ r.pos \in 1 .. n + 1 /\ r.content_length \in 0 .. ULLONG_MAX
        /\ r.from <= r.pos
    BY <1>2, <1>4
  <1>6. r.state \in States /\ r.state \in ReadsBody
    BY <1>3 DEF States, BodyStates, ReadsBody
  <1>7. Typed(S, n, r) /\ r.nread <= HTTP_MAX_HEADER_SIZE /\ ~Halted(r)
    BY <1>2, <1>3, <1>5, <1>6 DEF Going, Typed, Marks, Halted
  <1>8. CASE r.content_length # 0
    <2>1. r.state \notin UrlStates \cup Named
      BY <1>6, StateFacts
    <2>2. Marked(r)
      BY <1>2, <1>3, <1>5, <1>6, <1>8, <2>1 DEF Marked, Named
    <2>3. BodyIdentity(s, data) = r
      BY <1>1, <1>8 DEF BodyIdentity
    <2> QED
      BY <1>2, <1>7, <2>2, <2>3 DEF Moved
  <1>9. CASE r.content_length = 0
    <2>1. PICK e : e = CALLBACK_DATA(r, data, "body", r.pos)
      OBVIOUS
    <2>2. /\ r.out \in Seq(Events(S)) /\ r.from \in Nat /\ 1 <= r.from /\ r.from <= r.pos + 1
          /\ r.pos \in Nat /\ r.pos <= Len(data) /\ "body" \in Marks
      BY <1>2, <1>3, <1>4, <1>5 DEF Marks
    <2>3. /\ IsParser(e)
          /\ \A f \in Fields \ {"mark", "resumed", "out"} : e[f] = r[f]
          /\ e.mark = "none" /\ ~e.resumed /\ e.resumed \in BOOLEAN /\ e.out \in Seq(Events(S))
      BY <1>2, <2>1, <2>2, CloseFacts
    <2>4. /\ e.state = r.state /\ e.content_length = r.content_length /\ e.nread = r.nread
          /\ e.from = r.from /\ e.pos = r.pos /\ e.returned = r.returned /\ e.upgrade = r.upgrade
          /\ e.errno = r.errno
      BY <2>3 DEF Fields
    <2>5. Going(S, n, e)
      <3>1. e.pos <= n
        BY <1>2, <1>4, <2>4
      <3> QED
        BY <1>7, <2>3, <2>4, <3>1 DEF Going, Typed, Halted
    <2>6. PICK q \in Plain : q = NEW_MESSAGE(e)
      BY DEF NEW_MESSAGE, Plain
    <2>7. PICK t : t = MessageComplete(e)
      OBVIOUS
    <2>8. IsParser(t)
      BY <2>3, <2>7 DEF IsParser, MessageComplete, Notify, To
    <2>9. /\ t.state = q
          /\ t.mark = "none" /\ t.pos = e.pos /\ t.from = e.from /\ t.resumed = e.resumed
          /\ t.nread = e.nread /\ t.content_length = e.content_length
          /\ t.upgrade = e.upgrade /\ t.returned = e.returned /\ t.out \in Seq(Events(S))
      BY <2>3, <2>6, <2>7, NotifyFacts DEF IsParser, Fields, MessageComplete, Notify, To
    <2>10. q \in States /\ q \notin {"s_body_identity", "s_chunk_data"}
      BY DEF Plain, States, BodyStates
    <2>11. Stepped(S, n, e, t)
      BY <2>3, <2>5, <2>8, <2>9, <2>10, PlainStep DEF Going, Typed
    <2>12. BodyIdentity(s, data) = t
      BY <1>1, <1>9, <2>1, <2>7 DEF BodyIdentity
    <2> QED
      BY <1>2, <2>4, <2>11, <2>12 DEF Stepped, Moved
  <1> QED
    BY <1>8, <1>9

\* The carriage return behind a chunk.
LEMMA ChunkDataAlmostDoneStep ==
  ASSUME NEW S, NEW data \in Seq(S), NEW n \in Nat, n = Len(data), NEW s, Going(S, n, s), Marked(s),
         NEW ch, s.state = "s_chunk_data_almost_done"
  PROVE  Stepped(S, n, s, ChunkDataAlmostDone(s, data, ch))
  <1>1. CASE ch # "CR"
    <2>1. ChunkDataAlmostDone(s, data, ch) = SET_ERRNO(s, "STRICT")
      BY <1>1 DEF ChunkDataAlmostDone
    <2> QED
      BY <2>1, ErrorStep
  <1>2. CASE ch = "CR"
    <2>1. PICK m : m = To(s, "s_chunk_data_done")
      OBVIOUS
    <2>2. IsParser(m)
      BY <2>1 DEF Going, Typed, IsParser, To
    <2>3. /\ m.state = "s_chunk_data_done" /\ m.mark = s.mark /\ m.pos = s.pos /\ m.from = s.from
          /\ m.resumed = s.resumed /\ m.nread = s.nread /\ m.content_length = s.content_length
          /\ m.upgrade = s.upgrade /\ m.returned = s.returned /\ m.out = s.out /\ m.errno = s.errno
      BY <2>1 DEF Going, Typed, IsParser, Fields, To
    <2>4. /\ m.state \in States /\ m.state \in Plain /\ m.state \notin UrlStates \cup Named \cup ReadsBody
          /\ m.state \notin {"s_body_identity", "s_chunk_data"}
      BY <2>3 DEF States, BodyStates, Plain, UrlStates, UrlMayEnd, Named, ReadsBody
    <2>5. Going(S, n, m)
      BY <2>2, <2>3, <2>4 DEF Going, Typed, Halted
    <2>6. ChunkDataAlmostDone(s, data, ch) = CALLBACK_DATA(m, data, "body", m.pos - 1)
      BY <1>2, <2>1, <2>3 DEF ChunkDataAlmostDone
    <2>7. CASE m.mark = "body"
      <3>1. PICK e : e = CALLBACK_DATA(m, data, "body", m.pos - 1)
        OBVIOUS
      <3>2. "body" \in Marks /\ m.from <= m.pos
        BY <2>3, <2>7 DEF Marked, Marks
      <3>3. Going(S, n, e) /\ e.mark = "none" /\ e.pos = m.pos /\ e.state = m.state
        BY <2>5, <2>7, <3>1, <3>2, CloseGoes
      <3>4. Stepped(S, n, e, e)
        BY <2>4, <3>3, PlainStep DEF Going, Typed
      <3> QED
        BY <2>3, <2>6, <3>1, <3>3, <3>4 DEF Stepped
    <2>8. CASE m.mark # "body"
      <3>1. m.mark = "none"
        BY <2>3, <2>8 DEF Marked, ReadsBody
      <3>2. Stepped(S, n, m, m)
        BY <2>4, <2>5, <3>1, PlainStep DEF Going, Typed
      <3> QED
        BY <2>3, <2>6, <2>8, <3>2 DEF CALLBACK_DATA, Stepped
    <2> QED
      BY <2>7, <2>8
  <1> QED
    BY <1>1, <1>2

\* A byte of the parameters of a chunk.
LEMMA ChunkParametersStep ==
  ASSUME NEW S, NEW n \in Nat, NEW s, Going(S, n, s), Marked(s), s.mark = "none", NEW ch
  PROVE  Stepped(S, n, s, IF ch = "CR" THEN To(s, "s_chunk_size_almost_done") ELSE s)
  <1>1. CASE ch = "CR"
    <2>1. "s_chunk_size_almost_done" \in Plain
      BY DEF Plain
    <2>2. Stepped(S, n, s, To(s, "s_chunk_size_almost_done"))
      BY <2>1, ToStep
    <2> QED
      BY <1>1, <2>2
  <1>2. CASE ch # "CR"
    <2>1. Stepped(S, n, s, s)
      BY StayStep
    <2> QED
      BY <1>2, <2>1
  <1> QED
    BY <1>1, <1>2

\* A byte behind the last message of a connection that closes.
LEMMA DeadStep ==
  ASSUME NEW S, NEW n \in Nat, NEW s, Going(S, n, s), Marked(s), NEW ch
  PROVE  Stepped(S, n, s, IF ch \in EndOfLine THEN s ELSE SET_ERRNO(s, "CLOSED_CONNECTION"))
  <1>1. Stepped(S, n, s, s)
    BY StayStep
  <1>2. Stepped(S, n, s, SET_ERRNO(s, "CLOSED_CONNECTION"))
    BY ErrorStep
  <1> QED
    BY <1>1, <1>2

\* Whatever state the parser is in, a byte leaves it in one again.
LEMMA DispatchStep ==
  ASSUME NEW S, NEW data \in Seq(S), NEW n \in Nat, n = Len(data), NEW s, Going(S, n, s), Marked(s),
         NEW ch
  PROVE  Moved(S, n, s, Dispatch(s, data, ch))
  <1>0. /\ s.state \in States
        /\ \A r : Stepped(S, n, s, r) => Moved(S, n, s, r)
    BY DEF Going, Typed, Stepped, Moved
  <1>1. CASE s.state \in UrlStates
    <2>1. Dispatch(s, data, ch) = InUrl(s, data, ch)
      BY <1>1 DEF Dispatch, UrlStates, UrlMayEnd
    <2> QED
      BY <1>0, <1>1, <2>1, InUrlStep
  <1>2. CASE s.state = "s_header_field"
    <2>1. Dispatch(s, data, ch) = HeaderField(s, data, ch)
      BY <1>2 DEF Dispatch, UrlStates, UrlMayEnd
    <2> QED
      BY <1>0, <1>2, <2>1, HeaderFieldStep
  <1>3. CASE s.state = "s_header_value"
    <2>1. Dispatch(s, data, ch) = HeaderValue(s, data, ch)
      BY <1>3 DEF Dispatch, UrlStates, UrlMayEnd
    <2> QED
      BY <1>0, <1>3, <2>1, HeaderValueStep
  <1>4. CASE s.state = "s_body_identity"
    <2>1. Dispatch(s, data, ch) = BodyIdentity(s, data)
      BY <1>4 DEF Dispatch, UrlStates, UrlMayEnd
    <2> QED
      BY <1>4, <2>1, BodyIdentityStep
  <1>5. CASE s.state = "s_chunk_data"
    <2>1. Dispatch(s, data, ch) = ChunkData(s, data)
      BY <1>5 DEF Dispatch, UrlStates, UrlMayEnd
    <2> QED
      BY <1>5, <2>1, ChunkDataStep
  <1>6. CASE s.state = "s_chunk_data_almost_done"
    <2>1. Dispatch(s, data, ch) = ChunkDataAlmostDone(s, data, ch)
      BY <1>6 DEF Dispatch, UrlStates, UrlMayEnd
    <2> QED
      BY <1>0, <1>6, <2>1, ChunkDataAlmostDoneStep
  <1>7. CASE s.state \in Plain
    <2>1. s.mark = "none"
      BY <1>7, StateFacts DEF Marked
    <2>2. CASE s.state = "s_start_req"
      <3>1. Dispatch(s, data, ch) = StartReq(s, ch)
        BY <2>2 DEF Dispatch, UrlStates, UrlMayEnd
      <3> QED
        BY <1>0, <2>1, <2>2, <3>1, StartReqStep
    <2>3. CASE s.state = "s_req_spaces_before_url"
      <3>1. Dispatch(s, data, ch) = BeforeUrl(s, ch)
        BY <2>3 DEF Dispatch, UrlStates, UrlMayEnd
      <3> QED
        BY <1>0, <2>1, <2>3, <3>1, BeforeUrlStep
    <2>4. CASE s.state \in {"s_req_http_start", "s_req_http_minor", "s_req_line_almost_done"}
      <3>1. Dispatch(s, data, ch) = HttpVersion(s, ch)
        BY <2>4 DEF Dispatch, UrlStates, UrlMayEnd
      <3> QED
        BY <1>0, <2>1, <2>4, <3>1, HttpVersionStep
    <2>5. CASE s.state = "s_header_field_start"
      <3>1. Dispatch(s, data, ch) = HeaderFieldStart(s, ch)
        BY <2>5 DEF Dispatch, UrlStates, UrlMayEnd
      <3> QED
        BY <1>0, <1>7, <2>1, <3>1, HeaderFieldStartStep
    <2>6. CASE s.state = "s_header_value_start"
      <3>1. Dispatch(s, data, ch) = HeaderValueStart(s, data, ch)
        BY <2>6 DEF Dispatch, UrlStates, UrlMayEnd
      <3> QED
        BY <1>0, <2>1, <2>6, <3>1, HeaderValueStartStep
    <2>7. CASE s.state = "s_header_value_lws"
      <3>1. Dispatch(s, data, ch) = HeaderValueLws(s, ch)
        BY <2>7 DEF Dispatch, UrlStates, UrlMayEnd
      <3> QED
        BY <1>0, <2>1, <3>1, HeaderValueLwsStep
    <2>8. CASE s.state = "s_header_almost_done"
      <3>1. Dispatch(s, data, ch) = HeaderAlmostDone(s, ch)
        BY <2>8 DEF Dispatch, UrlStates, UrlMayEnd
      <3> QED
        BY <1>0, <2>1, <2>8, <3>1, HeaderAlmostDoneStep
    <2>9. CASE s.state = "s_headers_almost_done"
      <3>1. Dispatch(s, data, ch) = HeadersAlmostDone(s, ch)
        BY <2>9 DEF Dispatch, UrlStates, UrlMayEnd
      <3> QED
        BY <1>0, <1>7, <2>1, <3>1, HeadersAlmostDoneStep
    <2>10. CASE s.state = "s_chunk_size_start"
      <3>1. Dispatch(s, data, ch) = ChunkSizeStart(s, ch)
        BY <2>10 DEF Dispatch, UrlStates, UrlMayEnd
      <3> QED
        BY <1>0, <2>1, <2>10, <3>1, ChunkSizeStartStep
    <2>11. CASE s.state = "s_chunk_size"
      <3>1. Dispatch(s, data, ch) = ChunkSize(s, ch)
        BY <2>11 DEF Dispatch, UrlStates, UrlMayEnd
      <3> QED
        BY <1>0, <2>1, <2>11, <3>1, ChunkSizeStep
    <2>12. CASE s.state = "s_chunk_parameters"
      <3>1. Dispatch(s, data, ch) = IF ch = "CR" THEN To(s, "s_chunk_size_almost_done") ELSE s
        BY <2>12 DEF Dispatch, UrlStates, UrlMayEnd
      <3> QED
        BY <1>0, <2>1, <3>1, ChunkParametersStep
    <2>13. CASE s.state = "s_chunk_size_almost_done"
      <3>1. Dispatch(s, data, ch) = ChunkSizeAlmostDone(s, ch)
        BY <2>13 DEF Dispatch, UrlStates, UrlMayEnd
      <3> QED
        BY <1>0, <2>1, <2>13, <3>1, ChunkSizeAlmostDoneStep
    <2>14. CASE s.state = "s_chunk_data_done"
      <3>1. Dispatch(s, data, ch) = ChunkDataDone(s, ch)
        BY <2>14 DEF Dispatch, UrlStates, UrlMayEnd
      <3> QED
        BY <1>0, <2>1, <2>14, <3>1, ChunkDataDoneStep
    <2>15. CASE s.state \in {"s_dead", "s_message_done"}
      <3>1. Dispatch(s, data, ch) = IF ch \in EndOfLine THEN s ELSE SET_ERRNO(s, "CLOSED_CONNECTION")
        BY <2>15 DEF Dispatch, UrlStates, UrlMayEnd
      <3> QED
        BY <1>0, <3>1, DeadStep
    <2> QED
      BY <1>7, <2>2, <2>3, <2>4, <2>5, <2>6, <2>7, <2>8, <2>9, <2>10, <2>11, <2>12, <2>13, <2>14,
         <2>15 DEF Plain
  <1> QED
    BY <1>0, <1>1, <1>2, <1>3, <1>4, <1>5, <1>6, <1>7, StateFacts DEF Named, ReadsBody

\* A parser in the loop of http_parser_execute.
Inside(S, n, s) ==
  /\ Typed(S, n, s)
  /\ ~Halted(s) => Marked(s) /\ s.nread <= HTTP_MAX_HEADER_SIZE

\* The byte is counted.
Counted(s) == IF s.state \in BodyStates THEN s ELSE [s EXCEPT !.nread = @ + 1]

\* Counting changes nothing else.
LEMMA CountedFacts ==
  ASSUME NEW S, NEW n \in Nat, NEW s, Inside(S, n, s), ~Halted(s), s.pos <= n
  PROVE  LET c == Counted(s)
         IN  /\ Typed(S, n, c) /\ \A f \in Fields \ {"nread"} : c[f] = s[f]
             /\ Marked(c) /\ ~Halted(c)
  <1>1. PICK c : c = Counted(s)
    OBVIOUS
  <1>2. Typed(S, n, s) /\ IsParser(s) /\ Marked(s) /\ s.nread \in 0 .. HTTP_MAX_HEADER_SIZE
    BY HttpParserAssumption DEF Inside, Typed
  <1>3. IsParser(c)
    BY <1>1, <1>2 DEF IsParser, Counted
  <1>4. (\A f \in Fields \ {"nread"} : c[f] = s[f]) /\ c.nread \in {s.nread, s.nread + 1}
    BY <1>1, <1>2 DEF IsParser, Fields, Counted
  <1>5. /\ c.state = s.state /\ c.mark = s.mark /\ c.pos = s.pos /\ c.from = s.from
        /\ c.resumed = s.resumed /\ c.content_length = s.content_length /\ c.errno = s.errno
        /\ c.upgrade = s.upgrade /\ c.returned = s.returned /\ c.out = s.out
    BY <1>4 DEF Fields
  <1>6. c.nread \in 0 .. HTTP_MAX_HEADER_SIZE + 1
    BY <1>2, <1>4, HttpParserAssumption
  <1>7. Typed(S, n, c)
    BY <1>2, <1>3, <1>5, <1>6 DEF Typed
  <1>8. Marked(c) /\ ~Halted(c)
    BY <1>2, <1>5 DEF Marked, Halted
  <1> QED
    BY <1>1, <1>4, <1>7, <1>8

\* A round of the loop.
LEMMA RoundStep ==
  ASSUME NEW S, NEW data \in Seq(S), NEW n \in Nat, n = Len(data), NEW s, Inside(S, n, s),
         ~Halted(s),
         s.pos <= n
  PROVE  LET r == Round(s, data)
         IN  /\ Inside(S, n, r)
             /\ ~Halted(r) => r.pos > s.pos
             /\ ~Halted(r) /\ r.mark # "none" => r.from < r.pos
  <1>1. PICK c : c = Counted(s)
    OBVIOUS
  <1>2. /\ Typed(S, n, c) /\ c.pos = s.pos /\ Marked(c) /\ ~Halted(c)
    BY <1>1, CountedFacts DEF Fields
  <1>3. PICK d : d = IF c.nread > HTTP_MAX_HEADER_SIZE THEN SET_ERRNO(c, "HEADER_OVERFLOW")
                     ELSE Dispatch(c, data, data[s.pos])
    OBVIOUS
  <1>4. PICK r : r = Round(s, data)
    OBVIOUS
  <1>5. r = IF Halted(d) THEN d ELSE [d EXCEPT !.pos = @ + 1]
    BY <1>1, <1>3, <1>4 DEF Round, Onward, Counted
  <1>6. CASE c.nread > HTTP_MAX_HEADER_SIZE
    <2>1. d = SET_ERRNO(c, "HEADER_OVERFLOW")
      BY <1>3, <1>6
    <2>2. IsParser(d)
      BY <1>2, <2>1 DEF Typed, IsParser, SET_ERRNO
    <2>3. d.errno = "HEADER_OVERFLOW" /\ \A f \in Fields \ {"errno"} : d[f] = c[f]
      BY <1>2, <2>1 DEF Typed, IsParser, Fields, SET_ERRNO
    <2>4. Halted(d) /\ Typed(S, n, d)
      BY <1>2, <2>2, <2>3 DEF Halted, Typed, Fields
    <2> QED
      BY <1>4, <1>5, <2>4 DEF Inside
  <1>7. CASE c.nread <= HTTP_MAX_HEADER_SIZE
    <2>1. Going(S, n, c)
      BY <1>2, <1>7 DEF Going
    <2>2. d = Dispatch(c, data, data[s.pos])
      BY <1>2, <1>3, <1>7, HttpParserAssumption DEF Typed
    <2>3. Moved(S, n, c, d)
      BY <1>2, <2>1, <2>2, DispatchStep
    <2>4. CASE Halted(d)
      BY <1>4, <1>5, <2>3, <2>4 DEF Moved, Inside
    <2>5. CASE ~Halted(d)
      <3>1. Typed(S, n, d) /\ Marked(d) /\ d.nread <= HTTP_MAX_HEADER_SIZE /\ d.pos \in s.pos .. n
        BY <1>2, <2>3, <2>5 DEF Moved
      <3>2. r = [d EXCEPT !.pos = @ + 1]
        BY <1>5, <2>5
      <3>3. IsParser(r)
        BY <3>1, <3>2 DEF Typed, IsParser
      <3>4. /\ r.pos = d.pos + 1
            /\ r.state = d.state /\ r.mark = d.mark /\ r.nread = d.nread /\ r.from = d.from
            /\ r.resumed = d.resumed /\ r.content_length = d.content_length /\ r.errno = d.errno
            /\ r.upgrade = d.upgrade /\ r.returned = d.returned /\ r.out = d.out
        BY <3>1, <3>2 DEF Typed, IsParser, Fields
      <3>5. s.pos \in 1 .. n + 1 /\ d.from \in 1 .. n + 1
        BY <3>1 DEF Inside, Typed
      <3>6. r.pos \in 1 .. n + 1 /\ r.pos > s.pos
        BY <3>1, <3>4, <3>5
      <3>7. Typed(S, n, r) /\ ~Halted(r)
        BY <2>5, <3>1, <3>3, <3>4, <3>6 DEF Typed, Halted
      <3>8. r.mark # "none" => r.from < r.pos
        BY <3>1, <3>4, <3>5 DEF Marked
      <3>9. Marked(r)
        <4>1. r.mark # "none" => r.from <= r.pos
          BY <3>4, <3>5, <3>6, <3>8
        <4> QED
          BY <3>1, <3>4, <4>1 DEF Marked
      <3> QED
        BY <1>4, <3>1, <3>4, <3>6, <3>7, <3>8, <3>9 DEF Inside
    <2> QED
      BY <2>4, <2>5
  <1> QED
    BY <1>2, <1>6, <1>7, HttpParserAssumption DEF Typed

(***************************************************************************)
(* The loop of http_parser_execute.                                        *)
(***************************************************************************)
Advance(s, w) == IF Halted(s) \/ s.pos > Len(w) THEN s ELSE Round(s, w)

\* a is the loop over w, from s.
Loops(a, s, w) == a[0] = s /\ \A n \in 1 .. Len(w) : a[n] = Advance(a[n - 1], w)

Started(s) == [s EXCEPT !.pos = 1, !.mark = Resume(s), !.from = 1, !.resumed = TRUE]

Flushed(s, w) ==
  IF s.mark = "none" \/ Halted(s) THEN s ELSE CALLBACK_DATA(s, w, s.mark, Len(w))

Finished(s, w) ==
  [Flushed(s, w) EXCEPT !.pos = 1, !.mark = "none", !.from = 1, !.resumed = FALSE]

\* The loop's function.
Loop(f, n, b, w) == f = [j \in 0 .. n |-> IF j = 0 THEN b ELSE Advance(f[j - 1], w)]

\* The loop is there, whatever the buffer.
LEMMA LoopExists ==
  ASSUME NEW b, NEW w, Len(w) \in Nat
  PROVE  \E f : Loop(f, Len(w), b, w)
  <1>1. PICK n \in Nat : n = Len(w)
    OBVIOUS
  <1> DEFINE Good(k, f) == f = [j \in 0 .. k |-> IF j = 0 THEN b ELSE Advance(f[j - 1], w)]
             T == {k \in 0 .. n : \E f : Good(k, f)}
  <1>3. 0 \in T
    <2>1. Good(0, [j \in 0 .. 0 |-> b])
      OBVIOUS
    <2>2. 0 \in 0 .. n
      OBVIOUS
    <2> HIDE DEF Good
    <2> QED
      BY <2>1, <2>2
  <1>4. ASSUME NEW k \in T, k < n
        PROVE  k + 1 \in T
    <2>1. PICK f : Good(k, f)
      OBVIOUS
    <2>2. k + 1 \in 1 .. n /\ k \in 0 .. k /\ k \in Nat
      BY <1>4
    <2> DEFINE g == [j \in 0 .. k + 1 |-> IF j = k + 1 THEN Advance(f[k], w) ELSE f[j]]
    <2>3. \A j \in 0 .. k + 1 : g[j] = IF j = 0 THEN b ELSE Advance(g[j - 1], w)
      <3> SUFFICES ASSUME NEW j \in 0 .. k + 1
                   PROVE  g[j] = IF j = 0 THEN b ELSE Advance(g[j - 1], w)
        OBVIOUS
      <3>1. CASE j = k + 1
        <4>1. j # 0 /\ j - 1 = k /\ k \in 0 .. k + 1 /\ k # k + 1
          BY <2>2, <3>1
        <4>2. g[k] = f[k] /\ g[j] = Advance(f[k], w)
          BY <3>1, <4>1
        <4> QED
          BY <3>1, <4>1, <4>2
      <3>2. CASE j # k + 1
        <4>1. j \in 0 .. k
          BY <2>2, <3>2
        <4>2. f[j] = IF j = 0 THEN b ELSE Advance(f[j - 1], w)
          BY <2>1, <4>1
        <4>3. j # 0 => j - 1 \in 0 .. k + 1 /\ j - 1 # k + 1
          BY <2>2, <4>1
        <4> QED
          BY <3>2, <4>2, <4>3
      <3> QED
        BY <3>1, <3>2
    <2>4. Good(k + 1, g)
      <3>1. g = [j \in 0 .. k + 1 |-> g[j]]
        OBVIOUS
      <3> HIDE DEF g
      <3> QED
        BY <2>3, <3>1
    <2>5. k + 1 \in 0 .. n
      BY <2>2
    <2> HIDE DEF Good, g
    <2> QED
      BY <2>4, <2>5
  <1>5. T = 0 .. n
    <2>1. T \in SUBSET (0 .. n)
      OBVIOUS
    <2> HIDE DEF T
    <2> QED
      BY <1>3, <1>4, <2>1, BoundedInduction
  <1> QED
    <2>1. n \in T
      BY <1>5
    <2>2. \E f : Good(n, f)
      <3> HIDE DEF Good
      <3> QED
        BY <2>1
    <2> QED
      BY <1>1, <2>2 DEF Loop

\* The function that exists is the loop.
LEMMA LoopLoops ==
  ASSUME NEW n \in Nat, NEW b, NEW w, n = Len(w), NEW f, Loop(f, n, b, w)
  PROVE  Loops(f, b, w)
  <1>1. \A j \in 0 .. n : f[j] = IF j = 0 THEN b ELSE Advance(f[j - 1], w)
    BY DEF Loop
  <1>2. 0 \in 0 .. n /\ \A j \in 1 .. n : j \in 0 .. n /\ j # 0
    OBVIOUS
  <1> QED
    BY <1>1, <1>2 DEF Loops

\* A call is its start, its loop and its end.
LEMMA ExecuteUnfolds ==
  ASSUME NEW s, ~Halted(s), NEW w, Len(w) \in Nat
  PROVE  \E a : Loops(a, Started(s), w) /\ http_parser_execute(s, w) = Finished(a[Len(w)], w)
  <1>1. PICK n \in Nat : n = Len(w)
    OBVIOUS
  <1>2. PICK b : b = Started(s)
    OBVIOUS
  <1> DEFINE after == CHOOSE f : f = [j \in 0 .. n |-> IF j = 0 THEN b ELSE Advance(f[j - 1], w)]
  <1>3. Loop(after, n, b, w)
    <2>1. PICK f0 : Loop(f0, n, b, w)
      BY <1>1, LoopExists
    <2>2. f0 = [j \in 0 .. n |-> IF j = 0 THEN b ELSE Advance(f0[j - 1], w)]
      BY <2>1 DEF Loop
    <2>3. after = [j \in 0 .. n |-> IF j = 0 THEN b ELSE Advance(after[j - 1], w)]
      BY <2>2
    <2> QED
      BY <2>3 DEF Loop
  <1>4. http_parser_execute(s, w) = Finished(after[n], w)
    BY <1>1, <1>2 DEF http_parser_execute, Finished, Flushed, Started, Advance
  <1>5. PICK f : f = after
    OBVIOUS
  <1> HIDE DEF after
  <1>6. Loops(f, b, w)
    BY <1>1, <1>3, <1>5, LoopLoops
  <1> QED
    BY <1>1, <1>2, <1>4, <1>5, <1>6
\* A parser between two calls.
Rests(S, p) ==
  /\ Typed(S, 0, p) /\ p.mark = "none" /\ ~p.resumed
  /\ ~Halted(p) => /\ p.nread <= HTTP_MAX_HEADER_SIZE
                   /\ p.state \in {"s_body_identity", "s_chunk_data"} => p.content_length # 0

\* A new parser rests, whatever the bytes.
LEMMA InitRests ==
  ASSUME NEW S
  PROVE  Rests(S, http_parser_init) /\ ~Halted(http_parser_init)
  <1>1. PICK p : p = http_parser_init
    OBVIOUS
  <1>2. IsParser(p)
    BY <1>1 DEF IsParser, Fields, http_parser_init
  <1>3. /\ p.state = "s_start_req" /\ p.content_length = 0 /\ p.nread = 0 /\ p.errno = "OK"
        /\ p.mark = "none" /\ p.from = 1 /\ p.pos = 1 /\ p.out = <<>>
        /\ ~p.resumed /\ p.resumed \in BOOLEAN /\ ~p.returned /\ p.returned \in BOOLEAN
        /\ p.upgrade \in BOOLEAN
    BY <1>1 DEF http_parser_init
  <1>4. p.state \in States /\ 0 \in 0 .. ULLONG_MAX /\ 0 \in 0 .. HTTP_MAX_HEADER_SIZE + 1
    BY <1>3, HttpParserAssumption DEF States, ULLONG_MAX
  <1>5. <<>> \in Seq(Events(S))
    OBVIOUS
  <1>6. Typed(S, 0, p) /\ ~Halted(p)
    BY <1>2, <1>3, <1>4, <1>5 DEF Typed, Halted
  <1> QED
    BY <1>1, <1>3, <1>6, HttpParserAssumption DEF Rests

\* What the call makes of its locals is right for every state.
LEMMA StartedInside ==
  ASSUME NEW S, NEW p, Rests(S, p), ~Halted(p), NEW n \in Nat
  PROVE  LET s == Started(p)
         IN  /\ Inside(S, n, s) /\ ~Halted(s) /\ s.pos = 1 /\ s.from = 1 /\ s.mark = Resume(p)
             /\ s.resumed
             /\ \A f \in Fields \ {"pos", "mark", "from", "resumed"} : s[f] = p[f]
  <1>1. PICK s : s = Started(p)
    OBVIOUS
  <1>2. PICK m : m = Resume(p)
    OBVIOUS
  <1>3. Typed(S, 0, p) /\ IsParser(p)
    BY DEF Rests, Typed
  <1>4. IsParser(s)
    BY <1>1, <1>3 DEF IsParser, Started
  <1>5. /\ \A f \in Fields \ {"pos", "mark", "from", "resumed"} : s[f] = p[f]
        /\ s.pos = 1 /\ s.from = 1 /\ s.mark = m /\ s.resumed /\ s.resumed \in BOOLEAN
    BY <1>1, <1>2, <1>3 DEF IsParser, Fields, Started
  <1>6. /\ s.state = p.state /\ s.nread = p.nread /\ s.content_length = p.content_length
        /\ s.errno = p.errno /\ s.upgrade = p.upgrade /\ s.returned = p.returned /\ s.out = p.out
    BY <1>5 DEF Fields
  <1>7. m \in Marks \cup {"none"}
    BY <1>2 DEF Resume, Marks
  <1>8. Typed(S, n, s) /\ ~Halted(s)
    BY <1>3, <1>4, <1>5, <1>6, <1>7 DEF Typed, Halted
  <1>9. /\ p.state \in UrlStates => m = "url"
        /\ p.state = "s_header_field" => m = "header_field"
        /\ p.state = "s_header_value" => m = "header_value"
        /\ p.state \notin UrlStates \cup Named => m = "none"
    BY <1>2 DEF Resume, UrlStates, UrlMayEnd, Named
  <1>10. Marked(s)
    <2>1. p.state \in ReadsBody => m = "none"
      BY <1>9, StateFacts
    <2>2. p.state \in {"s_body_identity", "s_chunk_data"} => p.content_length # 0
      BY DEF Rests
    <2> QED
      BY <1>5, <1>6, <1>9, <2>1, <2>2 DEF Marked
  <1> QED
    BY <1>1, <1>2, <1>5, <1>6, <1>8, <1>10 DEF Inside, Rests

\* Every round leaves the parser inside.
LEMMA LoopInside ==
  ASSUME NEW S, NEW w \in Seq(S), NEW n \in Nat, n = Len(w), NEW s, Inside(S, n, s), NEW a,
         Loops(a, s, w)
  PROVE  \A k \in 0 .. n : Inside(S, n, a[k])
  <1> DEFINE T == {k \in 0 .. n : Inside(S, n, a[k])}
  <1>1. 0 \in T
    BY DEF Loops
  <1>2. ASSUME NEW k \in T, k < n
        PROVE  k + 1 \in T
    <2>1. k + 1 \in 1 .. n /\ k + 1 \in 0 .. n /\ (k + 1) - 1 = k /\ Inside(S, n, a[k])
      BY <1>2
    <2>2. PICK x : x = a[k]
      OBVIOUS
    <2>3. a[k + 1] = Advance(x, w)
      BY <2>1, <2>2 DEF Loops
    <2>4. Inside(S, n, Advance(x, w))
      <3>1. CASE Halted(x) \/ x.pos > n
        BY <2>1, <2>2, <3>1 DEF Advance
      <3>2. CASE ~(Halted(x) \/ x.pos > n)
        <4>1. x.pos <= n /\ ~Halted(x)
          BY <2>1, <2>2, <3>2 DEF Inside, Typed
        <4>2. Inside(S, n, Round(x, w))
          BY <2>1, <2>2, <4>1, RoundStep
        <4> QED
          BY <3>2, <4>2 DEF Advance
      <3> QED
        BY <3>1, <3>2
    <2> QED
      BY <2>1, <2>3, <2>4
  <1>3. T = 0 .. n
    <2>1. T \in SUBSET (0 .. n)
      OBVIOUS
    <2> HIDE DEF T
    <2> QED
      BY <1>1, <1>2, <2>1, BoundedInduction
  <1> QED
    BY <1>3

\* At the end of the buffer the parser rests.
LEMMA FinishedRests ==
  ASSUME NEW S, NEW w \in Seq(S), NEW n \in Nat, n = Len(w), NEW s, Inside(S, n, s)
  PROVE  Rests(S, Finished(s, w))
  <1>1. PICK e : e = Flushed(s, w)
    OBVIOUS
  <1>2. PICK r : r = Finished(s, w)
    OBVIOUS
  <1>3. r = [e EXCEPT !.pos = 1, !.mark = "none", !.from = 1, !.resumed = FALSE]
    BY <1>1, <1>2 DEF Finished
  <1>4. Typed(S, n, s) /\ IsParser(s)
    BY DEF Inside, Typed
  <1>5. /\ IsParser(e) /\ e.out \in Seq(Events(S))
        /\ \A f \in Fields \ {"mark", "resumed", "out"} : e[f] = s[f]
    <2>1. CASE s.mark = "none" \/ Halted(s)
      <3>1. e = s
        BY <1>1, <2>1 DEF Flushed
      <3> QED
        BY <1>4, <3>1 DEF Typed
    <2>2. CASE ~(s.mark = "none" \/ Halted(s))
      <3>1. PICK m : m = s.mark
        OBVIOUS
      <3>2. m \in Marks
        BY <1>4, <2>2, <3>1 DEF Typed
      <3>3. s.out \in Seq(Events(S)) /\ s.from \in Nat /\ 1 <= s.from /\ s.from <= n + 1
        BY <1>4 DEF Typed
      <3>4. e = CALLBACK_DATA(s, w, m, n)
        BY <1>1, <2>2, <3>1 DEF Flushed
      <3> QED
        BY <1>4, <3>1, <3>2, <3>3, <3>4, CloseFacts
    <2> QED
      BY <2>1, <2>2
  <1>6. IsParser(r)
    BY <1>3, <1>5 DEF IsParser
  <1>7. /\ \A f \in Fields \ {"pos", "mark", "from", "resumed"} : r[f] = e[f]
        /\ r.pos = 1 /\ r.from = 1 /\ r.mark = "none" /\ ~r.resumed /\ r.resumed \in BOOLEAN
    BY <1>3, <1>5 DEF IsParser, Fields
  <1>8. /\ r.state = s.state /\ r.nread = s.nread /\ r.content_length = s.content_length
        /\ r.errno = s.errno /\ r.upgrade = s.upgrade /\ r.returned = s.returned /\ r.out = e.out
    BY <1>5, <1>7 DEF Fields
  <1>9. Typed(S, 0, r)
    BY <1>4, <1>5, <1>6, <1>7, <1>8 DEF Typed
  <1>10. ~Halted(r) => /\ r.nread <= HTTP_MAX_HEADER_SIZE
                       /\ r.state \in {"s_body_identity", "s_chunk_data"} => r.content_length # 0
    BY <1>8 DEF Halted, Inside, Marked
  <1> QED
    BY <1>2, <1>7, <1>9, <1>10 DEF Rests

\* A call takes a parser that rests to one that does.
LEMMA ExecuteRests ==
  ASSUME NEW S, NEW p, Rests(S, p), NEW w \in Seq(S)
  PROVE  Rests(S, http_parser_execute(p, w))
  <1>1. CASE Halted(p)
    BY <1>1 DEF http_parser_execute
  <1>2. CASE ~Halted(p)
    <2>1. PICK n \in Nat : n = Len(w)
      OBVIOUS
    <2>2. PICK a : Loops(a, Started(p), w) /\ http_parser_execute(p, w) = Finished(a[Len(w)], w)
      BY <1>2, ExecuteUnfolds
    <2>3. Inside(S, n, Started(p))
      BY <1>2, StartedInside
    <2>4. Inside(S, n, a[n])
      BY <2>1, <2>2, <2>3, LoopInside
    <2> QED
      BY <2>1, <2>2, <2>4, FinishedRests
  <1> QED
    BY <1>1, <1>2

\* The parser rests between the segments, whose bytes are the stream's.
Resting ==
  /\ stream \in Streams /\ got \in 0 .. Len(stream.bytes)
  /\ Rests(Range(stream.bytes), parser)

\* What a segment is.
LEMMA SegmentFacts ==
  ASSUME NEW st \in Streams, NEW g \in Nat, NEW n \in Nat, g + n <= Len(st.bytes)
  PROVE  /\ st.bytes \in Seq(Range(st.bytes))
         /\ SubSeq(st.bytes, g + 1, g + n) \in Seq(Range(st.bytes))
         /\ Len(SubSeq(st.bytes, g + 1, g + n)) = n
  <1>1. st.bytes \in Seq(Range(st.bytes))
    BY HttpParserAssumption
  <1>2. PICK w : w = st.bytes
    OBVIOUS
  <1>3. PICK S : S = Range(st.bytes)
    OBVIOUS
  <1>4. w \in Seq(S) /\ g + 1 \in Nat /\ g + n \in Nat /\ g + n <= Len(w)
    BY <1>1, <1>2, <1>3
  <1>5. SubSeq(w, g + 1, g + n) \in Seq(S) /\ Len(SubSeq(w, g + 1, g + n)) = n
    BY <1>4, PartFacts
  <1> QED
    BY <1>1, <1>2, <1>3, <1>5

\* Every segment leaves the parser at rest.
LEMMA RestingStep ==
  ASSUME Resting, [Next]_vars
  PROVE  Resting'
  <1>1. CASE Next
    <2>1. PICK n \in 1 .. Len(stream.bytes) : Feed(n)
      BY <1>1 DEF Next
    <2>2. /\ got + n <= Len(stream.bytes) /\ got' = got + n /\ stream' = stream /\ n \in Nat /\ got \in Nat
          /\ stream \in Streams
      BY <2>1 DEF Feed, Resting
    <2>3. PICK w : w = SubSeq(stream.bytes, got + 1, got + n)
      OBVIOUS
    <2>4. w \in Seq(Range(stream.bytes))
      BY <2>2, <2>3, SegmentFacts
    <2>5. parser' = http_parser_execute(parser, w)
      BY <2>1, <2>3 DEF Feed
    <2>6. Rests(Range(stream.bytes), parser)
      BY DEF Resting
    <2>7. Rests(Range(stream.bytes), parser')
      BY <2>4, <2>5, <2>6, ExecuteRests
    <2>8. got' \in 0 .. Len(stream.bytes)
      BY <2>2 DEF Resting
    <2> QED
      BY <2>2, <2>7, <2>8 DEF Resting
  <1>2. CASE UNCHANGED vars
    BY <1>2 DEF Resting, vars
  <1> QED
    BY <1>1, <1>2

\* The parser begins at rest.
LEMMA InitResting ==
  ASSUME Init
  PROVE  Resting
  <1>1. stream \in Streams /\ got = 0 /\ parser = http_parser_init
    BY DEF Init
  <1>2. Len(stream.bytes) \in Nat
    BY <1>1, HttpParserAssumption
  <1>3. Rests(Range(stream.bytes), parser)
    BY <1>1, InitRests
  <1> QED
    BY <1>1, <1>2, <1>3 DEF Resting

\* TypeOK: between the segments of any stream, cut anywhere, the parser is in one
\* of its states, its length in its width and its count of header bytes not past
\* the limit by more than the byte that broke it.
THEOREM ParserTypeOK == Spec => []TypeOK
  <1>1. Init => Resting
    BY InitResting
  <1>2. Resting /\ [Next]_vars => Resting'
    BY RestingStep
  <1>3. Resting => TypeOK
    BY DEF Resting, Rests, Typed, TypeOK
  <1> QED
    BY <1>1, <1>2, <1>3, PTL DEF Spec

(***************************************************************************)
(* Two parsers of the same bytes: x has them all in one buffer w, z has in *)
(* its buffer d those behind the first b.                                  *)
(***************************************************************************)
Same(x, z) ==
  /\ x.state = z.state /\ x.header_state = z.header_state /\ x.flags = z.flags
  /\ x.content_length = z.content_length /\ x.nread = z.nread /\ x.http = z.http
  /\ x.method = z.method /\ x.upgrade = z.upgrade /\ x.errno = z.errno /\ x.returned = z.returned

\* Nothing is marked, and the callers have been told the same.
Level(x, z) == Same(x, z) /\ x.mark = "none" /\ z.mark = "none" /\ x.out = z.out

\* Both have marked the same byte.
Abreast(b, x, z) ==
  Same(x, z) /\ x.mark # "none" /\ z.mark = x.mark /\ x.from = z.from + b /\ x.resumed = z.resumed
  /\ x.out = z.out

\* What x has marked begins before z's buffer does: z's caller has been given that
\* part already.  Of a body, z may not have marked the rest yet.
Behind(w, b, x, z) ==
  /\ Same(x, z) /\ x.mark # "none" /\ x.from \in 1 .. b /\ z.out = Closed(x, w, b)
  /\ z.mark = x.mark /\ z.from = 1 /\ (z.resumed \/ z.mark = "body")
Fresh(w, b, x, z) ==
  /\ Same(x, z) /\ x.mark = "body" /\ x.from \in 1 .. b /\ z.out = Closed(x, w, b)
  /\ z.mark = "none" /\ z.pos = 1

Marking(w, b, x, z) == Abreast(b, x, z) \/ Behind(w, b, x, z)

\* A piece, and the same with other bytes.
LEMMA PieceFacts ==
  ASSUME NEW k, NEW u, NEW v
  PROVE  LET d == [kind |-> k, bytes |-> u]
         IN  d.kind = k /\ d.bytes = u /\ [d EXCEPT !.bytes = v] = [kind |-> k, bytes |-> v]
  OBVIOUS

\* The last of a sequence, and the same sequence with another last.
LEMMA LastFacts ==
  ASSUME NEW T, NEW out \in Seq(T), NEW d \in T, NEW f \in T
  PROVE  LET o == Append(out, d)
         IN  /\ o \in Seq(T) /\ Len(o) = Len(out) + 1 /\ o[Len(o)] = d /\ o # <<>>
             /\ [o EXCEPT ![Len(o)] = f] = Append(out, f)
  <1>1. PICK o \in Seq(T) : o = Append(out, d)
    <2>1. Append(out, d) \in Seq(T)
      OBVIOUS
    <2> QED
      BY <2>1
  <1>2. Len(o) = Len(out) + 1 /\ o[Len(o)] = d /\ o # <<>> /\ Len(out) \in Nat
    BY <1>1
  <1>3. PICK r : r = [o EXCEPT ![Len(o)] = f]
    OBVIOUS
  <1>4. r \in Seq(T) /\ Len(r) = Len(o)
    BY <1>2, <1>3
  <1>5. \A j \in 1 .. Len(r) : r[j] = Append(out, f)[j]
    <2> SUFFICES ASSUME NEW j \in 1 .. Len(r)
                 PROVE  r[j] = Append(out, f)[j]
      OBVIOUS
    <2>1. CASE j = Len(o)
      BY <1>2, <1>3, <1>4, <2>1
    <2>2. CASE j # Len(o)
      <3>1. j \in 1 .. Len(out)
        BY <1>2, <1>4, <2>2
      <3>2. r[j] = o[j]
        BY <1>2, <1>3, <1>4, <2>2
      <3>3. o[j] = out[j]
        BY <1>1, <3>1
      <3>4. Append(out, f)[j] = out[j]
        BY <3>1
      <3> QED
        BY <3>2, <3>3, <3>4
    <2> QED
      BY <2>1, <2>2
  <1>6. Append(out, f) \in Seq(T) /\ Len(Append(out, f)) = Len(r)
    BY <1>2, <1>4
  <1>7. r = Append(out, f)
    BY <1>4, <1>5, <1>6, SeqEqual
  <1> QED
    BY <1>1, <1>2, <1>3, <1>7

\* A piece of data that continues the one before, and one that begins.
Joined(out, kind, p) ==
  IF out # <<>> /\ out[Len(out)].kind = kind
  THEN [out EXCEPT ![Len(out)].bytes = @ \o p] ELSE Append(out, [kind |-> kind, bytes |-> p])
Begun(out, kind, p) == Append(out, [kind |-> kind, bytes |-> p])

\* A piece of data, and the one that continues it, are one piece.
LEMMA BegunJoined ==
  ASSUME NEW S, NEW out \in Seq(Events(S)), NEW kind \in Marks, NEW p \in Seq(S), NEW q \in Seq(S)
  PROVE  Joined(Begun(out, kind, p), kind, q) = Begun(out, kind, p \o q)
  <1>1. PICK v \in Seq(S) : v = p \o q
    <2>1. p \o q \in Seq(S)
      OBVIOUS
    <2> QED
      BY <2>1
  <1>2. PICK d : d = [kind |-> kind, bytes |-> p]
    OBVIOUS
  <1>3. PICK f : f = [kind |-> kind, bytes |-> v]
    OBVIOUS
  <1>4. d \in Events(S) /\ f \in Events(S)
    BY <1>2, <1>3 DEF Events
  <1>5. [d EXCEPT !.bytes = v] = f /\ d.kind = kind /\ d.bytes = p
    BY <1>2, <1>3, PieceFacts
  <1>6. Begun(out, kind, v) = Append(out, f)
    BY <1>3 DEF Begun
  <1>7. PICK o : o = Append(out, d)
    OBVIOUS
  <1>8. o[Len(o)] = d /\ o # <<>> /\ [o EXCEPT ![Len(o)] = f] = Append(out, f)
    BY <1>4, <1>7, LastFacts
  <1>9. Joined(o, kind, q) = [o EXCEPT ![Len(o)] = f]
    BY <1>1, <1>5, <1>8 DEF Joined
  <1>10. Begun(out, kind, p) = o
    BY <1>2, <1>7 DEF Begun
  <1> QED
    BY <1>1, <1>6, <1>8, <1>9, <1>10

\* Two pieces joined one by one are joined as one.
LEMMA JoinedTwice ==
  ASSUME NEW S, NEW out \in Seq(Events(S)), NEW kind \in Marks, NEW p \in Seq(S), NEW q \in Seq(S)
  PROVE  Joined(Joined(out, kind, p), kind, q) = Joined(out, kind, p \o q)
  <1>1. CASE out # <<>> /\ out[Len(out)].kind = kind
    <2>1. Len(out) \in 1 .. Len(out) /\ Len(out) \in Nat
      BY <1>1
    <2>2. PICK e \in Events(S) : e = out[Len(out)]
      BY <2>1
    <2>3. e.bytes \in Seq(S) /\ e = [kind |-> e.kind, bytes |-> e.bytes] /\ e.kind = kind
      BY <1>1, <2>2 DEF Events
    <2>4. PICK u \in Seq(S) : u = e.bytes \o p
      <3>1. e.bytes \o p \in Seq(S)
        BY <2>3
      <3> QED
        BY <3>1
    <2>5. PICK v : v = u \o q
      OBVIOUS
    <2>6. v = e.bytes \o (p \o q)
      <3>1. PICK a \in Seq(S) : a = e.bytes
        BY <2>3
      <3>2. (a \o p) \o q = a \o (p \o q)
        OBVIOUS
      <3> QED
        BY <2>4, <2>5, <3>1, <3>2
    <2>7. PICK d : d = [kind |-> kind, bytes |-> u]
      OBVIOUS
    <2>8. PICK f : f = [kind |-> kind, bytes |-> v]
      OBVIOUS
    <2>15. [e EXCEPT !.bytes = u] = d /\ [e EXCEPT !.bytes = v] = f
      BY <2>3, <2>7, <2>8, PieceFacts
    <2>16. [d EXCEPT !.bytes = v] = f /\ d.kind = kind /\ d.bytes = u
      BY <2>7, <2>8, PieceFacts
    <2>9. Joined(out, kind, p) = [out EXCEPT ![Len(out)] = d]
      BY <1>1, <2>2, <2>4, <2>15 DEF Joined
    <2>10. Joined(out, kind, p \o q) = [out EXCEPT ![Len(out)] = f]
      BY <1>1, <2>2, <2>6, <2>15 DEF Joined
    <2>11. PICK o : o = [out EXCEPT ![Len(out)] = d]
      OBVIOUS
    <2>12. Len(o) = Len(out) /\ o[Len(o)] = d /\ o # <<>>
      BY <1>1, <2>1, <2>11
    <2>13. Joined(o, kind, q) = [o EXCEPT ![Len(o)] = f]
      BY <2>5, <2>12, <2>16 DEF Joined
    <2>14. [o EXCEPT ![Len(o)] = f] = [out EXCEPT ![Len(out)] = f]
      BY <2>1, <2>11, <2>12
    <2> QED
      BY <2>9, <2>10, <2>11, <2>13, <2>14
  <1>2. CASE ~(out # <<>> /\ out[Len(out)].kind = kind)
    <2>1. Joined(out, kind, p) = Begun(out, kind, p) /\ Joined(out, kind, p \o q) = Begun(out, kind, p \o q)
      BY <1>2 DEF Joined, Begun
    <2> QED
      BY <2>1, BegunJoined
  <1> QED
    BY <1>1, <1>2

\* The first part of the bytes, and the second one.
Cut(S, u, d, w) == u \in Seq(S) /\ d \in Seq(S) /\ w = u \o d

\* The bytes of the parts, where they are in the whole.
LEMMA CutFacts ==
  ASSUME NEW S, NEW u, NEW d, NEW w, Cut(S, u, d, w)
  PROVE  /\ w \in Seq(S) /\ u \in Seq(S) /\ d \in Seq(S) /\ Len(u) \in Nat /\ Len(d) \in Nat
         /\ Len(w) = Len(u) + Len(d)
         /\ \A i \in 1 .. Len(u) : w[i] = u[i]
         /\ \A i \in 1 .. Len(d) : w[i + Len(u)] = d[i]
  BY DEF Cut

\* A part of the first part is that part of the whole.
LEMMA PartOfFirst ==
  ASSUME NEW S, NEW u, NEW d, NEW w, Cut(S, u, d, w), NEW a \in Nat, NEW e \in Nat, 1 <= a,
         a <= e + 1, e <= Len(u)
  PROVE  SubSeq(w, a, e) = SubSeq(u, a, e)
  <1>1. /\ w \in Seq(S) /\ u \in Seq(S) /\ Len(u) \in Nat /\ Len(d) \in Nat /\ Len(w) = Len(u) + Len(d)
        /\ \A i \in 1 .. Len(u) : w[i] = u[i]
    BY CutFacts
  <1>2. e <= Len(w)
    BY <1>1
  <1>3. PICK p \in Seq(S) : p = SubSeq(w, a, e)
    BY <1>1, <1>2, PartFacts
  <1>4. PICK q \in Seq(S) : q = SubSeq(u, a, e)
    BY <1>1, PartFacts
  <1>5. /\ Len(p) = e - a + 1 /\ Len(q) = e - a + 1
        /\ \A k \in 1 .. e - a + 1 : p[k] = w[a + k - 1] /\ q[k] = u[a + k - 1]
    BY <1>1, <1>2, <1>3, <1>4, PartFacts
  <1>6. \A k \in 1 .. Len(p) : p[k] = q[k]
    <2> SUFFICES ASSUME NEW k \in 1 .. Len(p)
                 PROVE  p[k] = q[k]
      OBVIOUS
    <2>1. k \in 1 .. e - a + 1
      BY <1>5
    <2>2. PICK i \in Int : i = a + k - 1
      BY <2>1
    <2>3. i \in 1 .. Len(u)
      BY <1>1, <2>1, <2>2
    <2>4. w[i] = u[i]
      BY <1>1, <2>3
    <2>5. p[k] = w[i] /\ q[k] = u[i]
      BY <1>5, <2>1, <2>2
    <2> QED
      BY <2>4, <2>5
  <1> QED
    BY <1>3, <1>4, <1>5, <1>6, SeqEqual

\* A part of the second part is a part of the whole, further on.
LEMMA PartOfSecond ==
  ASSUME NEW S, NEW u, NEW d, NEW w, Cut(S, u, d, w), NEW a \in Nat, NEW e \in Nat, 1 <= a,
         a <= e + 1, e <= Len(d)
  PROVE  SubSeq(w, a + Len(u), e + Len(u)) = SubSeq(d, a, e)
  <1>1. PICK b \in Nat : b = Len(u)
    BY CutFacts
  <1>2. /\ w \in Seq(S) /\ d \in Seq(S) /\ Len(d) \in Nat /\ Len(w) = b + Len(d)
        /\ \A i \in 1 .. Len(d) : w[i + b] = d[i]
    BY <1>1, CutFacts
  <1>3. a + b \in Nat /\ e + b \in Nat /\ 1 <= a + b /\ a + b <= e + b + 1 /\ e + b <= Len(w)
    BY <1>2
  <1>4. PICK p \in Seq(S) : p = SubSeq(w, a + b, e + b)
    BY <1>2, <1>3, PartFacts
  <1>5. PICK q \in Seq(S) : q = SubSeq(d, a, e)
    BY <1>2, PartFacts
  <1>6. Len(q) = e - a + 1 /\ \A k \in 1 .. e - a + 1 : q[k] = d[a + k - 1]
    BY <1>2, <1>5, PartFacts
  <1>7. /\ Len(p) = (e + b) - (a + b) + 1
        /\ \A k \in 1 .. (e + b) - (a + b) + 1 : p[k] = w[a + b + k - 1]
    BY <1>2, <1>3, <1>4, PartFacts
  <1>8. (e + b) - (a + b) + 1 = e - a + 1
    OBVIOUS
  <1>9. Len(p) = e - a + 1 /\ \A k \in 1 .. e - a + 1 : p[k] = w[a + b + k - 1]
    BY <1>7, <1>8
  <1>10. \A k \in 1 .. Len(p) : p[k] = q[k]
    <2> SUFFICES ASSUME NEW k \in 1 .. Len(p)
                 PROVE  p[k] = q[k]
      OBVIOUS
    <2>1. k \in 1 .. e - a + 1
      BY <1>9
    <2>2. PICK i \in Int : i = a + k - 1
      BY <2>1
    <2>3. i \in 1 .. Len(d) /\ a + b + k - 1 = i + b
      BY <1>2, <2>1, <2>2
    <2>4. w[i + b] = d[i]
      BY <1>2, <2>3
    <2>5. p[k] = w[i + b] /\ q[k] = d[i]
      BY <1>6, <1>9, <2>1, <2>2, <2>3
    <2> QED
      BY <2>4, <2>5
  <1> QED
    BY <1>1, <1>4, <1>5, <1>6, <1>9, <1>10, SeqEqual

\* A part that crosses the cut is its two pieces.
LEMMA PartOfBoth ==
  ASSUME NEW S, NEW u, NEW d, NEW w, Cut(S, u, d, w), NEW a \in Nat, NEW e \in Nat, 1 <= a,
         a <= Len(u), e <= Len(d)
  PROVE  SubSeq(w, a, Len(u)) \o SubSeq(d, 1, e) = SubSeq(w, a, e + Len(u))
  <1>1. PICK b \in Nat : b = Len(u)
    BY CutFacts
  <1>2. /\ w \in Seq(S) /\ d \in Seq(S) /\ Len(d) \in Nat /\ Len(w) = b + Len(d)
        /\ \A i \in 1 .. Len(d) : w[i + b] = d[i]
    BY <1>1, CutFacts
  <1>3. a <= b + 1 /\ b <= Len(w) /\ 1 <= e + 1 /\ e + b \in Nat /\ a <= e + b + 1 /\ e + b <= Len(w)
    BY <1>1, <1>2
  <1>4. PICK p \in Seq(S) : p = SubSeq(w, a, b)
    BY <1>2, <1>3, PartFacts
  <1>5. Len(p) = b - a + 1 /\ \A k \in 1 .. b - a + 1 : p[k] = w[a + k - 1]
    <2>1. w \in Seq(S) /\ 1 <= a /\ a <= b + 1 /\ b <= Len(w)
      BY <1>2, <1>3
    <2> QED
      BY <1>4, <2>1, PartFacts
  <1>6. PICK q \in Seq(S) : q = SubSeq(d, 1, e)
    <2>1. SubSeq(d, 1, e) \in Seq(S)
      BY <1>2, <1>3, PartFacts
    <2> QED
      BY <2>1
  <1>7. Len(q) = e /\ \A k \in 1 .. e : q[k] = d[k]
    <2>1. Len(q) = e - 1 + 1 /\ \A k \in 1 .. e - 1 + 1 : q[k] = d[1 + k - 1]
      BY <1>2, <1>3, <1>6, PartFacts
    <2> QED
      BY <2>1
  <1>8. PICK r \in Seq(S) : r = SubSeq(w, a, e + b)
    BY <1>2, <1>3, PartFacts
  <1>9. Len(r) = e + b - a + 1 /\ \A k \in 1 .. e + b - a + 1 : r[k] = w[a + k - 1]
    BY <1>2, <1>3, <1>8, PartFacts
  <1>10. p \o q \in Seq(S) /\ Len(p \o q) = Len(r)
    <2>1. p \o q \in Seq(S) /\ Len(p \o q) = Len(p) + Len(q)
      OBVIOUS
    <2>2. b - a + 1 + e = e + b - a + 1
      OBVIOUS
    <2> QED
      BY <1>5, <1>7, <1>9, <2>1, <2>2
  <1>11. \A k \in 1 .. Len(r) : (p \o q)[k] = r[k]
    <2> SUFFICES ASSUME NEW k \in 1 .. Len(r)
                 PROVE  (p \o q)[k] = r[k]
      OBVIOUS
    <2>1. CASE k <= Len(p)
      BY <1>1, <1>5, <1>9, <2>1
    <2>2. CASE k > Len(p)
      <3>1. k - Len(p) \in 1 .. e /\ (k - Len(p)) + b = a + k - 1
        BY <1>1, <1>5, <1>9, <2>2
      <3>2. (p \o q)[k] = q[k - Len(p)]
        BY <1>5, <1>7, <1>9, <2>2, <3>1
      <3>3. PICK i \in 1 .. e : i = k - Len(p)
        BY <3>1
      <3>5. q[i] = d[i] /\ d[i] = w[i + b]
        BY <1>2, <1>7
      <3>4. r[k] = w[a + k - 1]
        BY <1>9
      <3> QED
        BY <3>1, <3>2, <3>3, <3>4, <3>5
    <2>3. k <= Len(p) \/ k > Len(p)
      <3>1. k \in Int /\ Len(p) \in Int
        OBVIOUS
      <3> QED
        BY <3>1
    <2> QED
      BY <2>1, <2>2, <2>3
  <1>12. p \o q = r
    BY <1>10, <1>11, SeqEqual
  <1> QED
    BY <1>1, <1>4, <1>6, <1>8, <1>12

\* The same, under names.
SamePart(w, u, a, e)       == SubSeq(w, a, e) = SubSeq(u, a, e)
LaterPart(w, d, b, a, e)   == SubSeq(w, a + b, e + b) = SubSeq(d, a, e)
LongPart(w, d, b, a, e)    == SubSeq(w, a, b) \o SubSeq(d, 1, e) = SubSeq(w, a, e + b)

\* All three, under their names.
LEMMA PartsFacts ==
  ASSUME NEW S, NEW u, NEW d, NEW w, Cut(S, u, d, w), NEW b \in Nat, b = Len(u),
         NEW a \in Nat, NEW e \in Nat, 1 <= a
  PROVE  /\ a <= e + 1 /\ e <= b => SamePart(w, u, a, e)
         /\ a <= e + 1 /\ e <= Len(d) => LaterPart(w, d, b, a, e)
         /\ a <= b /\ e <= Len(d) => LongPart(w, d, b, a, e)
  <1>1. ASSUME a <= e + 1, e <= b
        PROVE  SamePart(w, u, a, e)
    BY <1>1, PartOfFirst DEF SamePart
  <1>2. ASSUME a <= e + 1, e <= Len(d)
        PROVE  LaterPart(w, d, b, a, e)
    BY <1>2, PartOfSecond DEF LaterPart
  <1>3. ASSUME a <= b, e <= Len(d)
        PROVE  LongPart(w, d, b, a, e)
    BY <1>3, PartOfBoth DEF LongPart
  <1> QED
    BY <1>1, <1>2, <1>3

\* What the callbacks are given for what x has marked, and z too, is the same.
LEMMA ClosedLinks ==
  ASSUME NEW S, NEW u, NEW d, NEW w, Cut(S, u, d, w), NEW x, NEW z, Marking(w, Len(u), x, z),
         x.mark \in Marks, x.out \in Seq(Events(S)), z.from \in Nat,
         NEW e \in Nat, 1 <= z.from, z.from <= e + 1, e <= Len(d)
  PROVE  Closed(x, w, e + Len(u)) = Closed(z, d, e)
  <1>1. PICK b \in Nat : b = Len(u)
    BY CutFacts
  <1>2. CASE Abreast(b, x, z)
    <2>1. SubSeq(w, z.from + b, e + b) = SubSeq(d, z.from, e)
      <3>1. LaterPart(w, d, b, z.from, e)
        BY <1>1, PartsFacts
      <3> QED
        BY <3>1 DEF LaterPart
    <2>2. x.from = z.from + b /\ x.mark = z.mark /\ x.resumed = z.resumed /\ x.out = z.out
      BY <1>2 DEF Abreast
    <2> QED
      BY <1>1, <2>1, <2>2 DEF Closed
  <1>3. CASE Behind(w, b, x, z)
    <2>1. /\ x.from \in 1 .. b /\ z.out = Closed(x, w, b) /\ z.mark = x.mark /\ z.from = 1
          /\ z.resumed \/ z.mark = "body"
      BY <1>3 DEF Behind
    <2>2. PICK k \in Marks : k = x.mark
      OBVIOUS
    <2>3. PICK p \in Seq(S) : p = SubSeq(w, x.from, b)
      <3>1. w \in Seq(S) /\ b <= Len(w) /\ x.from \in Nat /\ 1 <= x.from /\ x.from <= b + 1
        BY <1>1, <2>1, CutFacts
      <3>2. SubSeq(w, x.from, b) \in Seq(S)
        BY <3>1, PartFacts
      <3> QED
        BY <3>2
    <2>4. PICK q \in Seq(S) : q = SubSeq(d, 1, e)
      <3>1. d \in Seq(S)
        BY CutFacts
      <3>2. SubSeq(d, 1, e) \in Seq(S)
        BY <3>1, PartFacts
      <3> QED
        BY <3>2
    <2>5. p \o q = SubSeq(w, x.from, e + b)
      <3>1. x.from \in Nat /\ 1 <= x.from /\ x.from <= b
        BY <2>1
      <3>2. LongPart(w, d, b, x.from, e)
        BY <1>1, <3>1, PartsFacts
      <3> QED
        BY <2>3, <2>4, <3>2 DEF LongPart
    <2>6. Closed(z, d, e) = Joined(z.out, k, q)
      BY <2>1, <2>2, <2>4 DEF Closed, Delivered, Joined, Begun
    <2>7. CASE x.resumed \/ x.mark = "body"
      <3>1. z.out = Joined(x.out, k, p)
        BY <2>1, <2>2, <2>3, <2>7 DEF Closed, Delivered, Joined, Begun
      <3>2. Closed(x, w, e + b) = Joined(x.out, k, p \o q)
        BY <2>2, <2>5, <2>7 DEF Closed, Delivered, Joined, Begun
      <3> QED
        BY <1>1, <2>6, <3>1, <3>2, BegunJoined, JoinedTwice
    <2>8. CASE ~(x.resumed \/ x.mark = "body")
      <3>1. z.out = Begun(x.out, k, p)
        BY <2>1, <2>2, <2>3, <2>8 DEF Closed, Delivered, Joined, Begun
      <3>2. Closed(x, w, e + b) = Begun(x.out, k, p \o q)
        BY <2>2, <2>5, <2>8 DEF Closed, Delivered, Joined, Begun
      <3> QED
        BY <1>1, <2>6, <3>1, <3>2, BegunJoined, JoinedTwice
    <2> QED
      BY <2>7, <2>8
  <1> QED
    BY <1>1, <1>2, <1>3 DEF Marking

\* What both have marked goes to the callbacks: x is then r, and z is t.
Closing(S, u, d, w, x, z, kind, e, r, t) ==
  /\ Cut(S, u, d, w) /\ Marking(w, Len(u), x, z) /\ IsParser(x) /\ IsParser(z)
  /\ kind \in Marks /\ x.mark = kind /\ x.out \in Seq(Events(S)) /\ z.out \in Seq(Events(S))
  /\ z.from \in Nat /\ 1 <= z.from /\ e \in Nat /\ z.from <= e + 1 /\ e <= Len(d)
  /\ r = CALLBACK_DATA(x, w, kind, e + Len(u)) /\ t = CALLBACK_DATA(z, d, kind, e)

\* Then nothing is marked, and the callers have been given the same.
LEMMA CloseLinks ==
  ASSUME NEW S, NEW u, NEW d, NEW w, NEW x, NEW z, NEW kind, NEW e, NEW r, NEW t,
         Closing(S, u, d, w, x, z, kind, e, r, t)
  PROVE  Level(r, t) /\ r.pos = x.pos /\ t.pos = z.pos /\ IsParser(r) /\ IsParser(t)
  <1>0. /\ Cut(S, u, d, w) /\ Marking(w, Len(u), x, z) /\ IsParser(x) /\ IsParser(z)
        /\ kind \in Marks /\ x.mark = kind
        /\ x.out \in Seq(Events(S)) /\ z.out \in Seq(Events(S))
        /\ z.from \in Nat /\ 1 <= z.from /\ e \in Nat /\ z.from <= e + 1 /\ e <= Len(d)
        /\ r = CALLBACK_DATA(x, w, kind, e + Len(u)) /\ t = CALLBACK_DATA(z, d, kind, e)
    BY DEF Closing
  <1>1. PICK b \in Nat : b = Len(u)
    BY <1>0, CutFacts
  <1>2. PICK g \in Nat : g = e + b
    BY <1>0
  <1>3. r = CALLBACK_DATA(x, w, kind, g)
    BY <1>0, <1>1, <1>2
  <1>5. /\ w \in Seq(S) /\ d \in Seq(S) /\ g <= Len(w)
    BY <1>0, <1>1, <1>2, CutFacts
  <1>6. Same(x, z) /\ z.mark = kind
    BY <1>0 DEF Marking, Abreast, Behind
  <1>7. x.from \in Nat /\ 1 <= x.from /\ x.from <= g + 1
    BY <1>0, <1>1, <1>2 DEF Marking, Abreast, Behind
  <1>8. /\ IsParser(r) /\ \A f \in Fields \ {"mark", "resumed", "out"} : r[f] = x[f]
        /\ r.mark = "none" /\ r.out = Closed(x, w, g)
    <2>1. /\ w \in Seq(S) /\ IsParser(x) /\ kind \in Marks /\ x.mark = kind /\ x.out \in Seq(Events(S))
          /\ x.from \in Nat /\ 1 <= x.from /\ x.from <= g + 1 /\ g <= Len(w) /\ g \in Nat
      BY <1>0, <1>2, <1>5, <1>7
    <2> QED
      BY <1>3, <2>1, CloseFacts
  <1>9. /\ IsParser(t) /\ \A f \in Fields \ {"mark", "resumed", "out"} : t[f] = z[f]
        /\ t.mark = "none" /\ t.out = Closed(z, d, e)
    <2>1. /\ d \in Seq(S) /\ IsParser(z) /\ kind \in Marks /\ z.mark = kind /\ z.out \in Seq(Events(S))
          /\ z.from \in Nat /\ 1 <= z.from /\ z.from <= e + 1 /\ e <= Len(d) /\ e \in Nat
          /\ t = CALLBACK_DATA(z, d, kind, e)
      BY <1>0, <1>5, <1>6
    <2> QED
      BY <2>1, CloseFacts
  <1>10. Closed(x, w, g) = Closed(z, d, e)
    <2>1. /\ Cut(S, u, d, w) /\ Marking(w, Len(u), x, z) /\ x.mark \in Marks /\ x.out \in Seq(Events(S))
          /\ z.from \in Nat /\ 1 <= z.from /\ e \in Nat /\ z.from <= e + 1 /\ e <= Len(d)
      BY <1>0
    <2>2. Closed(x, w, e + Len(u)) = Closed(z, d, e)
      BY <2>1, ClosedLinks
    <2> QED
      BY <1>1, <1>2, <2>2
  <1>11. Same(r, t) /\ r.pos = x.pos /\ t.pos = z.pos
    BY <1>6, <1>8, <1>9 DEF Same, Fields
  <1> QED
    BY <1>8, <1>9, <1>10, <1>11 DEF Level

\* Both mark the byte they are at.
LEMMA MarkLinks ==
  ASSUME NEW b \in Nat, NEW x, NEW z, IsParser(x), IsParser(z), Level(x, z), x.pos = z.pos + b,
         NEW kind \in Marks
  PROVE  LET r == MARK(x, kind)
             t == MARK(z, kind)
         IN  Abreast(b, r, t) /\ r.pos = x.pos /\ t.pos = z.pos /\ r.mark = kind
             /\ IsParser(r) /\ IsParser(t)
  <1>1. kind # "none"
    BY DEF Marks
  <1>2. PICK r : r = MARK(x, kind)
    OBVIOUS
  <1>3. PICK t : t = MARK(z, kind)
    OBVIOUS
  <1>4. /\ r = [x EXCEPT !.mark = kind, !.from = x.pos, !.resumed = FALSE]
        /\ t = [z EXCEPT !.mark = kind, !.from = z.pos, !.resumed = FALSE]
    BY <1>2, <1>3 DEF MARK, Level
  <1>5. IsParser(r) /\ IsParser(t)
    BY <1>4 DEF IsParser
  <1>6. /\ r.mark = kind /\ t.mark = kind /\ r.from = x.pos /\ t.from = z.pos /\ r.resumed = t.resumed
        /\ r.out = x.out /\ t.out = z.out /\ r.pos = x.pos /\ t.pos = z.pos
    BY <1>4 DEF IsParser, Fields
  <1>7. Same(r, t)
    BY <1>4 DEF IsParser, Fields, Same, Level
  <1> QED
    BY <1>1, <1>2, <1>3, <1>5, <1>6, <1>7 DEF Abreast, Level

\* What is marked stays so when only the rest of the parser changes.
LEMMA KeepLinks ==
  ASSUME NEW w, NEW b, NEW x, NEW z, NEW r, NEW t, Marking(w, b, x, z), Same(r, t),
         r.mark = x.mark, r.from = x.from, r.resumed = x.resumed, r.out = x.out,
         t.mark = z.mark, t.from = z.from, t.resumed = z.resumed, t.out = z.out
  PROVE  Marking(w, b, r, t)
  BY DEF Marking, Abreast, Behind, Closed

(***************************************************************************)
(* A byte in a state without a mark: what becomes of the two.              *)
(***************************************************************************)

\* Before a request.
LEMMA StartReqLinks ==
  ASSUME NEW x, NEW z, IsParser(x), IsParser(z), Level(x, z), NEW ch
  PROVE  LET r == StartReq(x, ch)
             t == StartReq(z, ch)
         IN  Level(r, t) /\ r.pos = x.pos /\ t.pos = z.pos
  <1>1. PICK r : r = StartReq(x, ch)
    OBVIOUS
  <1>2. PICK t : t = StartReq(z, ch)
    OBVIOUS
  <1>3. Level(r, t) /\ r.pos = x.pos /\ t.pos = z.pos
    BY <1>1, <1>2 DEF IsParser, Fields, Level, Same, StartReq, To, SET_ERRNO, EndOfLine
  <1> QED
    BY <1>1, <1>2, <1>3

\* The version.
LEMMA HttpVersionLinks ==
  ASSUME NEW x, NEW z, IsParser(x), IsParser(z), Level(x, z), NEW ch
  PROVE  LET r == HttpVersion(x, ch)
             t == HttpVersion(z, ch)
         IN  Level(r, t) /\ r.pos = x.pos /\ t.pos = z.pos
  <1> DEFINE code(s) == [s_req_http_start |-> "INVALID_CONSTANT",
                         s_req_http_minor |-> "INVALID_VERSION",
                         s_req_line_almost_done |-> "LF_EXPECTED"][s.state]
  <1>1. PICK r : r = HttpVersion(x, ch)
    OBVIOUS
  <1>2. PICK t : t = HttpVersion(z, ch)
    OBVIOUS
  <1>3. x.state = z.state /\ x.http = z.http
    BY DEF Level, Same
  <1>4. AnotherDigit(x, ch) <=> AnotherDigit(z, ch)
    BY <1>3 DEF AnotherDigit
  <1>5. PICK h : h = Longer(x.http, ch)
    OBVIOUS
  <1>6. PICK v : v = Versions[ch]
    OBVIOUS
  <1>7. PICK e : e = code(x)
    OBVIOUS
  <1>8. h = Longer(z.http, ch) /\ e = code(z)
    BY <1>3, <1>5, <1>7
  <1> DEFINE both(p, q) == r = p /\ t = q
  <1>9. r = Version(x, ch) /\ t = Version(z, ch)
    BY <1>1, <1>2, HttpVersionIs
  <1>10. \/ both(x, z)
         \/ both([x EXCEPT !.http = v, !.state = "s_req_http_minor"],
                 [z EXCEPT !.http = v, !.state = "s_req_http_minor"])
         \/ both([x EXCEPT !.http = h], [z EXCEPT !.http = h])
         \/ both(To(x, "s_req_line_almost_done"), To(z, "s_req_line_almost_done"))
         \/ both(To(x, "s_header_field_start"), To(z, "s_header_field_start"))
         \/ both(SET_ERRNO(x, e), SET_ERRNO(z, e))
    BY <1>3, <1>4, <1>5, <1>6, <1>7, <1>8, <1>9 DEF Version
  <1> SUFFICES Level(r, t) /\ r.pos = x.pos /\ t.pos = z.pos
    BY <1>1, <1>2
  <1>11. CASE both(x, z)
    BY <1>11
  <1>12. CASE both([x EXCEPT !.http = v, !.state = "s_req_http_minor"],
                   [z EXCEPT !.http = v, !.state = "s_req_http_minor"])
    BY <1>12 DEF IsParser, Fields, Level, Same
  <1>13. CASE both([x EXCEPT !.http = h], [z EXCEPT !.http = h])
    BY <1>13 DEF IsParser, Fields, Level, Same
  <1>14. CASE both(To(x, "s_req_line_almost_done"),
                   To(z, "s_req_line_almost_done"))
    BY <1>14 DEF IsParser, Fields, Level, Same, To
  <1>15. CASE both(To(x, "s_header_field_start"), To(z, "s_header_field_start"))
    BY <1>15 DEF IsParser, Fields, Level, Same, To
  <1>16. CASE both(SET_ERRNO(x, e), SET_ERRNO(z, e))
    BY <1>16 DEF IsParser, Fields, Level, Same, SET_ERRNO
  <1> QED
    BY <1>10, <1>11, <1>12, <1>13, <1>14, <1>15, <1>16

\* The line feed behind a header.
LEMMA HeaderAlmostDoneLinks ==
  ASSUME NEW x, NEW z, IsParser(x), IsParser(z), Level(x, z), NEW ch
  PROVE  LET r == HeaderAlmostDone(x, ch)
             t == HeaderAlmostDone(z, ch)
         IN  Level(r, t) /\ r.pos = x.pos /\ t.pos = z.pos
  <1>1. PICK r : r = HeaderAlmostDone(x, ch)
    OBVIOUS
  <1>2. PICK t : t = HeaderAlmostDone(z, ch)
    OBVIOUS
  <1>3. Level(r, t) /\ r.pos = x.pos /\ t.pos = z.pos
    BY <1>1, <1>2 DEF IsParser, Fields, Level, Same, HeaderAlmostDone, SET_ERRNO
  <1> QED
    BY <1>1, <1>2, <1>3

\* The first digit of the size of a chunk.
LEMMA ChunkSizeStartLinks ==
  ASSUME NEW x, NEW z, IsParser(x), IsParser(z), Level(x, z), NEW ch
  PROVE  LET r == ChunkSizeStart(x, ch)
             t == ChunkSizeStart(z, ch)
         IN  Level(r, t) /\ r.pos = x.pos /\ t.pos = z.pos
  <1>1. PICK r : r = ChunkSizeStart(x, ch)
    OBVIOUS
  <1>2. PICK t : t = ChunkSizeStart(z, ch)
    OBVIOUS
  <1>3. Level(r, t) /\ r.pos = x.pos /\ t.pos = z.pos
    BY <1>1, <1>2 DEF IsParser, Fields, Level, Same, ChunkSizeStart, SET_ERRNO
  <1> QED
    BY <1>1, <1>2, <1>3

\* The size of a chunk.
LEMMA ChunkSizeLinks ==
  ASSUME NEW x, NEW z, IsParser(x), IsParser(z), Level(x, z), NEW ch
  PROVE  LET r == ChunkSize(x, ch)
             t == ChunkSize(z, ch)
         IN  Level(r, t) /\ r.pos = x.pos /\ t.pos = z.pos
  <1>1. PICK r : r = ChunkSize(x, ch)
    OBVIOUS
  <1>2. PICK t : t = ChunkSize(z, ch)
    OBVIOUS
  <1> SUFFICES Level(r, t) /\ r.pos = x.pos /\ t.pos = z.pos
    BY <1>1, <1>2
  <1>3. "CR" \notin HexDigits /\ " " \notin HexDigits /\ ";" \notin HexDigits
    BY DEF HexDigits, Digits
  <1>4. CASE ch \in HexDigits
    <2>1. PICK m : m = (x.content_length * 16 + Value[ch]) % Width
      OBVIOUS
    <2>2. x.content_length = z.content_length
      BY DEF Level, Same
    <2> DEFINE grown(s) == IF m < x.content_length \/ m = ULLONG_MAX
                           THEN SET_ERRNO(s, "INVALID_CONTENT_LENGTH")
                           ELSE [s EXCEPT !.content_length = m]
    <2>3. r = grown(x)
      BY <1>1, <1>3, <1>4, <2>1 DEF ChunkSize, Grow
    <2>4. t = grown(z)
      BY <1>2, <1>3, <1>4, <2>1, <2>2 DEF ChunkSize, Grow
    <2>5. CASE m < x.content_length \/ m = ULLONG_MAX
      <3>1. r = SET_ERRNO(x, "INVALID_CONTENT_LENGTH") /\ t = SET_ERRNO(z, "INVALID_CONTENT_LENGTH")
        BY <2>3, <2>4, <2>5
      <3> QED
        BY <3>1 DEF IsParser, Fields, Level, Same, SET_ERRNO
    <2>6. CASE ~(m < x.content_length \/ m = ULLONG_MAX)
      <3>1. r = [x EXCEPT !.content_length = m] /\ t = [z EXCEPT !.content_length = m]
        BY <2>3, <2>4, <2>6
      <3> QED
        BY <3>1 DEF IsParser, Fields, Level, Same
    <2> QED
      BY <2>5, <2>6
  <1>5. CASE ch = "CR"
    <2>1. r = To(x, "s_chunk_size_almost_done") /\ t = To(z, "s_chunk_size_almost_done")
      BY <1>1, <1>2, <1>3, <1>5 DEF ChunkSize
    <2> QED
      BY <2>1 DEF IsParser, Fields, Level, Same, To
  <1>6. CASE ch \in {" ", ";"}
    <2>1. r = To(x, "s_chunk_parameters") /\ t = To(z, "s_chunk_parameters")
      BY <1>1, <1>2, <1>3, <1>6 DEF ChunkSize
    <2> QED
      BY <2>1 DEF IsParser, Fields, Level, Same, To
  <1>7. CASE ch \notin HexDigits \cup {"CR", " ", ";"}
    <2>1. r = SET_ERRNO(x, "INVALID_CHUNK_SIZE") /\ t = SET_ERRNO(z, "INVALID_CHUNK_SIZE")
      BY <1>1, <1>2, <1>7 DEF ChunkSize
    <2> QED
      BY <2>1 DEF IsParser, Fields, Level, Same, SET_ERRNO
  <1> QED
    BY <1>4, <1>5, <1>6, <1>7

\* The line feed behind the size of a chunk.
LEMMA ChunkSizeAlmostDoneLinks ==
  ASSUME NEW x, NEW z, IsParser(x), IsParser(z), Level(x, z), NEW ch
  PROVE  LET r == ChunkSizeAlmostDone(x, ch)
             t == ChunkSizeAlmostDone(z, ch)
         IN  Level(r, t) /\ r.pos = x.pos /\ t.pos = z.pos
  <1>1. PICK r : r = ChunkSizeAlmostDone(x, ch)
    OBVIOUS
  <1>2. PICK t : t = ChunkSizeAlmostDone(z, ch)
    OBVIOUS
  <1>3. Level(r, t) /\ r.pos = x.pos /\ t.pos = z.pos
    BY <1>1, <1>2 DEF IsParser, Fields, Level, Same, ChunkSizeAlmostDone, To, SET_ERRNO
  <1> QED
    BY <1>1, <1>2, <1>3

\* The line feed behind a chunk.
LEMMA ChunkDataDoneLinks ==
  ASSUME NEW x, NEW z, IsParser(x), IsParser(z), Level(x, z), NEW ch
  PROVE  LET r == ChunkDataDone(x, ch)
             t == ChunkDataDone(z, ch)
         IN  Level(r, t) /\ r.pos = x.pos /\ t.pos = z.pos
  <1>1. PICK r : r = ChunkDataDone(x, ch)
    OBVIOUS
  <1>2. PICK t : t = ChunkDataDone(z, ch)
    OBVIOUS
  <1>3. Level(r, t) /\ r.pos = x.pos /\ t.pos = z.pos
    BY <1>1, <1>2 DEF IsParser, Fields, Level, Same, ChunkDataDone, SET_ERRNO
  <1> QED
    BY <1>1, <1>2, <1>3

\* The parameters of a chunk.
LEMMA ChunkParametersLinks ==
  ASSUME NEW x, NEW z, IsParser(x), IsParser(z), Level(x, z), NEW ch
  PROVE  LET r == IF ch = "CR" THEN To(x, "s_chunk_size_almost_done") ELSE x
             t == IF ch = "CR" THEN To(z, "s_chunk_size_almost_done") ELSE z
         IN  Level(r, t) /\ r.pos = x.pos /\ t.pos = z.pos
  <1>1. PICK r : r = IF ch = "CR" THEN To(x, "s_chunk_size_almost_done") ELSE x
    OBVIOUS
  <1>2. PICK t : t = IF ch = "CR" THEN To(z, "s_chunk_size_almost_done") ELSE z
    OBVIOUS
  <1>3. Level(r, t) /\ r.pos = x.pos /\ t.pos = z.pos
    BY <1>1, <1>2 DEF IsParser, Fields, Level, Same, To
  <1> QED
    BY <1>1, <1>2, <1>3

\* Behind the last message of a connection that closes.
LEMMA DeadLinks ==
  ASSUME NEW x, NEW z, IsParser(x), IsParser(z), Level(x, z), NEW ch
  PROVE  LET r == IF ch \in EndOfLine THEN x ELSE SET_ERRNO(x, "CLOSED_CONNECTION")
             t == IF ch \in EndOfLine THEN z ELSE SET_ERRNO(z, "CLOSED_CONNECTION")
         IN  Level(r, t) /\ r.pos = x.pos /\ t.pos = z.pos
  <1>1. PICK r : r = IF ch \in EndOfLine THEN x ELSE SET_ERRNO(x, "CLOSED_CONNECTION")
    OBVIOUS
  <1>2. PICK t : t = IF ch \in EndOfLine THEN z ELSE SET_ERRNO(z, "CLOSED_CONNECTION")
    OBVIOUS
  <1>3. Level(r, t) /\ r.pos = x.pos /\ t.pos = z.pos
    BY <1>1, <1>2 DEF IsParser, Fields, Level, Same, SET_ERRNO
  <1> QED
    BY <1>1, <1>2, <1>3

\* The end of a message.
LEMMA MessageCompleteLinks ==
  ASSUME NEW x, NEW z, IsParser(x), IsParser(z), Level(x, z)
  PROVE  LET r == MessageComplete(x)
             t == MessageComplete(z)
         IN  Level(r, t) /\ r.pos = x.pos /\ t.pos = z.pos
  <1>1. PICK r : r = MessageComplete(x)
    OBVIOUS
  <1>2. PICK t : t = MessageComplete(z)
    OBVIOUS
  <1>3. Level(r, t) /\ r.pos = x.pos /\ t.pos = z.pos
    BY <1>1, <1>2 DEF IsParser, Fields, Level, Same, MessageComplete, Notify, To, NEW_MESSAGE,
       http_should_keep_alive
  <1> QED
    BY <1>1, <1>2, <1>3

\* The end of the headers, looked at again.
LEMMA HeadersDoneLinks ==
  ASSUME NEW x, NEW z, IsParser(x), IsParser(z), Level(x, z), NEW ch
  PROVE  LET r == HeadersDone(x, ch)
             t == HeadersDone(z, ch)
         IN  Level(r, t) /\ r.pos = x.pos /\ t.pos = z.pos
  <1>1. PICK r : r = HeadersDone(x, ch)
    OBVIOUS
  <1>2. PICK t : t = HeadersDone(z, ch)
    OBVIOUS
  <1>3. Level(r, t) /\ r.pos = x.pos /\ t.pos = z.pos
    BY <1>1, <1>2 DEF IsParser, Fields, Level, Same, HeadersDone, MessageComplete, Notify, To,
       NEW_MESSAGE, http_should_keep_alive, SET_ERRNO
  <1> QED
    BY <1>1, <1>2, <1>3

\* The line feed behind the headers.
LEMMA HeadersAlmostDoneLinks ==
  ASSUME NEW x, NEW z, IsParser(x), IsParser(z), Level(x, z), NEW ch
  PROVE  LET r == HeadersAlmostDone(x, ch)
             t == HeadersAlmostDone(z, ch)
         IN  Level(r, t) /\ r.pos = x.pos /\ t.pos = z.pos
  <1>1. CASE ch # "LF"
    <2>1. PICK r : r = SET_ERRNO(x, "STRICT")
      OBVIOUS
    <2>2. PICK t : t = SET_ERRNO(z, "STRICT")
      OBVIOUS
    <2>3. Level(r, t) /\ r.pos = x.pos /\ t.pos = z.pos
      BY <2>1, <2>2 DEF IsParser, Fields, Level, Same, SET_ERRNO
    <2> QED
      BY <1>1, <2>1, <2>2, <2>3 DEF HeadersAlmostDone
  <1>2. CASE ch = "LF" /\ "F_TRAILING" \in x.flags
    <2>1. x.flags = z.flags
      BY DEF Level, Same
    <2>2. HeadersAlmostDone(x, ch) = MessageComplete(x) /\ HeadersAlmostDone(z, ch) = MessageComplete(z)
      BY <1>2, <2>1 DEF HeadersAlmostDone
    <2> QED
      BY <2>2, MessageCompleteLinks
  <1>3. CASE ch = "LF" /\ "F_TRAILING" \notin x.flags
    <2>1. PICK r : r = [Notify(x, "headers_complete") EXCEPT
                          !.upgrade = "F_UPGRADE" \in x.flags \/ x.method = "CONNECT"]
      OBVIOUS
    <2>2. PICK t : t = [Notify(z, "headers_complete") EXCEPT
                          !.upgrade = "F_UPGRADE" \in z.flags \/ z.method = "CONNECT"]
      OBVIOUS
    <2>3. Level(r, t) /\ r.pos = x.pos /\ t.pos = z.pos
      BY <2>1, <2>2 DEF IsParser, Fields, Level, Same, Notify
    <2>4. IsParser(r) /\ IsParser(t)
      BY <2>1, <2>2 DEF IsParser, Notify
    <2>5. x.flags = z.flags
      BY DEF Level, Same
    <2>6. HeadersAlmostDone(x, ch) = HeadersDone(r, ch) /\ HeadersAlmostDone(z, ch) = HeadersDone(t, ch)
      BY <1>3, <2>1, <2>2, <2>5 DEF HeadersAlmostDone
    <2> QED
      BY <2>3, <2>4, <2>6, HeadersDoneLinks
  <1> QED
    BY <1>1, <1>2, <1>3

\* What is left when both had the same byte.
Agree(w, b, x, z) ==
  /\ x.errno = z.errno
  /\ x.errno = "OK" => /\ x.pos = z.pos + b /\ (Level(x, z) \/ Marking(w, b, x, z))
                       /\ x.returned => Level(x, z)

\* Two parsers without a mark agree.
LEMMA LevelAgree ==
  ASSUME NEW w, NEW b, NEW r, NEW t, Level(r, t), r.pos = t.pos + b
  PROVE  Agree(w, b, r, t)
  BY DEF Agree, Level, Same

\* Two parsers that have marked the same bytes agree.
LEMMA MarkingAgree ==
  ASSUME NEW w, NEW b, NEW r, NEW t, Marking(w, b, r, t), r.pos = t.pos + b, ~r.returned
  PROVE  Agree(w, b, r, t)
  BY DEF Agree, Marking, Abreast, Behind, Same

\* Two parsers that stop with the same error agree.
LEMMA ErrorAgree ==
  ASSUME NEW w, NEW b, NEW x, NEW z, IsParser(x), IsParser(z), NEW e, e # "OK"
  PROVE  Agree(w, b, SET_ERRNO(x, e), SET_ERRNO(z, e))
  <1>1. PICK r : r = SET_ERRNO(x, e)
    OBVIOUS
  <1>2. PICK t : t = SET_ERRNO(z, e)
    OBVIOUS
  <1>3. r.errno = e /\ t.errno = e
    BY <1>1, <1>2 DEF SET_ERRNO, IsParser, Fields
  <1> QED
    BY <1>1, <1>2, <1>3 DEF Agree

\* Both go to another state.
LEMMA ToLinks ==
  ASSUME NEW x, NEW z, IsParser(x), IsParser(z), Level(x, z), NEW q
  PROVE  LET r == To(x, q)
             t == To(z, q)
         IN  Level(r, t) /\ r.pos = x.pos /\ t.pos = z.pos /\ IsParser(r) /\ IsParser(t)
  <1>1. PICK r : r = To(x, q)
    OBVIOUS
  <1>2. PICK t : t = To(z, q)
    OBVIOUS
  <1>3. Level(r, t) /\ r.pos = x.pos /\ t.pos = z.pos
    BY <1>1, <1>2 DEF IsParser, Fields, Level, Same, To
  <1>4. IsParser(r) /\ IsParser(t)
    BY <1>1, <1>2 DEF IsParser, To
  <1> QED
    BY <1>1, <1>2, <1>3, <1>4

\* The next byte of an URL.
LEMMA UrlCharLinks ==
  ASSUME NEW w, NEW b, NEW x, NEW z, IsParser(x), IsParser(z), Marking(w, b, x, z),
         x.pos = z.pos + b,
         x.errno = "OK", ~x.returned, NEW ch
  PROVE  Agree(w, b, UrlChar(x, ch), UrlChar(z, ch))
  <1>1. Same(x, z)
    BY DEF Marking, Abreast, Behind
  <1>2. PICK q : q = parse_url_char(x.state, ch)
    OBVIOUS
  <1>3. q = parse_url_char(z.state, ch)
    BY <1>1, <1>2 DEF Same
  <1>4. PICK r : r = To(x, q)
    OBVIOUS
  <1>5. PICK t : t = To(z, q)
    OBVIOUS
  <1>6. /\ IsParser(r) /\ IsParser(t)
    BY <1>4, <1>5 DEF IsParser, To
  <1>7. /\ r.state = q /\ t.state = q /\ r.pos = x.pos /\ t.pos = z.pos /\ r.returned = x.returned
        /\ r.mark = x.mark /\ r.from = x.from /\ r.resumed = x.resumed /\ r.out = x.out
        /\ t.mark = z.mark /\ t.from = z.from /\ t.resumed = z.resumed /\ t.out = z.out
    BY <1>4, <1>5 DEF IsParser, Fields, To
  <1>8. Same(r, t)
    BY <1>1, <1>4, <1>5 DEF IsParser, Fields, To, Same
  <1>9. CASE q = "s_dead"
    <2>1. UrlChar(x, ch) = SET_ERRNO(r, "INVALID_URL") /\ UrlChar(z, ch) = SET_ERRNO(t, "INVALID_URL")
      BY <1>2, <1>3, <1>4, <1>5, <1>7, <1>9 DEF UrlChar
    <2> QED
      BY <1>6, <2>1, ErrorAgree
  <1>10. CASE q # "s_dead"
    <2>1. UrlChar(x, ch) = r /\ UrlChar(z, ch) = t
      BY <1>2, <1>3, <1>4, <1>5, <1>7, <1>10 DEF UrlChar
    <2>2. Marking(w, b, r, t)
      BY <1>7, <1>8, KeepLinks
    <2> QED
      BY <1>7, <2>1, <2>2, MarkingAgree
  <1> QED
    BY <1>9, <1>10

\* The URL begins.
LEMMA BeforeUrlLinks ==
  ASSUME NEW w, NEW b \in Nat, NEW x, NEW z, IsParser(x), IsParser(z), Level(x, z),
         x.pos = z.pos + b,
         x.errno = "OK", ~x.returned, NEW ch
  PROVE  Agree(w, b, BeforeUrl(x, ch), BeforeUrl(z, ch))
  <1>1. CASE ch = " "
    BY <1>1, LevelAgree DEF BeforeUrl
  <1>2. CASE ch # " "
    <2>1. PICK q : q = IF x.method = "CONNECT" THEN "s_req_server_start" ELSE x.state
      OBVIOUS
    <2>2. q = IF z.method = "CONNECT" THEN "s_req_server_start" ELSE z.state
      BY <2>1 DEF Level, Same
    <2>3. PICK r : r = MARK(x, "url")
      OBVIOUS
    <2>4. PICK t : t = MARK(z, "url")
      OBVIOUS
    <2>5. Abreast(b, r, t) /\ r.pos = x.pos /\ t.pos = z.pos /\ IsParser(r) /\ IsParser(t)
      <3>1. "url" \in Marks
        BY DEF Marks
      <3> QED
        BY <2>3, <2>4, <3>1, MarkLinks
    <2>6. r.errno = x.errno /\ r.returned = x.returned
      BY <2>3 DEF MARK, IsParser, Fields
    <2>7. PICK f : f = To(r, q)
      OBVIOUS
    <2>8. PICK g : g = To(t, q)
      OBVIOUS
    <2>9. IsParser(f) /\ IsParser(g)
      BY <2>5, <2>7, <2>8 DEF IsParser, To
    <2>10. /\ f.pos = r.pos /\ g.pos = t.pos /\ f.errno = r.errno /\ f.returned = r.returned
           /\ f.mark = r.mark /\ f.from = r.from /\ f.resumed = r.resumed /\ f.out = r.out
           /\ g.mark = t.mark /\ g.from = t.from /\ g.resumed = t.resumed /\ g.out = t.out
      BY <2>5, <2>7, <2>8 DEF IsParser, Fields, To
    <2>11. Same(f, g)
      BY <2>5, <2>7, <2>8 DEF IsParser, Fields, To, Same, Abreast
    <2>12. Marking(w, b, f, g)
      BY <2>5, <2>10, <2>11, KeepLinks DEF Marking
    <2>13. BeforeUrl(x, ch) = UrlChar(f, ch) /\ BeforeUrl(z, ch) = UrlChar(g, ch)
      BY <1>2, <2>1, <2>2, <2>3, <2>4, <2>7, <2>8 DEF BeforeUrl
    <2> QED
      BY <2>5, <2>6, <2>9, <2>10, <2>12, <2>13, UrlCharLinks
  <1> QED
    BY <1>1, <1>2

\* What has been marked goes to the callback up to the byte before this one.
LEMMA CloseBefore ==
  ASSUME NEW S, NEW u, NEW d, NEW w, Cut(S, u, d, w), NEW b \in Nat, b = Len(u), NEW x, NEW z,
         Going(S, Len(w), x), Going(S, Len(d), z), Marking(w, b, x, z), x.pos = z.pos + b,
         NEW kind \in Marks, x.mark = kind, z.from <= z.pos
  PROVE  LET r == CALLBACK_DATA(x, w, kind, x.pos - 1)
             t == CALLBACK_DATA(z, d, kind, z.pos - 1)
         IN  Level(r, t) /\ r.pos = x.pos /\ t.pos = z.pos /\ IsParser(r) /\ IsParser(t)
  <1>1. /\ IsParser(x) /\ IsParser(z) /\ x.out \in Seq(Events(S)) /\ z.out \in Seq(Events(S))
    BY DEF Going, Typed
  <1>2. /\ Len(d) \in Nat /\ z.pos \in 1 .. Len(d) + 1 /\ z.from \in 1 .. Len(d) + 1 /\ z.pos <= Len(d)
    BY CutFacts DEF Going, Typed
  <1>3. PICK e \in Nat : e = z.pos - 1
    BY <1>2
  <1>4. z.from \in Nat /\ 1 <= z.from /\ z.from <= e + 1 /\ e <= Len(d) /\ x.pos - 1 = e + b
    BY <1>2, <1>3
  <1>5. PICK r : r = CALLBACK_DATA(x, w, kind, e + b)
    OBVIOUS
  <1>6. PICK t : t = CALLBACK_DATA(z, d, kind, e)
    OBVIOUS
  <1>7. Level(r, t) /\ r.pos = x.pos /\ t.pos = z.pos /\ IsParser(r) /\ IsParser(t)
    <2>1. Closing(S, u, d, w, x, z, kind, e, r, t)
      BY <1>1, <1>4, <1>5, <1>6 DEF Closing
    <2> QED
      BY <2>1, CloseLinks
  <1> QED
    BY <1>3, <1>4, <1>5, <1>6, <1>7

\* Two parsers at the same byte, with the same byte marked.
Paired(S, u, d, w, x, z) ==
  /\ Cut(S, u, d, w) /\ Going(S, Len(w), x) /\ Going(S, Len(d), z) /\ Marked(x) /\ Marked(z)
  /\ x.pos = z.pos + Len(u) /\ Marking(w, Len(u), x, z)

\* What two such parsers have in common.
LEMMA PairedFacts ==
  ASSUME NEW S, NEW u, NEW d, NEW w, NEW x, NEW z, Paired(S, u, d, w, x, z)
  PROVE  /\ IsParser(x) /\ IsParser(z) /\ x.errno = "OK" /\ ~x.returned /\ Same(x, z)
         /\ z.from <= z.pos /\ x.mark \in Marks /\ x.mark = z.mark
  BY DEF Paired, Marking, Abreast, Behind, Going, Halted, Typed, Marked

\* A byte of the URL, or what ends it.
LEMMA InUrlLinks ==
  ASSUME NEW S, NEW u, NEW d, NEW w, NEW x, NEW z, Paired(S, u, d, w, x, z), x.state \in UrlStates,
         NEW ch
  PROVE  Agree(w, Len(u), InUrl(x, w, ch), InUrl(z, d, ch))
  <1>1. /\ IsParser(x) /\ IsParser(z) /\ x.errno = "OK" /\ ~x.returned /\ x.state = z.state
        /\ z.from <= z.pos
    BY PairedFacts DEF Same
  <1>2. PICK b \in Nat : b = Len(u)
    BY CutFacts DEF Paired
  <1>3. x.mark = "url" /\ x.pos = z.pos + b /\ Marking(w, b, x, z)
    BY <1>2 DEF Paired, Marked
  <1>4. PICK r : r = CALLBACK_DATA(x, w, "url", x.pos - 1)
    OBVIOUS
  <1>5. PICK t : t = CALLBACK_DATA(z, d, "url", z.pos - 1)
    OBVIOUS
  <1>6. Level(r, t) /\ r.pos = x.pos /\ t.pos = z.pos /\ IsParser(r) /\ IsParser(t)
    <2>1. "url" \in Marks
      BY DEF Marks
    <2>2. Cut(S, u, d, w) /\ Going(S, Len(w), x) /\ Going(S, Len(d), z)
      BY DEF Paired
    <2> QED
      BY <1>1, <1>2, <1>3, <1>4, <1>5, <2>1, <2>2, CloseBefore
  <1>7. CASE x.state \in UrlMayEnd /\ ch = " "
    <2>1. /\ InUrl(x, w, ch) = To(r, "s_req_http_start")
          /\ InUrl(z, d, ch) = To(t, "s_req_http_start")
      BY <1>1, <1>4, <1>5, <1>7 DEF InUrl, EndOfLine
    <2>2. PICK f : f = To(r, "s_req_http_start")
      OBVIOUS
    <2>3. PICK g : g = To(t, "s_req_http_start")
      OBVIOUS
    <2>4. Level(f, g) /\ f.pos = r.pos /\ g.pos = t.pos
      BY <1>6, <2>2, <2>3, ToLinks
    <2> QED
      BY <1>2, <1>3, <1>6, <2>1, <2>2, <2>3, <2>4, LevelAgree
  <1>8. CASE x.state \in UrlMayEnd /\ ch \in EndOfLine
    <2>1. PICK q : q = IF ch = "CR" THEN "s_req_line_almost_done" ELSE "s_header_field_start"
      OBVIOUS
    <2>2. PICK f : f = [r EXCEPT !.http = <<0, 9>>, !.state = q]
      OBVIOUS
    <2>3. PICK g : g = [t EXCEPT !.http = <<0, 9>>, !.state = q]
      OBVIOUS
    <2>4. InUrl(x, w, ch) = f /\ InUrl(z, d, ch) = g
      BY <1>1, <1>4, <1>5, <1>8, <2>1, <2>2, <2>3 DEF InUrl, EndOfLine
    <2>5. Level(f, g) /\ f.pos = r.pos /\ g.pos = t.pos
      BY <1>6, <2>2, <2>3 DEF IsParser, Fields, Level, Same
    <2> QED
      BY <1>2, <1>3, <1>6, <2>4, <2>5, LevelAgree
  <1>9. CASE ~(x.state \in UrlMayEnd /\ ch \in EndOfLine \cup {" "})
    <2>1. InUrl(x, w, ch) = UrlChar(x, ch) /\ InUrl(z, d, ch) = UrlChar(z, ch)
      BY <1>1, <1>9 DEF InUrl
    <2> QED
      BY <1>1, <1>2, <1>3, <2>1, UrlCharLinks
  <1> QED
    BY <1>7, <1>8, <1>9

\* A byte of a name, or the colon behind it.
LEMMA HeaderFieldLinks ==
  ASSUME NEW S, NEW u, NEW d, NEW w, NEW x, NEW z, Paired(S, u, d, w, x, z),
         x.state = "s_header_field", NEW ch
  PROVE  Agree(w, Len(u), HeaderField(x, w, ch), HeaderField(z, d, ch))
  <1>1. /\ IsParser(x) /\ IsParser(z) /\ x.errno = "OK" /\ ~x.returned /\ Same(x, z)
        /\ z.from <= z.pos
    BY PairedFacts
  <1>2. PICK b \in Nat : b = Len(u)
    BY CutFacts DEF Paired
  <1>3. x.mark = "header_field" /\ x.pos = z.pos + b /\ Marking(w, b, x, z)
    BY <1>2 DEF Paired, Marked
  <1>4. CASE ch \in TokenBytes
    <2>1. PICK f : f = [x EXCEPT !.header_state = "h_general"]
      OBVIOUS
    <2>2. PICK g : g = [z EXCEPT !.header_state = "h_general"]
      OBVIOUS
    <2>3. HeaderField(x, w, ch) = f /\ HeaderField(z, d, ch) = g
      BY <1>4, <2>1, <2>2 DEF HeaderField, TokenBytes, HeaderNames, HexDigits, Digits
    <2>4. /\ f.pos = x.pos /\ g.pos = z.pos /\ f.returned = x.returned
          /\ f.mark = x.mark /\ f.from = x.from /\ f.resumed = x.resumed /\ f.out = x.out
          /\ g.mark = z.mark /\ g.from = z.from /\ g.resumed = z.resumed /\ g.out = z.out
      BY <1>1, <2>1, <2>2 DEF IsParser, Fields
    <2>5. Same(f, g)
      BY <1>1, <2>1, <2>2 DEF IsParser, Fields, Same
    <2>6. Marking(w, b, f, g)
      BY <1>3, <2>4, <2>5, KeepLinks
    <2> QED
      BY <1>1, <1>2, <1>3, <2>3, <2>4, <2>6, MarkingAgree
  <1>5. CASE ch \in {":", "CR", "LF"}
    <2>1. PICK r : r = CALLBACK_DATA(x, w, "header_field", x.pos - 1)
      OBVIOUS
    <2>2. PICK t : t = CALLBACK_DATA(z, d, "header_field", z.pos - 1)
      OBVIOUS
    <2>3. Level(r, t) /\ r.pos = x.pos /\ t.pos = z.pos /\ IsParser(r) /\ IsParser(t)
      <3>1. "header_field" \in Marks
        BY DEF Marks
      <3>2. Cut(S, u, d, w) /\ Going(S, Len(w), x) /\ Going(S, Len(d), z)
        BY DEF Paired
      <3> QED
        BY <1>1, <1>2, <1>3, <2>1, <2>2, <3>1, <3>2, CloseBefore
    <2>4. PICK q : q = CASE ch = ":"  -> "s_header_value_start"
                         [] ch = "CR" -> "s_header_almost_done"
                         [] ch = "LF" -> "s_header_field_start"
      OBVIOUS
    <2>5. HeaderField(x, w, ch) = To(r, q) /\ HeaderField(z, d, ch) = To(t, q)
      BY <1>5, <2>1, <2>2, <2>4 DEF HeaderField, TokenBytes, HeaderNames, HexDigits, Digits
    <2>6. PICK f : f = To(r, q)
      OBVIOUS
    <2>7. PICK g : g = To(t, q)
      OBVIOUS
    <2>8. Level(f, g) /\ f.pos = r.pos /\ g.pos = t.pos
      BY <2>3, <2>6, <2>7, ToLinks
    <2> QED
      BY <1>2, <1>3, <2>3, <2>5, <2>6, <2>7, <2>8, LevelAgree
  <1>6. CASE ch \notin TokenBytes \cup {":", "CR", "LF"}
    <2>1. /\ HeaderField(x, w, ch) = SET_ERRNO(x, "INVALID_HEADER_TOKEN")
          /\ HeaderField(z, d, ch) = SET_ERRNO(z, "INVALID_HEADER_TOKEN")
      BY <1>6 DEF HeaderField
    <2> QED
      BY <1>1, <2>1, ErrorAgree
  <1> QED
    BY <1>4, <1>5, <1>6

\* A name begins, or the headers end.
LEMMA HeaderFieldStartLinks ==
  ASSUME NEW w, NEW b \in Nat, NEW x, NEW z, IsParser(x), IsParser(z), Level(x, z),
         x.pos = z.pos + b,
         x.errno = "OK", ~x.returned, NEW ch
  PROVE  Agree(w, b, HeaderFieldStart(x, ch), HeaderFieldStart(z, ch))
  <1>1. CASE ch = "CR"
    <2>1. PICK f : f = To(x, "s_headers_almost_done")
      OBVIOUS
    <2>2. PICK g : g = To(z, "s_headers_almost_done")
      OBVIOUS
    <2>3. Level(f, g) /\ f.pos = x.pos /\ g.pos = z.pos
      BY <2>1, <2>2, ToLinks
    <2>4. HeaderFieldStart(x, ch) = f /\ HeaderFieldStart(z, ch) = g
      BY <1>1, <2>1, <2>2 DEF HeaderFieldStart, TokenBytes, HeaderNames, HexDigits, Digits
    <2> QED
      BY <2>3, <2>4, LevelAgree
  <1>2. CASE ch = "LF"
    <2>1. PICK f : f = HeadersAlmostDone(x, ch)
      OBVIOUS
    <2>2. PICK g : g = HeadersAlmostDone(z, ch)
      OBVIOUS
    <2>3. Level(f, g) /\ f.pos = x.pos /\ g.pos = z.pos
      BY <2>1, <2>2, HeadersAlmostDoneLinks
    <2>4. HeaderFieldStart(x, ch) = f /\ HeaderFieldStart(z, ch) = g
      BY <1>2, <2>1, <2>2 DEF HeaderFieldStart, TokenBytes, HeaderNames, HexDigits, Digits
    <2> QED
      BY <2>3, <2>4, LevelAgree
  <1>3. CASE ch \in TokenBytes
    <2>1. PICK r : r = MARK(x, "header_field")
      OBVIOUS
    <2>2. PICK t : t = MARK(z, "header_field")
      OBVIOUS
    <2>3. Abreast(b, r, t) /\ r.pos = x.pos /\ t.pos = z.pos /\ IsParser(r) /\ IsParser(t)
      <3>1. "header_field" \in Marks
        BY DEF Marks
      <3> QED
        BY <2>1, <2>2, <3>1, MarkLinks
    <2>4. r.errno = x.errno /\ r.returned = x.returned
      BY <2>1 DEF MARK, IsParser, Fields
    <2>5. PICK hs : hs = HeaderState(ch)
      OBVIOUS
    <2>6. PICK f : f = [r EXCEPT !.state = "s_header_field", !.header_state = hs]
      OBVIOUS
    <2>7. PICK g : g = [t EXCEPT !.state = "s_header_field", !.header_state = hs]
      OBVIOUS
    <2>8. /\ f.pos = r.pos /\ g.pos = t.pos /\ f.returned = r.returned
          /\ f.mark = r.mark /\ f.from = r.from /\ f.resumed = r.resumed /\ f.out = r.out
          /\ g.mark = t.mark /\ g.from = t.from /\ g.resumed = t.resumed /\ g.out = t.out
      BY <2>3, <2>6, <2>7 DEF IsParser, Fields
    <2>9. Same(f, g)
      BY <2>3, <2>6, <2>7 DEF IsParser, Fields, Same, Abreast
    <2>10. Marking(w, b, f, g)
      BY <2>3, <2>8, <2>9, KeepLinks DEF Marking
    <2>11. HeaderFieldStart(x, ch) = f /\ HeaderFieldStart(z, ch) = g
      BY <1>3, <2>1, <2>2, <2>5, <2>6, <2>7 DEF HeaderFieldStart, TokenBytes, HeaderNames, HexDigits, Digits
    <2> QED
      BY <2>3, <2>4, <2>8, <2>10, <2>11, MarkingAgree
  <1>4. CASE ch \notin {"CR", "LF"} \cup TokenBytes
    <2>1. /\ HeaderFieldStart(x, ch) = SET_ERRNO(x, "INVALID_HEADER_TOKEN")
          /\ HeaderFieldStart(z, ch) = SET_ERRNO(z, "INVALID_HEADER_TOKEN")
      BY <1>4 DEF HeaderFieldStart
    <2> QED
      BY <2>1, ErrorAgree
  <1> QED
    BY <1>1, <1>2, <1>3, <1>4

\* The byte behind a line of a value.
LEMMA HeaderValueLwsLinks ==
  ASSUME NEW w, NEW b \in Nat, NEW x, NEW z, IsParser(x), IsParser(z), Level(x, z),
         x.pos = z.pos + b,
         x.errno = "OK", ~x.returned, NEW ch
  PROVE  Agree(w, b, HeaderValueLws(x, ch), HeaderValueLws(z, ch))
  <1>1. PICK q : q = IF ch = " " THEN "s_header_value_start" ELSE "s_header_field_start"
    OBVIOUS
  <1>2. PICK f : f = To(x, q)
    OBVIOUS
  <1>3. PICK g : g = To(z, q)
    OBVIOUS
  <1>4. Level(f, g) /\ f.pos = x.pos /\ g.pos = z.pos /\ IsParser(f) /\ IsParser(g)
    BY <1>2, <1>3, ToLinks
  <1>5. f.errno = x.errno /\ f.returned = x.returned
    BY <1>2 DEF To, IsParser, Fields
  <1>6. CASE ch = " "
    <2>1. HeaderValueLws(x, ch) = f /\ HeaderValueLws(z, ch) = g
      BY <1>1, <1>2, <1>3, <1>6 DEF HeaderValueLws
    <2> QED
      BY <1>4, <2>1, LevelAgree
  <1>7. CASE ch # " "
    <2>1. /\ HeaderValueLws(x, ch) = HeaderFieldStart(f, ch)
          /\ HeaderValueLws(z, ch) = HeaderFieldStart(g, ch)
      BY <1>1, <1>2, <1>3, <1>7 DEF HeaderValueLws
    <2> QED
      BY <1>4, <1>5, <2>1, HeaderFieldStartLinks
  <1> QED
    BY <1>6, <1>7


\* The byte that begins a value is marked.
LEMMA ValueMarked ==
  ASSUME NEW S, NEW n \in Nat, NEW s, Going(S, n, s), s.mark = "none"
  PROVE  LET m == To(MARK(s, "header_value"), "s_header_value")
         IN  /\ Going(S, n, m) /\ m.mark = "header_value" /\ m.pos = s.pos /\ m.from = s.pos
             /\ m.errno = s.errno /\ m.returned = s.returned
  <1>1. PICK m : m = To(MARK(s, "header_value"), "s_header_value")
    OBVIOUS
  <1>2. IsParser(m)
    BY <1>1 DEF Going, Typed, IsParser, To, MARK
  <1>3. /\ m.state = "s_header_value" /\ m.mark = "header_value" /\ m.pos = s.pos /\ m.from = s.pos
        /\ m.resumed \in BOOLEAN /\ m.nread = s.nread /\ m.content_length = s.content_length
        /\ m.upgrade = s.upgrade /\ m.returned = s.returned /\ m.out = s.out /\ m.errno = s.errno
    BY <1>1 DEF Going, Typed, IsParser, Fields, To, MARK
  <1>4. m.state \in States /\ "header_value" \in Marks
    BY <1>3 DEF States, Marks
  <1>5. Going(S, n, m)
    BY <1>2, <1>3, <1>4 DEF Going, Typed, Halted
  <1> QED
    BY <1>1, <1>3, <1>5

\* A value begins, or there is none.
LEMMA HeaderValueStartLinks ==
  ASSUME NEW S, NEW u, NEW d, NEW w, Cut(S, u, d, w), NEW x, NEW z,
         Going(S, Len(w), x), Going(S, Len(d), z), Level(x, z), x.pos = z.pos + Len(u), NEW ch
  PROVE  Agree(w, Len(u), HeaderValueStart(x, w, ch), HeaderValueStart(z, d, ch))
  <1>1. PICK b \in Nat : b = Len(u)
    BY CutFacts
  <1>2. /\ IsParser(x) /\ IsParser(z) /\ x.errno = "OK" /\ ~x.returned
        /\ Len(w) \in Nat /\ Len(d) \in Nat /\ x.header_state = z.header_state
        /\ z.pos \in 1 .. Len(d) + 1
    BY CutFacts DEF Going, Typed, Halted, Level, Same
  <1>3. PICK m : m = To(MARK(x, "header_value"), "s_header_value")
    OBVIOUS
  <1>4. PICK n : n = To(MARK(z, "header_value"), "s_header_value")
    OBVIOUS
  <1>30. x.mark = "none" /\ z.mark = "none"
    BY DEF Level
  <1>5. /\ Going(S, Len(w), m) /\ m.mark = "header_value" /\ m.pos = x.pos
        /\ m.errno = x.errno /\ m.returned = x.returned
    BY <1>2, <1>3, <1>30, ValueMarked
  <1>6. /\ Going(S, Len(d), n) /\ n.mark = "header_value" /\ n.pos = z.pos /\ n.from = z.pos
    BY <1>2, <1>4, <1>30, ValueMarked
  <1>7. IsParser(m) /\ IsParser(n)
    BY <1>5, <1>6 DEF Going, Typed
  <1>8. Marking(w, b, m, n)
    <2>1. PICK r : r = MARK(x, "header_value")
      OBVIOUS
    <2>2. PICK t : t = MARK(z, "header_value")
      OBVIOUS
    <2>3. Abreast(b, r, t) /\ IsParser(r) /\ IsParser(t)
      <3>1. "header_value" \in Marks
        BY DEF Marks
      <3> QED
        BY <1>1, <1>2, <2>1, <2>2, <3>1, MarkLinks
    <2>4. m = To(r, "s_header_value") /\ n = To(t, "s_header_value")
      BY <1>3, <1>4, <2>1, <2>2
    <2>5. /\ m.mark = r.mark /\ m.from = r.from /\ m.resumed = r.resumed /\ m.out = r.out
          /\ n.mark = t.mark /\ n.from = t.from /\ n.resumed = t.resumed /\ n.out = t.out
      BY <2>3, <2>4 DEF IsParser, Fields, To
    <2>6. Same(m, n)
      BY <2>3, <2>4 DEF IsParser, Fields, To, Same, Abreast
    <2> QED
      BY <2>3, <2>5, <2>6, KeepLinks DEF Marking
  <1>9. PICK r : r = CALLBACK_DATA(m, w, "header_value", x.pos - 1)
    OBVIOUS
  <1>10. PICK t : t = CALLBACK_DATA(n, d, "header_value", z.pos - 1)
    OBVIOUS
  <1>11. Level(r, t) /\ r.pos = x.pos /\ t.pos = z.pos /\ IsParser(r) /\ IsParser(t)
    <2>1. "header_value" \in Marks /\ n.from <= n.pos
      BY <1>2, <1>6 DEF Marks
    <2> QED
      BY <1>1, <1>5, <1>6, <1>8, <1>9, <1>10, <2>1, CloseBefore
  <1>12. CASE ch = " "
    BY <1>12, LevelAgree DEF HeaderValueStart
  <1>13. CASE ch = "CR"
    <2>1. PICK f : f = [r EXCEPT !.header_state = "h_general", !.state = "s_header_almost_done"]
      OBVIOUS
    <2>2. PICK g : g = [t EXCEPT !.header_state = "h_general", !.state = "s_header_almost_done"]
      OBVIOUS
    <2>3. HeaderValueStart(x, w, ch) = f /\ HeaderValueStart(z, d, ch) = g
      BY <1>3, <1>4, <1>9, <1>10, <1>13, <2>1, <2>2 DEF HeaderValueStart
    <2>4. Level(f, g) /\ f.pos = r.pos /\ g.pos = t.pos
      BY <1>11, <2>1, <2>2 DEF IsParser, Fields, Level, Same
    <2> QED
      BY <1>11, <2>3, <2>4, LevelAgree
  <1>14. CASE ch = "LF"
    <2>1. PICK f : f = To(r, "s_header_field_start")
      OBVIOUS
    <2>2. PICK g : g = To(t, "s_header_field_start")
      OBVIOUS
    <2>3. HeaderValueStart(x, w, ch) = f /\ HeaderValueStart(z, d, ch) = g
      BY <1>3, <1>4, <1>9, <1>10, <1>14, <2>1, <2>2 DEF HeaderValueStart
    <2>4. Level(f, g) /\ f.pos = r.pos /\ g.pos = t.pos
      BY <1>11, <2>1, <2>2, ToLinks
    <2> QED
      BY <1>11, <2>3, <2>4, LevelAgree
  <1>15. CASE ch \notin {" ", "CR", "LF"} /\ x.header_state = "h_content_length" /\ ch \notin Digits
    <2>1. /\ HeaderValueStart(x, w, ch) = SET_ERRNO(m, "INVALID_CONTENT_LENGTH")
          /\ HeaderValueStart(z, d, ch) = SET_ERRNO(n, "INVALID_CONTENT_LENGTH")
      BY <1>2, <1>3, <1>4, <1>15 DEF HeaderValueStart
    <2> QED
      BY <1>7, <2>1, ErrorAgree
  <1>16. CASE ch \notin {" ", "CR", "LF"} /\ x.header_state = "h_content_length" /\ ch \in Digits
    <2>1. PICK v : v = Value[ch]
      OBVIOUS
    <2>2. PICK f : f = [m EXCEPT !.content_length = v]
      OBVIOUS
    <2>3. PICK g : g = [n EXCEPT !.content_length = v]
      OBVIOUS
    <2>4. HeaderValueStart(x, w, ch) = f /\ HeaderValueStart(z, d, ch) = g
      BY <1>2, <1>3, <1>4, <1>16, <2>1, <2>2, <2>3 DEF HeaderValueStart
    <2>5. /\ f.pos = m.pos /\ g.pos = n.pos /\ f.returned = m.returned
          /\ f.mark = m.mark /\ f.from = m.from /\ f.resumed = m.resumed /\ f.out = m.out
          /\ g.mark = n.mark /\ g.from = n.from /\ g.resumed = n.resumed /\ g.out = n.out
      BY <1>7, <2>2, <2>3 DEF IsParser, Fields
    <2>6. Same(f, g)
      BY <1>7, <1>8, <2>2, <2>3 DEF IsParser, Fields, Same, Marking, Abreast, Behind
    <2>7. Marking(w, b, f, g)
      BY <1>8, <2>5, <2>6, KeepLinks
    <2> QED
      BY <1>1, <1>2, <1>5, <1>6, <2>4, <2>5, <2>7, MarkingAgree
  <1>17. CASE ch \notin {" ", "CR", "LF"} /\ x.header_state # "h_content_length"
    <2>1. PICK hs : hs = ValueState(x.header_state, ch)
      OBVIOUS
    <2>2. PICK fl : fl = IF x.header_state = "h_upgrade" THEN m.flags \cup {"F_UPGRADE"} ELSE m.flags
      OBVIOUS
    <2>3. m.flags = n.flags
      BY <1>8 DEF Same, Marking, Abreast, Behind
    <2>4. PICK f : f = [m EXCEPT !.header_state = hs, !.flags = fl]
      OBVIOUS
    <2>5. PICK g : g = [n EXCEPT !.header_state = hs, !.flags = fl]
      OBVIOUS
    <2>6. HeaderValueStart(x, w, ch) = [m EXCEPT !.header_state = hs,
                                          !.flags = IF x.header_state = "h_upgrade" THEN @ \cup {"F_UPGRADE"} ELSE @]
      BY <1>3, <1>17, <2>1 DEF HeaderValueStart
    <2>7. HeaderValueStart(z, d, ch) = [n EXCEPT !.header_state = hs,
                                          !.flags = IF x.header_state = "h_upgrade" THEN @ \cup {"F_UPGRADE"} ELSE @]
      BY <1>2, <1>4, <1>17, <2>1 DEF HeaderValueStart
    <2>8. HeaderValueStart(x, w, ch) = f
      BY <1>7, <2>2, <2>4, <2>6 DEF IsParser, Fields
    <2>9. HeaderValueStart(z, d, ch) = g
      BY <1>7, <2>2, <2>3, <2>5, <2>7 DEF IsParser, Fields
    <2>10. /\ f.pos = m.pos /\ g.pos = n.pos /\ f.returned = m.returned
           /\ f.mark = m.mark /\ f.from = m.from /\ f.resumed = m.resumed /\ f.out = m.out
           /\ g.mark = n.mark /\ g.from = n.from /\ g.resumed = n.resumed /\ g.out = n.out
      BY <1>7, <2>4, <2>5 DEF IsParser, Fields
    <2>11. Same(f, g)
      BY <1>7, <1>8, <2>4, <2>5 DEF IsParser, Fields, Same, Marking, Abreast, Behind
    <2>12. Marking(w, b, f, g)
      BY <1>8, <2>10, <2>11, KeepLinks
    <2> QED
      BY <1>1, <1>2, <1>5, <1>6, <2>8, <2>9, <2>10, <2>12, MarkingAgree
  <1> QED
    BY <1>12, <1>13, <1>14, <1>15, <1>16, <1>17

\* A byte of a value, or the end of its line.
LEMMA HeaderValueLinks ==
  ASSUME NEW S, NEW u, NEW d, NEW w, NEW x, NEW z, Paired(S, u, d, w, x, z),
         x.state = "s_header_value", NEW ch
  PROVE  Agree(w, Len(u), HeaderValue(x, w, ch), HeaderValue(z, d, ch))
  <1>1. /\ IsParser(x) /\ IsParser(z) /\ x.errno = "OK" /\ ~x.returned /\ Same(x, z)
        /\ z.from <= z.pos
    BY PairedFacts
  <1>2. PICK b \in Nat : b = Len(u)
    BY CutFacts DEF Paired
  <1>3. x.mark = "header_value" /\ x.pos = z.pos + b /\ Marking(w, b, x, z)
    BY <1>2 DEF Paired, Marked
  <1>4. x.header_state = z.header_state /\ x.content_length = z.content_length
    BY <1>1 DEF Same
  <1>5. PICK r : r = CALLBACK_DATA(x, w, "header_value", x.pos - 1)
    OBVIOUS
  <1>6. PICK t : t = CALLBACK_DATA(z, d, "header_value", z.pos - 1)
    OBVIOUS
  <1>7. Level(r, t) /\ r.pos = x.pos /\ t.pos = z.pos /\ IsParser(r) /\ IsParser(t)
    <2>1. "header_value" \in Marks
      BY DEF Marks
    <2>2. Cut(S, u, d, w) /\ Going(S, Len(w), x) /\ Going(S, Len(d), z)
      BY DEF Paired
    <2> QED
      BY <1>1, <1>2, <1>3, <1>5, <1>6, <2>1, <2>2, CloseBefore
  <1>8. PICK f : f = To(r, "s_header_almost_done")
    OBVIOUS
  <1>9. PICK g : g = To(t, "s_header_almost_done")
    OBVIOUS
  <1>10. Level(f, g) /\ f.pos = r.pos /\ g.pos = t.pos /\ IsParser(f) /\ IsParser(g)
    BY <1>7, <1>8, <1>9, ToLinks
  <1>11. CASE ch = "CR"
    <2>1. HeaderValue(x, w, ch) = f /\ HeaderValue(z, d, ch) = g
      BY <1>5, <1>6, <1>8, <1>9, <1>11 DEF HeaderValue
    <2> QED
      BY <1>2, <1>3, <1>7, <1>10, <2>1, LevelAgree
  <1>12. CASE ch = "LF"
    <2>1. PICK h : h = HeaderAlmostDone(f, ch)
      OBVIOUS
    <2>2. PICK k : k = HeaderAlmostDone(g, ch)
      OBVIOUS
    <2>3. HeaderValue(x, w, ch) = h /\ HeaderValue(z, d, ch) = k
      BY <1>5, <1>6, <1>8, <1>9, <1>12, <2>1, <2>2 DEF HeaderValue
    <2>4. Level(h, k) /\ h.pos = f.pos /\ k.pos = g.pos
      BY <1>10, <2>1, <2>2, HeaderAlmostDoneLinks
    <2> QED
      BY <1>2, <1>3, <1>7, <1>10, <2>3, <2>4, LevelAgree
  <1>13. CASE ch = " "
    <2>1. HeaderValue(x, w, ch) = x /\ HeaderValue(z, d, ch) = z
      BY <1>13 DEF HeaderValue
    <2> QED
      BY <1>1, <1>2, <1>3, <2>1, MarkingAgree
  <1>14. CASE ch \notin {" ", "CR", "LF"} /\ x.header_state # "h_content_length"
    <2>1. PICK h : h = [x EXCEPT !.header_state = "h_general"]
      OBVIOUS
    <2>2. PICK k : k = [z EXCEPT !.header_state = "h_general"]
      OBVIOUS
    <2>3. HeaderValue(x, w, ch) = h /\ HeaderValue(z, d, ch) = k
      BY <1>4, <1>14, <2>1, <2>2 DEF HeaderValue
    <2>4. /\ h.pos = x.pos /\ k.pos = z.pos /\ h.returned = x.returned
          /\ h.mark = x.mark /\ h.from = x.from /\ h.resumed = x.resumed /\ h.out = x.out
          /\ k.mark = z.mark /\ k.from = z.from /\ k.resumed = z.resumed /\ k.out = z.out
      BY <1>1, <2>1, <2>2 DEF IsParser, Fields
    <2>5. Same(h, k)
      BY <1>1, <2>1, <2>2 DEF IsParser, Fields, Same
    <2>6. Marking(w, b, h, k)
      BY <1>3, <2>4, <2>5, KeepLinks
    <2> QED
      BY <1>1, <1>2, <1>3, <2>3, <2>4, <2>6, MarkingAgree
  <1>15. CASE ch \in Digits /\ x.header_state = "h_content_length"
    <2>1. PICK v : v = (x.content_length * 10 + Value[ch]) % Width
      OBVIOUS
    <2>2. /\ HeaderValue(x, w, ch) = Grow(x, 10, Value[ch], "INVALID_CONTENT_LENGTH")
          /\ HeaderValue(z, d, ch) = Grow(z, 10, Value[ch], "INVALID_CONTENT_LENGTH")
      BY <1>4, <1>15 DEF HeaderValue, Digits
    <2>3. CASE v < x.content_length \/ v = ULLONG_MAX
      <3>1. /\ HeaderValue(x, w, ch) = SET_ERRNO(x, "INVALID_CONTENT_LENGTH")
            /\ HeaderValue(z, d, ch) = SET_ERRNO(z, "INVALID_CONTENT_LENGTH")
        BY <1>4, <2>1, <2>2, <2>3 DEF Grow
      <3> QED
        BY <1>1, <3>1, ErrorAgree
    <2>4. CASE ~(v < x.content_length \/ v = ULLONG_MAX)
      <3>1. PICK h : h = [x EXCEPT !.content_length = v]
        OBVIOUS
      <3>2. PICK k : k = [z EXCEPT !.content_length = v]
        OBVIOUS
      <3>3. HeaderValue(x, w, ch) = h /\ HeaderValue(z, d, ch) = k
        BY <1>4, <2>1, <2>2, <2>4, <3>1, <3>2 DEF Grow
      <3>4. /\ h.pos = x.pos /\ k.pos = z.pos /\ h.returned = x.returned
            /\ h.mark = x.mark /\ h.from = x.from /\ h.resumed = x.resumed /\ h.out = x.out
            /\ k.mark = z.mark /\ k.from = z.from /\ k.resumed = z.resumed /\ k.out = z.out
        BY <1>1, <3>1, <3>2 DEF IsParser, Fields
      <3>5. Same(h, k)
        BY <1>1, <3>1, <3>2 DEF IsParser, Fields, Same
      <3>6. Marking(w, b, h, k)
        BY <1>3, <3>4, <3>5, KeepLinks
      <3> QED
        BY <1>1, <1>2, <1>3, <3>3, <3>4, <3>6, MarkingAgree
    <2> QED
      BY <2>3, <2>4
  <1>16. CASE ch \notin Digits \cup {" ", "CR", "LF"} /\ x.header_state = "h_content_length"
    <2>1. /\ HeaderValue(x, w, ch) = SET_ERRNO(x, "INVALID_CONTENT_LENGTH")
          /\ HeaderValue(z, d, ch) = SET_ERRNO(z, "INVALID_CONTENT_LENGTH")
      BY <1>4, <1>16 DEF HeaderValue
    <2> QED
      BY <1>1, <2>1, ErrorAgree
  <1> QED
    BY <1>11, <1>12, <1>13, <1>14, <1>15, <1>16

(***************************************************************************)
(* The body, of which both take what their buffer has.                     *)
(***************************************************************************)
\* Two parsers at the same byte: nothing is marked, or the same, or of a body
\* what came in the buffer before.
Linked(S, u, d, w, x, z) ==
  /\ Cut(S, u, d, w) /\ Going(S, Len(w), x) /\ Going(S, Len(d), z) /\ Marked(x) /\ Marked(z)
  /\ x.pos = z.pos + Len(u)
  /\ Level(x, z) \/ Marking(w, Len(u), x, z) \/ Fresh(w, Len(u), x, z)

\* What two such parsers have in common, and where they are.
LEMMA LinkedFacts ==
  ASSUME NEW S, NEW u, NEW d, NEW w, NEW x, NEW z, Linked(S, u, d, w, x, z)
  PROVE  /\ IsParser(x) /\ IsParser(z) /\ x.errno = "OK" /\ ~x.returned /\ Same(x, z)
         /\ x.pos = z.pos + Len(u) /\ Len(u) \in Nat
         /\ w \in Seq(S) /\ d \in Seq(S) /\ Len(w) = Len(d) + Len(u) /\ Len(d) \in Nat /\ Len(w) \in Nat
         /\ z.pos \in 1 .. Len(d) /\ x.pos \in 1 .. Len(w)
         /\ x.out \in Seq(Events(S)) /\ z.out \in Seq(Events(S))
  <1>1. /\ IsParser(x) /\ IsParser(z) /\ x.errno = "OK" /\ ~x.returned /\ Same(x, z)
        /\ x.pos = z.pos + Len(u) /\ x.out \in Seq(Events(S)) /\ z.out \in Seq(Events(S))
    BY DEF Linked, Level, Marking, Abreast, Behind, Fresh, Going, Halted, Typed
  <1>2. /\ Len(u) \in Nat /\ w \in Seq(S) /\ d \in Seq(S) /\ Len(w) = Len(u) + Len(d)
        /\ Len(d) \in Nat
    BY CutFacts DEF Linked
  <1>3. Len(w) = Len(d) + Len(u) /\ Len(w) \in Nat
    BY <1>2
  <1>4. /\ z.pos \in 1 .. Len(d) + 1 /\ z.pos <= Len(d)
        /\ x.pos \in 1 .. Len(w) + 1 /\ x.pos <= Len(w)
    BY DEF Linked, Going, Typed
  <1>5. z.pos \in 1 .. Len(d) /\ x.pos \in 1 .. Len(w)
    BY <1>2, <1>3, <1>4
  <1> QED
    BY <1>1, <1>2, <1>3, <1>5

\* As much of a body as there is: both read up to the same byte.
LEMMA ReadBodyLinks ==
  ASSUME NEW S, NEW u, NEW d, NEW w, NEW x, NEW z, Linked(S, u, d, w, x, z),
         x.state \in {"s_body_identity", "s_chunk_data"}
  PROVE  LET r == ReadBody(x, w)
             t == ReadBody(z, d)
         IN  /\ Marking(w, Len(u), r, t) /\ r.pos = t.pos + Len(u) /\ IsParser(r) /\ IsParser(t)
             /\ r.mark = "body" /\ r.errno = "OK" /\ ~r.returned /\ t.pos \in z.pos .. Len(d)
             /\ t.from \in 1 .. z.pos /\ r.state = x.state /\ r.out = x.out /\ t.out = z.out
  <1>1. /\ IsParser(x) /\ IsParser(z) /\ x.errno = "OK" /\ ~x.returned /\ Same(x, z)
        /\ x.pos = z.pos + Len(u) /\ Len(u) \in Nat
        /\ w \in Seq(S) /\ d \in Seq(S) /\ Len(w) = Len(d) + Len(u) /\ Len(d) \in Nat /\ Len(w) \in Nat
        /\ z.pos \in 1 .. Len(d) /\ x.pos \in 1 .. Len(w)
    BY LinkedFacts
  <1>2. /\ Going(S, Len(w), x) /\ Going(S, Len(d), z) /\ Marked(x) /\ Marked(z)
        /\ Level(x, z) \/ Marking(w, Len(u), x, z) \/ Fresh(w, Len(u), x, z)
    BY DEF Linked
  <1>3. PICK b \in Nat : b = Len(u)
    BY <1>1
  <1>4. PICK m \in Nat : m = Len(w)
    BY <1>1
  <1>5. PICK n \in Nat : n = Len(d)
    BY <1>1
  <1>6. x.state = z.state /\ x.content_length = z.content_length
    BY <1>1 DEF Same
  <1>7. PICK r : r = ReadBody(x, w)
    OBVIOUS
  <1>8. PICK t : t = ReadBody(z, d)
    OBVIOUS
  <1>9. /\ IsParser(r)
        /\ \A f \in {"state", "header_state", "flags", "nread", "http", "method", "upgrade",
                     "errno", "returned", "out"} : r[f] = x[f]
        /\ r.mark = "body" /\ r.resumed \in BOOLEAN
        /\ x.mark = "body" => r.from = x.from /\ r.resumed = x.resumed
        /\ x.mark # "body" => r.from = x.pos /\ ~r.resumed
        /\ r.content_length \in 0 .. x.content_length
        /\ r.pos \in x.pos .. m
        /\ r.pos - x.pos + 1 = x.content_length - r.content_length
        /\ r.content_length = 0 \/ r.pos = m
        /\ x.content_length <= m - x.pos + 1 => r.content_length = 0
    <2>1. w \in Seq(S) /\ m = Len(w) /\ Going(S, m, x) /\ Marked(x)
      BY <1>1, <1>2, <1>4
    <2> QED
      BY <1>7, <2>1, ReadBodyFacts
  <1>10. /\ IsParser(t)
         /\ \A f \in {"state", "header_state", "flags", "nread", "http", "method", "upgrade",
                      "errno", "returned", "out"} : t[f] = z[f]
         /\ t.mark = "body" /\ t.from \in 1 .. z.pos /\ t.resumed \in BOOLEAN
         /\ z.mark = "body" => t.from = z.from /\ t.resumed = z.resumed
         /\ z.mark # "body" => t.from = z.pos /\ ~t.resumed
         /\ t.content_length \in 0 .. z.content_length
         /\ t.pos \in z.pos .. n
         /\ t.pos - z.pos + 1 = z.content_length - t.content_length
         /\ t.content_length = 0 \/ t.pos = n
         /\ z.content_length <= n - z.pos + 1 => t.content_length = 0
    <2>1. d \in Seq(S) /\ n = Len(d) /\ Going(S, n, z) /\ Marked(z)
      BY <1>1, <1>2, <1>5
    <2>2. z.state \in {"s_body_identity", "s_chunk_data"}
      BY <1>6
    <2> QED
      BY <1>8, <2>1, <2>2, ReadBodyFacts
  <1>11. r.pos = t.pos + b /\ r.content_length = t.content_length
    <2>1. /\ x.content_length \in Nat /\ x.pos \in Nat /\ z.pos \in Nat /\ x.pos = z.pos + b /\ m = n + b
          /\ x.pos <= m /\ z.pos <= n
      <3>1. x.content_length \in Nat
        <4>1. x.content_length \in 0 .. ULLONG_MAX
          BY <1>2 DEF Going, Typed
        <4> QED
          BY <4>1, HttpParserAssumption DEF ULLONG_MAX
      <3>2. z.pos \in 1 .. n /\ x.pos \in 1 .. m
        BY <1>1, <1>4, <1>5
      <3>3. x.pos = z.pos + b /\ m = n + b
        BY <1>1, <1>3, <1>4, <1>5
      <3> QED
        BY <3>1, <3>2, <3>3
    <2>2. /\ r.content_length \in Nat /\ t.content_length \in Nat /\ r.pos \in Nat /\ t.pos \in Nat
          /\ r.pos <= m /\ t.pos <= n
      BY <1>6, <1>9, <1>10, <2>1
    <2>3. CASE x.content_length <= n - z.pos + 1
      <3>1. x.content_length <= m - x.pos + 1
        BY <2>1, <2>3
      <3>2. r.content_length = 0 /\ t.content_length = 0
        BY <1>6, <1>9, <1>10, <2>3, <3>1
      <3> QED
        BY <1>6, <1>9, <1>10, <2>1, <2>2, <3>2
    <2>4. CASE x.content_length > n - z.pos + 1
      <3>1. t.content_length # 0 /\ r.content_length # 0
        BY <1>6, <1>9, <1>10, <2>1, <2>2, <2>4
      <3>2. r.pos = m /\ t.pos = n
        BY <1>9, <1>10, <3>1
      <3> QED
        BY <1>6, <1>9, <1>10, <2>1, <2>2, <3>2
    <2> QED
      BY <2>1, <2>3, <2>4
  <1>12. /\ r.state = x.state /\ r.errno = x.errno /\ r.returned = x.returned /\ r.out = x.out
         /\ t.out = z.out
    BY <1>9, <1>10
  <1>13. Same(r, t)
    <2>1. /\ r.header_state = x.header_state /\ r.flags = x.flags /\ r.nread = x.nread
          /\ r.http = x.http /\ r.method = x.method /\ r.upgrade = x.upgrade
      BY <1>9
    <2>2. /\ t.state = z.state /\ t.header_state = z.header_state /\ t.flags = z.flags /\ t.nread = z.nread
          /\ t.http = z.http /\ t.method = z.method /\ t.upgrade = z.upgrade /\ t.errno = z.errno
          /\ t.returned = z.returned
      BY <1>10
    <2> QED
      BY <1>1, <1>11, <1>12, <2>1, <2>2 DEF Same
  <1>14. x.mark \in {"none", "body"} /\ z.mark \in {"none", "body"}
    BY <1>2, <1>6 DEF Marked, ReadsBody
  <1>15. Marking(w, b, r, t)
    <2>1. CASE Level(x, z)
      <3>1. x.mark = "none" /\ z.mark = "none" /\ x.out = z.out
        BY <2>1 DEF Level
      <3>2. r.from = x.pos /\ t.from = z.pos /\ ~r.resumed /\ ~t.resumed
        BY <1>9, <1>10, <3>1
      <3>3. r.resumed = t.resumed
        BY <1>9, <1>10, <3>2
      <3> QED
        BY <1>1, <1>3, <1>9, <1>10, <1>12, <1>13, <3>1, <3>2, <3>3 DEF Marking, Abreast
    <2>2. CASE Marking(w, Len(u), x, z)
      <3>1. x.mark = "body" /\ z.mark = "body"
        BY <1>14, <2>2 DEF Marking, Abreast, Behind
      <3>2. r.from = x.from /\ t.from = z.from /\ r.resumed = x.resumed /\ t.resumed = z.resumed
        BY <1>9, <1>10, <3>1
      <3> QED
        BY <1>3, <1>9, <1>10, <1>12, <1>13, <2>2, <3>1, <3>2, KeepLinks
    <2>3. CASE Fresh(w, Len(u), x, z)
      <3>1. x.mark = "body" /\ x.from \in 1 .. b /\ z.out = Closed(x, w, b) /\ z.mark = "none" /\ z.pos = 1
        BY <1>3, <2>3 DEF Fresh
      <3>2. r.from = x.from /\ r.resumed = x.resumed /\ t.from = 1
        BY <1>9, <1>10, <3>1
      <3>3. Closed(r, w, b) = Closed(x, w, b)
        BY <1>9, <1>12, <3>1, <3>2 DEF Closed
      <3> QED
        BY <1>9, <1>10, <1>12, <1>13, <3>1, <3>2, <3>3 DEF Marking, Behind
    <2> QED
      BY <1>2, <2>1, <2>2, <2>3
  <1> QED
    BY <1>1, <1>3, <1>5, <1>7, <1>8, <1>9, <1>10, <1>11, <1>12, <1>15

\* A piece of a chunk.
LEMMA ChunkDataLinks ==
  ASSUME NEW S, NEW u, NEW d, NEW w, NEW x, NEW z, Linked(S, u, d, w, x, z),
         x.state = "s_chunk_data"
  PROVE  Agree(w, Len(u), ChunkData(x, w), ChunkData(z, d))
  <1>1. PICK b \in Nat : b = Len(u)
    BY LinkedFacts
  <1>2. PICK r : r = ReadBody(x, w)
    OBVIOUS
  <1>3. PICK t : t = ReadBody(z, d)
    OBVIOUS
  <1>4. /\ Marking(w, b, r, t) /\ r.pos = t.pos + b /\ IsParser(r) /\ IsParser(t) /\ ~r.returned
    BY <1>1, <1>2, <1>3, ReadBodyLinks
  <1>5. Same(r, t)
    BY <1>4 DEF Marking, Abreast, Behind
  <1>6. CASE r.content_length = 0
    <2>1. PICK f : f = To(r, "s_chunk_data_almost_done")
      OBVIOUS
    <2>2. PICK g : g = To(t, "s_chunk_data_almost_done")
      OBVIOUS
    <2>3. ChunkData(x, w) = f /\ ChunkData(z, d) = g
      BY <1>2, <1>3, <1>5, <1>6, <2>1, <2>2 DEF ChunkData, Same
    <2>4. /\ f.pos = r.pos /\ g.pos = t.pos /\ f.returned = r.returned
          /\ f.mark = r.mark /\ f.from = r.from /\ f.resumed = r.resumed /\ f.out = r.out
          /\ g.mark = t.mark /\ g.from = t.from /\ g.resumed = t.resumed /\ g.out = t.out
      BY <1>4, <2>1, <2>2 DEF IsParser, Fields, To
    <2>5. Same(f, g)
      BY <1>4, <1>5, <2>1, <2>2 DEF IsParser, Fields, Same, To
    <2>6. Marking(w, b, f, g)
      BY <1>4, <2>4, <2>5, KeepLinks
    <2> QED
      BY <1>1, <1>4, <2>3, <2>4, <2>6, MarkingAgree
  <1>7. CASE r.content_length # 0
    <2>1. ChunkData(x, w) = r /\ ChunkData(z, d) = t
      BY <1>2, <1>3, <1>5, <1>7 DEF ChunkData, Same
    <2> QED
      BY <1>1, <1>4, <2>1, MarkingAgree
  <1> QED
    BY <1>6, <1>7

\* A piece of a body of a stated length.
LEMMA BodyIdentityLinks ==
  ASSUME NEW S, NEW u, NEW d, NEW w, NEW x, NEW z, Linked(S, u, d, w, x, z),
         x.state = "s_body_identity"
  PROVE  Agree(w, Len(u), BodyIdentity(x, w), BodyIdentity(z, d))
  <1>1. PICK b \in Nat : b = Len(u)
    BY LinkedFacts
  <1>2. PICK r : r = ReadBody(x, w)
    OBVIOUS
  <1>3. PICK t : t = ReadBody(z, d)
    OBVIOUS
  <1>4. /\ Marking(w, b, r, t) /\ r.pos = t.pos + b /\ IsParser(r) /\ IsParser(t) /\ ~r.returned
        /\ r.mark = "body" /\ t.pos \in z.pos .. Len(d) /\ t.from \in 1 .. z.pos
        /\ r.out = x.out /\ t.out = z.out
    BY <1>1, <1>2, <1>3, ReadBodyLinks
  <1>5. Same(r, t)
    BY <1>4 DEF Marking, Abreast, Behind
  <1>6. CASE r.content_length = 0
    <2>1. PICK e \in Nat : e = t.pos /\ 1 <= t.from /\ t.from <= e + 1 /\ e <= Len(d)
      BY <1>4, LinkedFacts
    <2>2. t.from \in Nat /\ x.out \in Seq(Events(S)) /\ z.out \in Seq(Events(S))
      BY <1>4, LinkedFacts
    <2>3. PICK f : f = CALLBACK_DATA(r, w, "body", e + b)
      OBVIOUS
    <2>4. PICK g : g = CALLBACK_DATA(t, d, "body", e)
      OBVIOUS
    <2>5. Level(f, g) /\ f.pos = r.pos /\ g.pos = t.pos /\ IsParser(f) /\ IsParser(g)
      <3>1. "body" \in Marks
        BY DEF Marks
      <3>2. Cut(S, u, d, w)
        BY DEF Linked
      <3>3. r.out \in Seq(Events(S)) /\ t.out \in Seq(Events(S)) /\ Marking(w, Len(u), r, t)
        BY <1>1, <1>4, <2>2
      <3>4. f = CALLBACK_DATA(r, w, "body", e + Len(u))
        BY <1>1, <2>3
      <3>5. /\ t.from \in Nat /\ 1 <= t.from /\ t.from <= e + 1 /\ e <= Len(d)
            /\ IsParser(r) /\ IsParser(t) /\ r.mark = "body"
        BY <1>4, <2>1, <2>2
      <3> QED
        <4>1. Closing(S, u, d, w, r, t, "body", e, f, g)
          BY <2>4, <3>1, <3>2, <3>3, <3>4, <3>5 DEF Closing
        <4> QED
          BY <4>1, CloseLinks
    <2>6. PICK h : h = MessageComplete(f)
      OBVIOUS
    <2>7. PICK k : k = MessageComplete(g)
      OBVIOUS
    <2>8. BodyIdentity(x, w) = h /\ BodyIdentity(z, d) = k
      BY <1>2, <1>3, <1>4, <1>5, <1>6, <2>1, <2>3, <2>4, <2>6, <2>7 DEF BodyIdentity, Same
    <2>9. Level(h, k) /\ h.pos = f.pos /\ k.pos = g.pos
      BY <2>5, <2>6, <2>7, MessageCompleteLinks
    <2> QED
      BY <1>1, <1>4, <2>5, <2>8, <2>9, LevelAgree
  <1>7. CASE r.content_length # 0
    <2>1. BodyIdentity(x, w) = r /\ BodyIdentity(z, d) = t
      BY <1>2, <1>3, <1>5, <1>7 DEF BodyIdentity, Same
    <2> QED
      BY <1>1, <1>4, <2>1, MarkingAgree
  <1> QED
    BY <1>6, <1>7

\* The carriage return behind a chunk.
LEMMA ChunkDataAlmostDoneLinks ==
  ASSUME NEW S, NEW u, NEW d, NEW w, NEW x, NEW z, Linked(S, u, d, w, x, z), NEW ch,
         x.state = "s_chunk_data_almost_done"
  PROVE  Agree(w, Len(u), ChunkDataAlmostDone(x, w, ch), ChunkDataAlmostDone(z, d, ch))
  <1>1. /\ IsParser(x) /\ IsParser(z) /\ x.errno = "OK" /\ ~x.returned /\ Same(x, z)
        /\ w \in Seq(S) /\ d \in Seq(S) /\ Len(w) = Len(d) + Len(u) /\ Len(d) \in Nat /\ Len(w) \in Nat
        /\ z.pos \in 1 .. Len(d) /\ x.pos \in 1 .. Len(w)
    BY LinkedFacts
  <1>2. PICK b \in Nat : b = Len(u) /\ x.pos = z.pos + b
    BY LinkedFacts
  <1>3. CASE ch # "CR"
    <2>1. /\ ChunkDataAlmostDone(x, w, ch) = SET_ERRNO(x, "STRICT")
          /\ ChunkDataAlmostDone(z, d, ch) = SET_ERRNO(z, "STRICT")
      BY <1>3 DEF ChunkDataAlmostDone
    <2> QED
      BY <1>1, <2>1, ErrorAgree
  <1>4. CASE ch = "CR"
    <2>1. PICK m : m = To(x, "s_chunk_data_done")
      OBVIOUS
    <2>2. PICK n : n = To(z, "s_chunk_data_done")
      OBVIOUS
    <2>3. IsParser(m) /\ IsParser(n)
      BY <1>1, <2>1, <2>2 DEF IsParser, To
    <2>4. /\ m.pos = x.pos /\ m.mark = x.mark /\ m.from = x.from /\ m.resumed = x.resumed /\ m.out = x.out
          /\ m.errno = x.errno /\ m.returned = x.returned /\ m.nread = x.nread /\ m.upgrade = x.upgrade
          /\ m.content_length = x.content_length /\ m.state = "s_chunk_data_done"
      BY <1>1, <2>1 DEF IsParser, Fields, To
    <2>5. /\ n.pos = z.pos /\ n.mark = z.mark /\ n.from = z.from /\ n.resumed = z.resumed /\ n.out = z.out
          /\ n.errno = z.errno /\ n.returned = z.returned /\ n.nread = z.nread /\ n.upgrade = z.upgrade
          /\ n.content_length = z.content_length /\ n.state = "s_chunk_data_done"
      BY <1>1, <2>2 DEF IsParser, Fields, To
    <2>6. Same(m, n)
      BY <1>1, <2>1, <2>2 DEF IsParser, Fields, To, Same
    <2>7. "s_chunk_data_done" \in States
      BY DEF States, BodyStates
    <2>8. Going(S, Len(w), m) /\ Going(S, Len(d), n)
      BY <2>3, <2>4, <2>5, <2>7 DEF Linked, Going, Typed, Halted
    <2>9. PICK f : f = CALLBACK_DATA(m, w, "body", x.pos - 1)
      OBVIOUS
    <2>10. PICK g : g = CALLBACK_DATA(n, d, "body", z.pos - 1)
      OBVIOUS
    <2>11. ChunkDataAlmostDone(x, w, ch) = f /\ ChunkDataAlmostDone(z, d, ch) = g
      BY <1>4, <2>1, <2>2, <2>9, <2>10 DEF ChunkDataAlmostDone
    <2>12. "body" \in Marks /\ x.mark \in {"none", "body"}
      BY DEF Marks, Linked, Marked, ReadsBody
    <2>13. Level(f, g) /\ f.pos = m.pos /\ g.pos = n.pos
      <3>1. CASE Level(x, z)
        <4>1. f = m /\ g = n
          BY <2>4, <2>5, <2>9, <2>10, <3>1 DEF CALLBACK_DATA, Level
        <4> QED
          BY <2>4, <2>5, <2>6, <3>1, <4>1 DEF Level
      <3>2. CASE Marking(w, Len(u), x, z)
        <4>1. Marking(w, b, m, n)
          BY <1>2, <2>4, <2>5, <2>6, <3>2, KeepLinks
        <4>2. m.mark = "body" /\ n.from <= n.pos
          <5>1. x.mark # "none" /\ z.mark = x.mark
            BY <3>2 DEF Marking, Abreast, Behind
          <5>2. z.from <= z.pos
            BY <5>1 DEF Linked, Marked
          <5> QED
            BY <2>4, <2>5, <2>12, <5>1, <5>2
        <4>3. Cut(S, u, d, w)
          BY DEF Linked
        <4> QED
          BY <1>2, <2>4, <2>5, <2>8, <2>9, <2>10, <2>12, <4>1, <4>2, <4>3, CloseBefore
      <3>3. CASE Fresh(w, Len(u), x, z)
        <4>1. x.mark = "body" /\ x.from \in 1 .. b /\ z.out = Closed(x, w, b) /\ z.mark = "none" /\ z.pos = 1
          BY <1>2, <3>3 DEF Fresh
        <4>2. g = n
          BY <2>5, <2>10, <4>1 DEF CALLBACK_DATA
        <4>3. x.pos - 1 = b /\ x.from \in Nat /\ 1 <= x.from /\ x.from <= b + 1 /\ b <= Len(w)
          BY <1>1, <1>2, <4>1
        <4>4. m.out \in Seq(Events(S))
          BY <2>8 DEF Going, Typed
        <4>5. /\ \A h \in Fields \ {"mark", "resumed", "out"} : f[h] = m[h]
              /\ f.mark = "none" /\ f.out = Closed(m, w, b)
          <5>1. /\ IsParser(m) /\ m.mark = "body" /\ m.from \in Nat /\ 1 <= m.from /\ m.from <= b + 1
                /\ f = CALLBACK_DATA(m, w, "body", b) /\ "body" \in Marks
            BY <2>3, <2>4, <2>9, <2>12, <4>1, <4>3 DEF Marks
          <5> QED
            BY <1>1, <4>3, <4>4, <5>1, CloseFacts, SMTT(20)
        <4>6. Closed(m, w, b) = Closed(x, w, b)
          BY <2>4 DEF Closed
        <4>7. Same(f, n) /\ f.pos = m.pos
          BY <2>6, <4>5 DEF Same, Fields
        <4> QED
          BY <2>5, <4>1, <4>2, <4>5, <4>6, <4>7 DEF Level
      <3> QED
        BY <3>1, <3>2, <3>3 DEF Linked
    <2> QED
      BY <1>2, <2>4, <2>5, <2>11, <2>13, LevelAgree
  <1> QED
    BY <1>3, <1>4

\* A byte that is not marked leaves both where they were to each other.
LEMMA PlainLinks ==
  ASSUME NEW w, NEW d, NEW b \in Nat, NEW x, NEW z, IsParser(x), IsParser(z), Level(x, z),
         x.pos = z.pos + b, NEW ch,
         x.state \in Plain \ {"s_req_spaces_before_url", "s_header_field_start", "s_header_value_start",
                              "s_header_value_lws"}
  PROVE  Agree(w, b, Dispatch(x, w, ch), Dispatch(z, d, ch))
  <1>0. z.state = x.state
    BY DEF Level, Same
  <1>1. CASE x.state = "s_start_req"
    <2>1. PICK r : r = StartReq(x, ch)
      OBVIOUS
    <2>2. PICK t : t = StartReq(z, ch)
      OBVIOUS
    <2>3. Dispatch(x, w, ch) = r /\ Dispatch(z, d, ch) = t
      BY <1>0, <1>1, <2>1, <2>2 DEF Dispatch, UrlStates, UrlMayEnd
    <2>4. Level(r, t) /\ r.pos = x.pos /\ t.pos = z.pos
      BY <2>1, <2>2, StartReqLinks
    <2> QED
      BY <2>3, <2>4, LevelAgree
  <1>2. CASE x.state \in {"s_req_http_start", "s_req_http_minor", "s_req_line_almost_done"}
    <2>1. PICK r : r = HttpVersion(x, ch)
      OBVIOUS
    <2>2. PICK t : t = HttpVersion(z, ch)
      OBVIOUS
    <2>3. Dispatch(x, w, ch) = r /\ Dispatch(z, d, ch) = t
      BY <1>0, <1>2, <2>1, <2>2 DEF Dispatch, UrlStates, UrlMayEnd
    <2>4. Level(r, t) /\ r.pos = x.pos /\ t.pos = z.pos
      BY <2>1, <2>2, HttpVersionLinks
    <2> QED
      BY <2>3, <2>4, LevelAgree
  <1>3. CASE x.state = "s_header_almost_done"
    <2>1. PICK r : r = HeaderAlmostDone(x, ch)
      OBVIOUS
    <2>2. PICK t : t = HeaderAlmostDone(z, ch)
      OBVIOUS
    <2>3. Dispatch(x, w, ch) = r /\ Dispatch(z, d, ch) = t
      BY <1>0, <1>3, <2>1, <2>2 DEF Dispatch, UrlStates, UrlMayEnd
    <2>4. Level(r, t) /\ r.pos = x.pos /\ t.pos = z.pos
      BY <2>1, <2>2, HeaderAlmostDoneLinks
    <2> QED
      BY <2>3, <2>4, LevelAgree
  <1>4. CASE x.state = "s_headers_almost_done"
    <2>1. PICK r : r = HeadersAlmostDone(x, ch)
      OBVIOUS
    <2>2. PICK t : t = HeadersAlmostDone(z, ch)
      OBVIOUS
    <2>3. Dispatch(x, w, ch) = r /\ Dispatch(z, d, ch) = t
      BY <1>0, <1>4, <2>1, <2>2 DEF Dispatch, UrlStates, UrlMayEnd
    <2>4. Level(r, t) /\ r.pos = x.pos /\ t.pos = z.pos
      BY <2>1, <2>2, HeadersAlmostDoneLinks
    <2> QED
      BY <2>3, <2>4, LevelAgree
  <1>5. CASE x.state = "s_chunk_size_start"
    <2>1. PICK r : r = ChunkSizeStart(x, ch)
      OBVIOUS
    <2>2. PICK t : t = ChunkSizeStart(z, ch)
      OBVIOUS
    <2>3. Dispatch(x, w, ch) = r /\ Dispatch(z, d, ch) = t
      BY <1>0, <1>5, <2>1, <2>2 DEF Dispatch, UrlStates, UrlMayEnd
    <2>4. Level(r, t) /\ r.pos = x.pos /\ t.pos = z.pos
      BY <2>1, <2>2, ChunkSizeStartLinks
    <2> QED
      BY <2>3, <2>4, LevelAgree
  <1>6. CASE x.state = "s_chunk_size"
    <2>1. PICK r : r = ChunkSize(x, ch)
      OBVIOUS
    <2>2. PICK t : t = ChunkSize(z, ch)
      OBVIOUS
    <2>3. Dispatch(x, w, ch) = r /\ Dispatch(z, d, ch) = t
      BY <1>0, <1>6, <2>1, <2>2 DEF Dispatch, UrlStates, UrlMayEnd
    <2>4. Level(r, t) /\ r.pos = x.pos /\ t.pos = z.pos
      BY <2>1, <2>2, ChunkSizeLinks
    <2> QED
      BY <2>3, <2>4, LevelAgree
  <1>7. CASE x.state = "s_chunk_parameters"
    <2>1. PICK r : r = IF ch = "CR" THEN To(x, "s_chunk_size_almost_done") ELSE x
      OBVIOUS
    <2>2. PICK t : t = IF ch = "CR" THEN To(z, "s_chunk_size_almost_done") ELSE z
      OBVIOUS
    <2>3. Dispatch(x, w, ch) = r /\ Dispatch(z, d, ch) = t
      BY <1>0, <1>7, <2>1, <2>2 DEF Dispatch, UrlStates, UrlMayEnd
    <2>4. Level(r, t) /\ r.pos = x.pos /\ t.pos = z.pos
      BY <2>1, <2>2, ChunkParametersLinks
    <2> QED
      BY <2>3, <2>4, LevelAgree
  <1>8. CASE x.state = "s_chunk_size_almost_done"
    <2>1. PICK r : r = ChunkSizeAlmostDone(x, ch)
      OBVIOUS
    <2>2. PICK t : t = ChunkSizeAlmostDone(z, ch)
      OBVIOUS
    <2>3. Dispatch(x, w, ch) = r /\ Dispatch(z, d, ch) = t
      BY <1>0, <1>8, <2>1, <2>2 DEF Dispatch, UrlStates, UrlMayEnd
    <2>4. Level(r, t) /\ r.pos = x.pos /\ t.pos = z.pos
      BY <2>1, <2>2, ChunkSizeAlmostDoneLinks
    <2> QED
      BY <2>3, <2>4, LevelAgree
  <1>9. CASE x.state = "s_chunk_data_done"
    <2>1. PICK r : r = ChunkDataDone(x, ch)
      OBVIOUS
    <2>2. PICK t : t = ChunkDataDone(z, ch)
      OBVIOUS
    <2>3. Dispatch(x, w, ch) = r /\ Dispatch(z, d, ch) = t
      BY <1>0, <1>9, <2>1, <2>2 DEF Dispatch, UrlStates, UrlMayEnd
    <2>4. Level(r, t) /\ r.pos = x.pos /\ t.pos = z.pos
      BY <2>1, <2>2, ChunkDataDoneLinks
    <2> QED
      BY <2>3, <2>4, LevelAgree
  <1>10. CASE x.state \in {"s_dead", "s_message_done"}
    <2>1. PICK r : r = IF ch \in EndOfLine THEN x ELSE SET_ERRNO(x, "CLOSED_CONNECTION")
      OBVIOUS
    <2>2. PICK t : t = IF ch \in EndOfLine THEN z ELSE SET_ERRNO(z, "CLOSED_CONNECTION")
      OBVIOUS
    <2>3. Dispatch(x, w, ch) = r /\ Dispatch(z, d, ch) = t
      BY <1>0, <1>10, <2>1, <2>2 DEF Dispatch, UrlStates, UrlMayEnd
    <2>4. Level(r, t) /\ r.pos = x.pos /\ t.pos = z.pos
      BY <2>1, <2>2, DeadLinks
    <2> QED
      BY <2>3, <2>4, LevelAgree
  <1> QED
    BY <1>1, <1>2, <1>3, <1>4, <1>5, <1>6, <1>7, <1>8, <1>9, <1>10 DEF Plain

\* Two parsers that are linked agree on what the byte they are at makes of them.
LEMMA DispatchLinks ==
  ASSUME NEW S, NEW u, NEW d, NEW w, NEW x, NEW z, Linked(S, u, d, w, x, z), NEW ch
  PROVE  Agree(w, Len(u), Dispatch(x, w, ch), Dispatch(z, d, ch))
  <1>1. /\ IsParser(x) /\ IsParser(z) /\ x.errno = "OK" /\ ~x.returned /\ x.state = z.state
        /\ x.pos = z.pos + Len(u) /\ Len(u) \in Nat
    BY LinkedFacts DEF Same
  <1>2. /\ Cut(S, u, d, w) /\ Going(S, Len(w), x) /\ Going(S, Len(d), z) /\ Marked(x) /\ Marked(z)
        /\ Level(x, z) \/ Marking(w, Len(u), x, z) \/ Fresh(w, Len(u), x, z)
    BY DEF Linked
  <1>3. x.state \in States
    BY <1>2 DEF Going, Typed
  <1>4. ASSUME x.state \in UrlStates \cup Named
        PROVE  Paired(S, u, d, w, x, z)
    <2>1. z.mark # "none"
      BY <1>1, <1>2, <1>4 DEF Marked, Named
    <2>2. Marking(w, Len(u), x, z)
      BY <1>2, <2>1 DEF Level, Fresh
    <2> QED
      BY <1>1, <1>2, <2>2 DEF Paired
  <1>5. CASE x.state \in UrlStates
    <2>1. Dispatch(x, w, ch) = InUrl(x, w, ch) /\ Dispatch(z, d, ch) = InUrl(z, d, ch)
      BY <1>1, <1>5 DEF Dispatch, UrlStates, UrlMayEnd
    <2> QED
      BY <1>4, <1>5, <2>1, InUrlLinks
  <1>6. CASE x.state = "s_header_field"
    <2>1. Dispatch(x, w, ch) = HeaderField(x, w, ch) /\ Dispatch(z, d, ch) = HeaderField(z, d, ch)
      BY <1>1, <1>6 DEF Dispatch, UrlStates, UrlMayEnd
    <2>2. x.state \in UrlStates \cup Named
      BY <1>6 DEF Named
    <2> QED
      BY <1>4, <1>6, <2>1, <2>2, HeaderFieldLinks
  <1>7. CASE x.state = "s_header_value"
    <2>1. Dispatch(x, w, ch) = HeaderValue(x, w, ch) /\ Dispatch(z, d, ch) = HeaderValue(z, d, ch)
      BY <1>1, <1>7 DEF Dispatch, UrlStates, UrlMayEnd
    <2>2. x.state \in UrlStates \cup Named
      BY <1>7 DEF Named
    <2> QED
      BY <1>4, <1>7, <2>1, <2>2, HeaderValueLinks
  <1>8. CASE x.state = "s_body_identity"
    <2>1. Dispatch(x, w, ch) = BodyIdentity(x, w) /\ Dispatch(z, d, ch) = BodyIdentity(z, d)
      BY <1>1, <1>8 DEF Dispatch, UrlStates, UrlMayEnd
    <2> QED
      BY <1>8, <2>1, BodyIdentityLinks
  <1>9. CASE x.state = "s_chunk_data"
    <2>1. Dispatch(x, w, ch) = ChunkData(x, w) /\ Dispatch(z, d, ch) = ChunkData(z, d)
      BY <1>1, <1>9 DEF Dispatch, UrlStates, UrlMayEnd
    <2> QED
      BY <1>9, <2>1, ChunkDataLinks
  <1>10. CASE x.state = "s_chunk_data_almost_done"
    <2>1. /\ Dispatch(x, w, ch) = ChunkDataAlmostDone(x, w, ch)
          /\ Dispatch(z, d, ch) = ChunkDataAlmostDone(z, d, ch)
      BY <1>1, <1>10 DEF Dispatch, UrlStates, UrlMayEnd
    <2> QED
      BY <1>10, <2>1, ChunkDataAlmostDoneLinks
  <1>11. CASE x.state \in Plain
    <2>1. x.mark = "none"
      BY <1>2, <1>11, StateFacts DEF Marked
    <2>2. Level(x, z)
      BY <1>2, <2>1 DEF Marking, Abreast, Behind, Fresh
    <2>3. CASE x.state = "s_req_spaces_before_url"
      <3>1. Dispatch(x, w, ch) = BeforeUrl(x, ch) /\ Dispatch(z, d, ch) = BeforeUrl(z, ch)
        BY <1>1, <2>3 DEF Dispatch, UrlStates, UrlMayEnd
      <3> QED
        BY <1>1, <2>2, <3>1, BeforeUrlLinks
    <2>4. CASE x.state = "s_header_field_start"
      <3>1. Dispatch(x, w, ch) = HeaderFieldStart(x, ch) /\ Dispatch(z, d, ch) = HeaderFieldStart(z, ch)
        BY <1>1, <2>4 DEF Dispatch, UrlStates, UrlMayEnd
      <3> QED
        BY <1>1, <2>2, <3>1, HeaderFieldStartLinks
    <2>5. CASE x.state = "s_header_value_start"
      <3>1. /\ Dispatch(x, w, ch) = HeaderValueStart(x, w, ch)
            /\ Dispatch(z, d, ch) = HeaderValueStart(z, d, ch)
        BY <1>1, <2>5 DEF Dispatch, UrlStates, UrlMayEnd
      <3> QED
        BY <1>1, <1>2, <2>2, <3>1, HeaderValueStartLinks
    <2>6. CASE x.state = "s_header_value_lws"
      <3>1. Dispatch(x, w, ch) = HeaderValueLws(x, ch) /\ Dispatch(z, d, ch) = HeaderValueLws(z, ch)
        BY <1>1, <2>6 DEF Dispatch, UrlStates, UrlMayEnd
      <3> QED
        BY <1>1, <2>2, <3>1, HeaderValueLwsLinks
    <2> QED
      BY <1>1, <1>11, <2>2, <2>3, <2>4, <2>5, <2>6, PlainLinks
  <1> QED
    BY <1>3, <1>5, <1>6, <1>7, <1>8, <1>9, <1>10, <1>11, StateFacts DEF Named, ReadsBody

\* Two parsers in their loops.
Facing(S, u, d, w, x, z) ==
  /\ Cut(S, u, d, w) /\ Inside(S, Len(w), x) /\ Inside(S, Len(d), z) /\ ~Halted(x) /\ ~Halted(z)
  /\ x.pos = z.pos + Len(u)
  /\ Level(x, z) \/ Marking(w, Len(u), x, z) \/ Fresh(w, Len(u), x, z)

\* What two such parsers have in common, and where they are.
LEMMA FacingFacts ==
  ASSUME NEW S, NEW u, NEW d, NEW w, NEW x, NEW z, Facing(S, u, d, w, x, z)
  PROVE  /\ IsParser(x) /\ IsParser(z) /\ x.errno = "OK" /\ ~x.returned /\ Same(x, z)
         /\ w \in Seq(S) /\ d \in Seq(S) /\ Len(w) = Len(d) + Len(u) /\ Len(d) \in Nat /\ Len(w) \in Nat
         /\ Len(u) \in Nat /\ z.pos \in 1 .. Len(d) + 1 /\ x.pos \in 1 .. Len(w) + 1
         /\ x.pos <= Len(w) <=> z.pos <= Len(d)
  <1>1. /\ IsParser(x) /\ IsParser(z) /\ x.errno = "OK" /\ ~x.returned /\ Same(x, z)
        /\ z.pos \in 1 .. Len(d) + 1 /\ x.pos \in 1 .. Len(w) + 1 /\ x.pos = z.pos + Len(u)
    BY DEF Facing, Inside, Typed, Halted, Level, Marking, Abreast, Behind, Fresh
  <1>2. /\ w \in Seq(S) /\ d \in Seq(S) /\ Len(w) = Len(u) + Len(d) /\ Len(d) \in Nat /\ Len(u) \in Nat
    BY CutFacts DEF Facing
  <1>3. Len(w) = Len(d) + Len(u) /\ Len(w) \in Nat
    BY <1>2
  <1>4. x.pos <= Len(w) <=> z.pos <= Len(d)
    BY <1>1, <1>2, <1>3
  <1> QED
    BY <1>1, <1>2, <1>3, <1>4

\* Counting the byte keeps the two linked.
LEMMA CountedLinks ==
  ASSUME NEW S, NEW u, NEW d, NEW w, NEW x, NEW z, Facing(S, u, d, w, x, z), z.pos <= Len(d)
  PROVE  LET c == Counted(x)
             e == Counted(z)
         IN  /\ IsParser(c) /\ IsParser(e) /\ c.nread = e.nread
             /\ c.nread <= HTTP_MAX_HEADER_SIZE => Linked(S, u, d, w, c, e)
             /\ c.pos = x.pos /\ e.pos = z.pos /\ c.nread \in Nat
  <1>1. /\ IsParser(x) /\ IsParser(z) /\ Same(x, z) /\ Len(d) \in Nat /\ Len(w) \in Nat
        /\ x.pos <= Len(w)
    BY FacingFacts
  <1>2. /\ Cut(S, u, d, w) /\ Inside(S, Len(w), x) /\ Inside(S, Len(d), z) /\ ~Halted(x) /\ ~Halted(z)
        /\ x.pos = z.pos + Len(u)
        /\ Level(x, z) \/ Marking(w, Len(u), x, z) \/ Fresh(w, Len(u), x, z)
    BY DEF Facing
  <1>3. PICK c : c = Counted(x)
    OBVIOUS
  <1>4. PICK e : e = Counted(z)
    OBVIOUS
  <1>5. /\ Typed(S, Len(w), c) /\ \A f \in Fields \ {"nread"} : c[f] = x[f]
        /\ Marked(c) /\ ~Halted(c)
    BY <1>1, <1>2, <1>3, CountedFacts
  <1>6. /\ Typed(S, Len(d), e) /\ \A f \in Fields \ {"nread"} : e[f] = z[f]
        /\ Marked(e) /\ ~Halted(e)
    BY <1>1, <1>2, <1>4, CountedFacts
  <1>7. /\ c.pos = x.pos /\ c.mark = x.mark /\ c.from = x.from /\ c.resumed = x.resumed /\ c.out = x.out
        /\ e.pos = z.pos /\ e.mark = z.mark /\ e.from = z.from /\ e.resumed = z.resumed /\ e.out = z.out
    BY <1>5, <1>6 DEF Fields
  <1>8. Same(c, e)
    BY <1>1, <1>3, <1>4 DEF Counted, IsParser, Fields, Same
  <1>9. Level(c, e) \/ Marking(w, Len(u), c, e) \/ Fresh(w, Len(u), c, e)
    <2>1. CASE Level(x, z)
      BY <1>7, <1>8, <2>1 DEF Level
    <2>2. CASE Marking(w, Len(u), x, z)
      BY <1>7, <1>8, <2>2, KeepLinks
    <2>3. CASE Fresh(w, Len(u), x, z)
      BY <1>7, <1>8, <2>3 DEF Fresh, Closed
    <2> QED
      BY <1>2, <2>1, <2>2, <2>3
  <1>10. c.nread = e.nread /\ c.nread \in Nat /\ IsParser(c) /\ IsParser(e)
    BY <1>5, <1>6, <1>8 DEF Same, Typed
  <1>11. c.nread <= HTTP_MAX_HEADER_SIZE => Linked(S, u, d, w, c, e)
    BY <1>1, <1>2, <1>5, <1>6, <1>7, <1>9, <1>10 DEF Linked, Going
  <1> QED
    BY <1>3, <1>4, <1>7, <1>10, <1>11

\* A round of the one and a round of the other.
LEMMA RoundLinks ==
  ASSUME NEW S, NEW u, NEW d, NEW w, NEW x, NEW z, Facing(S, u, d, w, x, z), z.pos <= Len(d)
  PROVE  Agree(w, Len(u), Round(x, w), Round(z, d))
  <1>1. /\ w \in Seq(S) /\ d \in Seq(S) /\ Len(w) = Len(d) + Len(u) /\ Len(d) \in Nat /\ Len(w) \in Nat
        /\ Len(u) \in Nat /\ z.pos \in 1 .. Len(d)
    BY FacingFacts
  <1>2. PICK b \in Nat : b = Len(u)
    BY <1>1
  <1>3. PICK c : c = Counted(x)
    OBVIOUS
  <1>4. PICK e : e = Counted(z)
    OBVIOUS
  <1>5. /\ IsParser(c) /\ IsParser(e) /\ c.nread = e.nread
        /\ c.nread <= HTTP_MAX_HEADER_SIZE => Linked(S, u, d, w, c, e)
        /\ c.pos = x.pos /\ e.pos = z.pos /\ c.nread \in Nat
    BY <1>3, <1>4, CountedLinks
  <1>6. w[x.pos] = d[z.pos]
    <2>1. x.pos = z.pos + Len(u) /\ Cut(S, u, d, w)
      BY DEF Facing
    <2>2. \A i \in 1 .. Len(d) : w[i + Len(u)] = d[i]
      BY <2>1, CutFacts
    <2> QED
      BY <1>1, <2>1, <2>2
  <1>7. PICK ch : ch = d[z.pos]
    OBVIOUS
  <1>8. PICK f : f = IF c.nread > HTTP_MAX_HEADER_SIZE THEN SET_ERRNO(c, "HEADER_OVERFLOW")
                     ELSE Dispatch(c, w, ch)
    OBVIOUS
  <1>9. PICK g : g = IF c.nread > HTTP_MAX_HEADER_SIZE THEN SET_ERRNO(e, "HEADER_OVERFLOW")
                     ELSE Dispatch(e, d, ch)
    OBVIOUS
  <1>10. Round(x, w) = IF Halted(f) THEN f ELSE [f EXCEPT !.pos = @ + 1]
    BY <1>3, <1>6, <1>7, <1>8 DEF Round, Onward, Counted
  <1>11. Round(z, d) = IF Halted(g) THEN g ELSE [g EXCEPT !.pos = @ + 1]
    BY <1>4, <1>5, <1>7, <1>9 DEF Round, Onward, Counted
  <1>12. CASE c.nread > HTTP_MAX_HEADER_SIZE
    <2>1. f = SET_ERRNO(c, "HEADER_OVERFLOW") /\ g = SET_ERRNO(e, "HEADER_OVERFLOW")
      BY <1>8, <1>9, <1>12
    <2>2. f.errno = "HEADER_OVERFLOW" /\ g.errno = "HEADER_OVERFLOW"
      BY <1>5, <2>1 DEF SET_ERRNO, IsParser, Fields
    <2>3. Round(x, w) = f /\ Round(z, d) = g
      BY <1>10, <1>11, <2>2 DEF Halted
    <2> QED
      BY <1>5, <2>1, <2>3, ErrorAgree
  <1>13. CASE ~(c.nread > HTTP_MAX_HEADER_SIZE)
    <2>1. Linked(S, u, d, w, c, e)
      BY <1>5, <1>13, HttpParserAssumption
    <2>2. f = Dispatch(c, w, ch) /\ g = Dispatch(e, d, ch)
      BY <1>8, <1>9, <1>13
    <2>3. Agree(w, b, f, g)
      BY <1>2, <2>1, <2>2, DispatchLinks
    <2>4. /\ Typed(S, Len(w), f) /\ Typed(S, Len(d), g)
      <3>1. /\ Going(S, Len(w), c) /\ Going(S, Len(d), e) /\ Marked(c) /\ Marked(e)
        BY <2>1 DEF Linked
      <3>2. Moved(S, Len(w), c, f)
        BY <1>1, <2>2, <3>1, DispatchStep
      <3>3. Moved(S, Len(d), e, g)
        BY <1>1, <2>2, <3>1, DispatchStep
      <3> QED
        BY <3>2, <3>3 DEF Moved
    <2>5. CASE f.errno # "OK"
      <3>1. Round(x, w) = f /\ Round(z, d) = g
        BY <1>10, <1>11, <2>3, <2>5 DEF Halted, Agree
      <3> QED
        BY <1>2, <2>3, <3>1
    <2>6. CASE f.errno = "OK"
      <3>1. f.pos = g.pos + b /\ (Level(f, g) \/ Marking(w, b, f, g)) /\ f.errno = g.errno
        BY <2>3, <2>6 DEF Agree
      <3>2. f.returned = g.returned
        BY <3>1 DEF Level, Marking, Abreast, Behind, Same
      <3>3. CASE f.returned
        <4>1. Halted(f) /\ Halted(g)
          BY <3>2, <3>3 DEF Halted
        <4>2. Round(x, w) = f /\ Round(z, d) = g
          BY <1>10, <1>11, <4>1
        <4> QED
          BY <1>2, <2>3, <4>2
      <3>4. CASE ~f.returned
        <4>1. ~Halted(f) /\ ~Halted(g)
          BY <2>6, <3>1, <3>2, <3>4 DEF Halted
        <4>2. PICK r : r = [f EXCEPT !.pos = @ + 1]
          OBVIOUS
        <4>3. PICK t : t = [g EXCEPT !.pos = @ + 1]
          OBVIOUS
        <4>4. Round(x, w) = r /\ Round(z, d) = t
          BY <1>10, <1>11, <4>1, <4>2, <4>3
        <4>5. /\ r.pos = f.pos + 1 /\ t.pos = g.pos + 1 /\ r.returned = f.returned
              /\ r.mark = f.mark /\ r.from = f.from /\ r.resumed = f.resumed /\ r.out = f.out
              /\ t.mark = g.mark /\ t.from = g.from /\ t.resumed = g.resumed /\ t.out = g.out
          BY <2>4, <4>2, <4>3 DEF Typed, IsParser, Fields
        <4>6. Same(f, g)
          BY <3>1 DEF Level, Marking, Abreast, Behind
        <4>7. Same(r, t)
          BY <2>4, <4>2, <4>3, <4>6 DEF Typed, IsParser, Fields, Same
        <4>8. r.pos = t.pos + b
          BY <1>2, <2>4, <3>1, <4>5 DEF Typed
        <4>9. CASE Level(f, g)
          <5>1. Level(r, t)
            BY <4>5, <4>7, <4>9 DEF Level
          <5> QED
            BY <1>2, <4>4, <4>8, <5>1, LevelAgree
        <4>10. CASE Marking(w, b, f, g)
          <5>1. Marking(w, b, r, t)
            BY <4>5, <4>7, <4>10, KeepLinks
          <5> QED
            BY <1>2, <3>4, <4>4, <4>5, <4>8, <5>1, MarkingAgree
        <4> QED
          BY <3>1, <4>9, <4>10
      <3> QED
        BY <3>3, <3>4
    <2> QED
      BY <2>5, <2>6
  <1> QED
    BY <1>12, <1>13

(***************************************************************************)
(* A parser in the first part u of the bytes w does what it does in all of *)
(* them, until a body goes past the end of u.                              *)
(***************************************************************************)

\* A parser is its fields.
LEMMA SameParser ==
  ASSUME NEW r, NEW t, IsParser(r), IsParser(t), \A f \in Fields : r[f] = t[f]
  PROVE  r = t
  BY DEF IsParser

\* A parser inside a buffer is inside a longer one.
LEMMA Wider ==
  ASSUME NEW S, NEW b \in Nat, NEW n \in Nat, b <= n, NEW s, Inside(S, b, s)
  PROVE  Inside(S, n, s)
  <1>1. 1 .. b + 1 \subseteq 1 .. n + 1
    OBVIOUS
  <1> QED
    BY <1>1 DEF Inside, Typed

\* What the callbacks are given for bytes of the first part.
LEMMA CloseSame ==
  ASSUME NEW S, NEW u, NEW d, NEW w, Cut(S, u, d, w), NEW s, NEW kind, NEW e \in Nat, e <= Len(u),
         s.from \in Nat, 1 <= s.from, s.from <= e + 1
  PROVE  CALLBACK_DATA(s, w, kind, e) = CALLBACK_DATA(s, u, kind, e)
  <1>1. PICK a \in Nat : a = s.from
    OBVIOUS
  <1>2. 1 <= a /\ a <= e + 1
    BY <1>1
  <1>3. SubSeq(w, a, e) = SubSeq(u, a, e)
    BY <1>2, PartOfFirst
  <1> QED
    BY <1>1, <1>3 DEF CALLBACK_DATA

Crosses(s, n) == s.state \in {"s_body_identity", "s_chunk_data"} /\ s.content_length > n - s.pos + 1

\* A body that ends in the first part.
LEMMA ReadBodySame ==
  ASSUME NEW S, NEW u, NEW d, NEW w, Cut(S, u, d, w), NEW s, Going(S, Len(u), s), Marked(s),
         s.state \in {"s_body_identity", "s_chunk_data"}, ~Crosses(s, Len(u))
  PROVE  ReadBody(s, w) = ReadBody(s, u)
  <1>1. /\ w \in Seq(S) /\ u \in Seq(S) /\ Len(u) \in Nat /\ Len(d) \in Nat /\ Len(w) = Len(u) + Len(d)
    BY CutFacts
  <1>2. PICK b \in Nat : b = Len(u)
    BY <1>1
  <1>3. PICK n \in Nat : n = Len(w) /\ b <= n
    BY <1>1, <1>2
  <1>4. /\ s.content_length \in Nat /\ s.pos \in Nat /\ 1 <= s.pos /\ s.pos <= b
        /\ s.content_length <= b - s.pos + 1 /\ s.content_length # 0
    BY <1>2, HttpParserAssumption DEF Going, Typed, Marked, Crosses, ULLONG_MAX
  <1>5. Min({s.content_length, Len(w) - s.pos + 1}) = s.content_length
    <2>1. PICK k \in Nat : k = n - s.pos + 1 /\ s.content_length <= k
      BY <1>3, <1>4
    <2>2. {s.content_length, k} \in SUBSET Nat /\ {s.content_length, k} # {}
      BY <1>4
    <2>3. PICK m : m = Min({s.content_length, k})
      OBVIOUS
    <2>4. m \in {s.content_length, k} /\ \A y \in {s.content_length, k} : m <= y
      BY <2>2, <2>3, MinFacts
    <2>5. m = s.content_length
      BY <1>4, <2>1, <2>4
    <2> QED
      BY <1>3, <2>1, <2>3, <2>5
  <1>6. Min({s.content_length, Len(u) - s.pos + 1}) = s.content_length
    <2>1. PICK k \in Nat : k = b - s.pos + 1 /\ s.content_length <= k
      BY <1>4
    <2>2. {s.content_length, k} \in SUBSET Nat /\ {s.content_length, k} # {}
      BY <1>4
    <2>3. PICK m : m = Min({s.content_length, k})
      OBVIOUS
    <2>4. m \in {s.content_length, k} /\ \A y \in {s.content_length, k} : m <= y
      BY <2>2, <2>3, MinFacts
    <2>5. m = s.content_length
      BY <1>4, <2>1, <2>4
    <2> QED
      BY <1>2, <2>1, <2>3, <2>5
  <1> QED
    BY <1>5, <1>6 DEF ReadBody

\* Whatever state the parser is in, it does not see what is behind the cut.
LEMMA DispatchSame ==
  ASSUME NEW S, NEW u, NEW d, NEW w, Cut(S, u, d, w), NEW s, Going(S, Len(u), s), Marked(s),
         ~Crosses(s, Len(u)), NEW ch
  PROVE  Dispatch(s, w, ch) = Dispatch(s, u, ch)
  <1>1. /\ u \in Seq(S) /\ Len(u) \in Nat
    BY CutFacts
  <1>2. /\ s.pos \in 1 .. Len(u) /\ s.from \in Nat /\ 1 <= s.from
        /\ s.mark # "none" => s.from <= s.pos
    BY <1>1 DEF Going, Typed, Marked
  <1>3. PICK e \in Nat : e = s.pos - 1 /\ e <= Len(u)
    BY <1>1, <1>2
  <1>4. ASSUME NEW kind \in Marks, NEW m, m.mark = s.mark, m.from = s.from
        PROVE  CALLBACK_DATA(m, w, kind, s.pos - 1) = CALLBACK_DATA(m, u, kind, s.pos - 1)
    <2>1. CASE m.mark # kind
      BY <2>1 DEF CALLBACK_DATA
    <2>2. CASE m.mark = kind
      <3>1. m.mark # "none"
        BY <2>2 DEF Marks
      <3>2. m.from \in Nat /\ 1 <= m.from /\ m.from <= e + 1
        BY <1>2, <1>3, <1>4, <3>1
      <3> QED
        BY <1>3, <3>2, CloseSame
    <2> QED
      BY <2>1, <2>2
  <1>5. "url" \in Marks /\ "header_field" \in Marks /\ "header_value" \in Marks /\ "body" \in Marks
    BY DEF Marks
  <1>6. CASE s.state \in UrlStates
    <2>1. Dispatch(s, w, ch) = InUrl(s, w, ch) /\ Dispatch(s, u, ch) = InUrl(s, u, ch)
      BY <1>6 DEF Dispatch, UrlStates, UrlMayEnd
    <2>2. CALLBACK_DATA(s, w, "url", s.pos - 1) = CALLBACK_DATA(s, u, "url", s.pos - 1)
      BY <1>4, <1>5
    <2> QED
      BY <2>1, <2>2 DEF InUrl
  <1>7. CASE s.state = "s_header_field"
    <2>1. Dispatch(s, w, ch) = HeaderField(s, w, ch) /\ Dispatch(s, u, ch) = HeaderField(s, u, ch)
      BY <1>7 DEF Dispatch, UrlStates, UrlMayEnd
    <2>2. CALLBACK_DATA(s, w, "header_field", s.pos - 1) = CALLBACK_DATA(s, u, "header_field", s.pos - 1)
      BY <1>4, <1>5
    <2> QED
      BY <2>1, <2>2 DEF HeaderField
  <1>8. CASE s.state = "s_header_value"
    <2>1. Dispatch(s, w, ch) = HeaderValue(s, w, ch) /\ Dispatch(s, u, ch) = HeaderValue(s, u, ch)
      BY <1>8 DEF Dispatch, UrlStates, UrlMayEnd
    <2>2. CALLBACK_DATA(s, w, "header_value", s.pos - 1) = CALLBACK_DATA(s, u, "header_value", s.pos - 1)
      BY <1>4, <1>5
    <2> QED
      BY <2>1, <2>2 DEF HeaderValue
  <1>9. CASE s.state = "s_header_value_start"
    <2>1. Dispatch(s, w, ch) = HeaderValueStart(s, w, ch) /\ Dispatch(s, u, ch) = HeaderValueStart(s, u, ch)
      BY <1>9 DEF Dispatch, UrlStates, UrlMayEnd
    <2>2. PICK m : m = To(MARK(s, "header_value"), "s_header_value")
      OBVIOUS
    <2>3. m.from = s.pos
      <3>1. s.mark = "none"
        BY <1>9, StateFacts DEF Plain, Marked
      <3> QED
        BY <2>2, <3>1, ValueMarked, <1>1
    <2>4. m.from \in Nat /\ 1 <= m.from /\ m.from <= e + 1
      BY <1>2, <1>3, <2>3
    <2>5. CALLBACK_DATA(m, w, "header_value", s.pos - 1) = CALLBACK_DATA(m, u, "header_value", s.pos - 1)
      BY <1>3, <2>4, CloseSame
    <2> QED
      BY <2>1, <2>2, <2>5 DEF HeaderValueStart
  <1>10. CASE s.state = "s_body_identity"
    <2>1. Dispatch(s, w, ch) = BodyIdentity(s, w) /\ Dispatch(s, u, ch) = BodyIdentity(s, u)
      BY <1>10 DEF Dispatch, UrlStates, UrlMayEnd
    <2>2. PICK r : r = ReadBody(s, u)
      OBVIOUS
    <2>3. ReadBody(s, w) = r
      BY <1>10, <2>2, ReadBodySame
    <2>4. r.from \in 1 .. s.pos /\ r.pos \in s.pos .. Len(u)
      BY <1>1, <1>10, <2>2, ReadBodyFacts
    <2>5. PICK g \in Nat : g = r.pos /\ g <= Len(u) /\ r.from \in Nat /\ 1 <= r.from /\ r.from <= g + 1
      BY <1>1, <1>2, <2>4
    <2>6. CALLBACK_DATA(r, w, "body", r.pos) = CALLBACK_DATA(r, u, "body", r.pos)
      BY <2>5, CloseSame
    <2> QED
      BY <2>1, <2>2, <2>3, <2>6 DEF BodyIdentity
  <1>11. CASE s.state = "s_chunk_data"
    <2>1. Dispatch(s, w, ch) = ChunkData(s, w) /\ Dispatch(s, u, ch) = ChunkData(s, u)
      BY <1>11 DEF Dispatch, UrlStates, UrlMayEnd
    <2>2. ReadBody(s, w) = ReadBody(s, u)
      BY <1>11, ReadBodySame
    <2> QED
      BY <2>1, <2>2 DEF ChunkData
  <1>12. CASE s.state = "s_chunk_data_almost_done"
    <2>1. /\ Dispatch(s, w, ch) = ChunkDataAlmostDone(s, w, ch)
          /\ Dispatch(s, u, ch) = ChunkDataAlmostDone(s, u, ch)
      BY <1>12 DEF Dispatch, UrlStates, UrlMayEnd
    <2>2. PICK m : m = To(s, "s_chunk_data_done")
      OBVIOUS
    <2>3. m.mark = s.mark /\ m.from = s.from
      BY <2>2 DEF To, Going, Typed, IsParser, Fields
    <2>4. CALLBACK_DATA(m, w, "body", s.pos - 1) = CALLBACK_DATA(m, u, "body", s.pos - 1)
      BY <1>4, <1>5, <2>3
    <2> QED
      BY <2>1, <2>2, <2>4 DEF ChunkDataAlmostDone
  <1>13. CASE s.state \in Plain \ {"s_header_value_start"}
    BY <1>13 DEF Dispatch, Plain, UrlStates, UrlMayEnd
  <1> QED
    BY <1>6, <1>7, <1>8, <1>9, <1>10, <1>11, <1>12, <1>13, StateFacts DEF Going, Typed, Named,
       ReadsBody

\* A round in the first part.
LEMMA RoundSame ==
  ASSUME NEW S, NEW u, NEW d, NEW w, Cut(S, u, d, w), NEW s, Inside(S, Len(u), s), ~Halted(s),
         s.pos <= Len(u), ~Crosses(s, Len(u))
  PROVE  Round(s, w) = Round(s, u)
  <1>1. /\ u \in Seq(S) /\ Len(u) \in Nat /\ \A i \in 1 .. Len(u) : w[i] = u[i]
    BY CutFacts
  <1>2. PICK c : c = Counted(s)
    OBVIOUS
  <1>3. /\ Typed(S, Len(u), c) /\ Marked(c) /\ ~Halted(c)
        /\ c.state = s.state /\ c.pos = s.pos /\ c.content_length = s.content_length
    BY <1>1, <1>2, CountedFacts DEF Fields
  <1>4. PICK ch : ch = u[s.pos]
    OBVIOUS
  <1>5. w[s.pos] = ch
    <2>1. s.pos \in 1 .. Len(u)
      BY <1>1 DEF Inside, Typed
    <2> QED
      BY <1>1, <1>4, <2>1
  <1>6. ASSUME ~(c.nread > HTTP_MAX_HEADER_SIZE)
        PROVE  Dispatch(c, w, ch) = Dispatch(c, u, ch)
    <2>1. Going(S, Len(u), c)
      BY <1>3, <1>6, HttpParserAssumption DEF Going, Typed
    <2>2. ~Crosses(c, Len(u))
      BY <1>3 DEF Crosses
    <2> QED
      BY <1>3, <2>1, <2>2, DispatchSame
  <1>7. /\ Round(s, w) = LET r == IF c.nread > HTTP_MAX_HEADER_SIZE THEN SET_ERRNO(c, "HEADER_OVERFLOW")
                                  ELSE Dispatch(c, w, ch)
                         IN  IF Halted(r) THEN r ELSE [r EXCEPT !.pos = @ + 1]
        /\ Round(s, u) = LET r == IF c.nread > HTTP_MAX_HEADER_SIZE THEN SET_ERRNO(c, "HEADER_OVERFLOW")
                                  ELSE Dispatch(c, u, ch)
                         IN  IF Halted(r) THEN r ELSE [r EXCEPT !.pos = @ + 1]
    BY <1>2, <1>4, <1>5 DEF Round, Onward, Counted
  <1> QED
    BY <1>6, <1>7

\* Of l bytes that begin at p, a buffer that ends at n leaves c and ends the read at e.
Takes(n, p, l, c, e) ==
  /\ n \in Nat /\ p \in Nat /\ l \in Nat /\ c \in Nat /\ e \in Nat /\ e <= n
  /\ e - p + 1 = l - c /\ (c = 0 \/ e = n) /\ (l <= n - p + 1 => c = 0)

\* What is taken of a length in two reads is what one takes of it.
LEMMA TakesTwice ==
  ASSUME NEW b \in Nat, NEW n \in Nat, NEW p \in Nat, NEW l \in Nat, NEW k \in Nat,
         NEW xc \in Nat, NEW xp \in Nat, NEW yc \in Nat, NEW yp \in Nat,
         Takes(n, p, l, xc, xp), Takes(n, b + 1, k, yc, yp),
         p <= b, b + 1 <= n, k = l - (b - p + 1)
  PROVE  xc = yc /\ xp = yp
  <1>1. CASE l <= n - p + 1
    <2>1. k <= n - (b + 1) + 1
      BY <1>1
    <2>2. xc = 0 /\ yc = 0
      BY <1>1, <2>1 DEF Takes
    <2> QED
      BY <2>2 DEF Takes
  <1>2. CASE l > n - p + 1
    <2>1. xc # 0 /\ yc # 0
      BY <1>2 DEF Takes
    <2>2. xp = n /\ yp = n
      BY <2>1 DEF Takes
    <2> QED
      BY <2>2 DEF Takes
  <1> QED
    BY <1>1, <1>2

ReadOn(s, data) == [ReadBody(s, data) EXCEPT !.pos = @ + 1]

\* A body that goes past the end of the first part is read there, and the rest of
\* it behind: together that is what is read of it at once.
LEMMA ReadBodyTwice ==
  ASSUME NEW S, NEW u, NEW d, NEW w, Cut(S, u, d, w), d # <<>>, NEW s, Going(S, Len(u), s),
         Marked(s),
         Crosses(s, Len(u))
  PROVE  LET q == ReadBody(s, u)
             r == ReadOn(s, u)
         IN  /\ r.pos = Len(u) + 1 /\ Going(S, Len(w), r) /\ Marked(r) /\ ~Halted(r)
             /\ r.state = s.state /\ r.nread = s.nread /\ r.mark = "body" /\ r.from < r.pos
             /\ ReadBody(r, w) = ReadBody(s, w)
             /\ q.content_length # 0 /\ ~Halted(q)
  <1>0. PICK q : q = ReadBody(s, u)
    OBVIOUS
  <1>25. PICK r : r = [q EXCEPT !.pos = @ + 1]
    OBVIOUS
  <1>1. /\ w \in Seq(S) /\ u \in Seq(S) /\ d \in Seq(S) /\ Len(u) \in Nat /\ Len(d) \in Nat
        /\ Len(w) = Len(u) + Len(d)
    BY CutFacts
  <1>2. PICK b \in Nat : b = Len(u)
    BY <1>1
  <1>3. PICK n \in Nat : n = Len(w) /\ b + 1 <= n
    <2>1. Len(d) # 0
      BY <1>1
    <2> QED
      BY <1>1, <1>2, <2>1
  <1>4. /\ IsParser(s) /\ s.content_length \in 0 .. ULLONG_MAX /\ s.content_length \in Nat /\ s.pos \in Nat
        /\ 1 <= s.pos /\ s.pos <= b
        /\ s.content_length > b - s.pos + 1 /\ s.state \in {"s_body_identity", "s_chunk_data"}
        /\ s.from \in 1 .. b + 1 /\ s.out \in Seq(Events(S))
    BY <1>2, HttpParserAssumption DEF Going, Typed, Crosses, ULLONG_MAX
  <1>5. s.state \in {"s_body_identity", "s_chunk_data"}
    BY DEF Crosses
  <1>6. /\ IsParser(q)
        /\ \A f \in {"state", "header_state", "flags", "nread", "http", "method", "upgrade",
                     "errno", "returned", "out"} : q[f] = s[f]
        /\ q.mark = "body" /\ q.from \in 1 .. s.pos /\ q.resumed \in BOOLEAN
        /\ s.mark = "body" => q.from = s.from /\ q.resumed = s.resumed
        /\ s.mark # "body" => q.from = s.pos /\ ~q.resumed
        /\ q.content_length \in 0 .. s.content_length
        /\ q.pos \in s.pos .. b
        /\ q.pos - s.pos + 1 = s.content_length - q.content_length
        /\ q.content_length = 0 \/ q.pos = b
    <2>1. u \in Seq(S) /\ b = Len(u) /\ Going(S, b, s) /\ Marked(s)
      BY <1>1, <1>2
    <2> QED
      BY <1>0, <1>5, <2>1, ReadBodyFacts
  <1>7. q.content_length # 0 /\ q.pos = b /\ q.content_length \in Nat /\ q.content_length <= s.content_length
        /\ q.content_length = s.content_length - (b - s.pos + 1)
    <2>1. q.content_length \in Nat /\ q.pos \in Nat /\ q.pos <= b /\ q.content_length <= s.content_length
      BY <1>4, <1>6
    <2>4. /\ s.content_length \in Nat /\ s.pos \in Nat /\ s.content_length > b - s.pos + 1
          /\ q.pos - s.pos + 1 = s.content_length - q.content_length
      BY <1>4, <1>6
    <2>2. q.content_length # 0
      BY <2>1, <2>4
    <2>3. q.pos = b
      BY <1>6, <2>2
    <2> QED
      BY <2>1, <2>2, <2>3, <2>4
  <1>8. IsParser(r)
    BY <1>25, <1>6 DEF IsParser
  <1>9. r.pos = b + 1 /\ \A f \in Fields \ {"pos"} : r[f] = q[f]
    BY <1>25, <1>6, <1>7 DEF IsParser, Fields
  <1>10. /\ r.state = s.state /\ r.header_state = s.header_state /\ r.flags = s.flags /\ r.nread = s.nread
         /\ r.http = s.http /\ r.method = s.method /\ r.upgrade = s.upgrade /\ r.errno = s.errno
         /\ r.returned = s.returned /\ r.out = s.out
         /\ r.mark = "body" /\ r.from = q.from /\ r.resumed = q.resumed
         /\ r.content_length = q.content_length
    BY <1>6, <1>9 DEF Fields
  <1>11. r.from \in 1 .. b /\ r.from < r.pos
    <2>1. q.from \in 1 .. s.pos /\ r.from = q.from /\ r.pos = b + 1
      BY <1>6, <1>9, <1>10
    <2>2. s.pos \in Nat /\ s.pos <= b
      BY <1>4
    <2> QED
      BY <2>1, <2>2
  <1>12. Going(S, n, r) /\ ~Halted(r)
    <2>1. r.pos \in 1 .. n + 1 /\ r.from \in 1 .. n + 1 /\ r.pos <= n
      BY <1>3, <1>9, <1>11
    <2>2. r.content_length \in 0 .. ULLONG_MAX
      BY <1>4, <1>7, <1>10, HttpParserAssumption DEF ULLONG_MAX
    <2>3. /\ s.state \in States /\ s.nread \in 0 .. HTTP_MAX_HEADER_SIZE + 1 /\ s.returned \in BOOLEAN
          /\ s.upgrade \in BOOLEAN /\ ~Halted(s) /\ s.nread <= HTTP_MAX_HEADER_SIZE
      BY DEF Going, Typed
    <2>4. r.resumed \in BOOLEAN /\ r.upgrade \in BOOLEAN /\ r.returned \in BOOLEAN
      BY <1>6, <1>10, <2>3
    <2>5. r.mark \in Marks
      BY <1>10 DEF Marks
    <2> QED
      BY <1>4, <1>8, <1>10, <2>1, <2>2, <2>3, <2>4, <2>5 DEF Going, Typed, Halted
  <1>13. Marked(r)
    <2>1. r.state \in ReadsBody /\ r.state \notin UrlStates \cup Named
      BY <1>4, <1>10, StateFacts DEF ReadsBody
    <2>2. r.content_length # 0 /\ r.from <= r.pos
      BY <1>7, <1>9, <1>10, <1>11
    <2> QED
      BY <1>10, <2>1, <2>2 DEF Marked, Named
  <1>14. Going(S, n, s)
    <2>1. Typed(S, n, s) /\ s.pos <= n
      <3>1. 1 .. b + 1 \subseteq 1 .. n + 1 /\ s.pos <= n
        BY <1>3, <1>4
      <3> QED
        BY <1>2, <3>1 DEF Going, Typed
    <2> QED
      BY <2>1 DEF Going
  <1>15. PICK x : x = ReadBody(s, w)
    OBVIOUS
  <1>16. PICK y : y = ReadBody(r, w)
    OBVIOUS
  <1>17. /\ IsParser(x)
         /\ \A f \in {"state", "header_state", "flags", "nread", "http", "method", "upgrade",
                      "errno", "returned", "out"} : x[f] = s[f]
         /\ x.mark = "body" /\ x.resumed \in BOOLEAN
         /\ s.mark = "body" => x.from = s.from /\ x.resumed = s.resumed
         /\ s.mark # "body" => x.from = s.pos /\ ~x.resumed
         /\ x.content_length \in 0 .. s.content_length
         /\ x.pos \in s.pos .. n
         /\ x.pos - s.pos + 1 = s.content_length - x.content_length
         /\ x.content_length = 0 \/ x.pos = n
         /\ s.content_length <= n - s.pos + 1 => x.content_length = 0
    <2>1. w \in Seq(S) /\ n = Len(w) /\ Going(S, n, s) /\ Marked(s)
      BY <1>1, <1>3, <1>14
    <2> QED
      BY <1>5, <1>15, <2>1, ReadBodyFacts
  <1>18. /\ IsParser(y)
         /\ \A f \in {"state", "header_state", "flags", "nread", "http", "method", "upgrade",
                      "errno", "returned", "out"} : y[f] = r[f]
         /\ y.mark = "body" /\ y.resumed \in BOOLEAN
         /\ r.mark = "body" => y.from = r.from /\ y.resumed = r.resumed
         /\ y.content_length \in 0 .. r.content_length
         /\ y.pos \in r.pos .. n
         /\ y.pos - r.pos + 1 = r.content_length - y.content_length
         /\ y.content_length = 0 \/ y.pos = n
         /\ r.content_length <= n - r.pos + 1 => y.content_length = 0
    <2>1. w \in Seq(S) /\ n = Len(w) /\ Going(S, n, r) /\ Marked(r)
      BY <1>1, <1>3, <1>12, <1>13
    <2>2. r.state \in {"s_body_identity", "s_chunk_data"}
      BY <1>5, <1>10
    <2> QED
      BY <1>16, <2>1, <2>2, ReadBodyFacts
  <1>19. x.content_length = y.content_length /\ x.pos = y.pos
    <2>1. PICK p \in Nat : p = s.pos /\ 1 <= p /\ p <= b
      BY <1>4
    <2>2. PICK l \in Nat : l = s.content_length /\ l > b - p + 1
      BY <1>4, <2>1
    <2>3. PICK k \in Nat : k = r.content_length /\ k = l - (b - p + 1)
      BY <1>7, <1>10, <2>1, <2>2
    <2>4. PICK xc \in Nat : xc = x.content_length
      BY <1>4, <1>17
    <2>5. PICK xp \in Nat : xp = x.pos /\ xp <= n
      BY <1>4, <1>17
    <2>6. PICK yc \in Nat : yc = y.content_length
      BY <1>7, <1>10, <1>18
    <2>7. PICK yp \in Nat : yp = y.pos /\ yp <= n
      BY <1>9, <1>18
    <2>8. Takes(n, p, l, xc, xp)
      BY <1>17, <2>1, <2>2, <2>4, <2>5 DEF Takes
    <2>9. Takes(n, b + 1, k, yc, yp)
      BY <1>9, <1>18, <2>3, <2>6, <2>7 DEF Takes
    <2>10. xc = yc /\ xp = yp
      BY <1>3, <2>1, <2>3, <2>8, <2>9, TakesTwice
    <2> QED
      BY <2>4, <2>5, <2>6, <2>7, <2>10
  <1>20. x.from = y.from /\ x.resumed = y.resumed
    <2>1. y.from = q.from /\ y.resumed = q.resumed
      BY <1>10, <1>18
    <2>2. CASE s.mark = "body"
      BY <1>6, <1>17, <2>1, <2>2
    <2>3. CASE s.mark # "body"
      <3>1. x.from = s.pos /\ q.from = s.pos /\ ~x.resumed /\ ~q.resumed
        BY <1>6, <1>17, <2>3
      <3>2. x.resumed = q.resumed
        BY <1>6, <1>17, <3>1
      <3> QED
        BY <2>1, <3>1, <3>2
    <2> QED
      BY <2>2, <2>3
  <1>21. x = y
    <2>1. /\ x.state = y.state /\ x.header_state = y.header_state /\ x.flags = y.flags /\ x.nread = y.nread
          /\ x.http = y.http /\ x.method = y.method /\ x.upgrade = y.upgrade /\ x.errno = y.errno
          /\ x.returned = y.returned /\ x.out = y.out /\ x.mark = y.mark
      BY <1>10, <1>17, <1>18
    <2>2. \A f \in Fields : x[f] = y[f]
      BY <1>19, <1>20, <2>1 DEF Fields
    <2> QED
      BY <1>17, <1>18, <2>2, SameParser
  <1>22. ~Halted(q)
    BY <1>9, <1>12 DEF Halted, Fields
  <1>23. r = ReadOn(s, u)
    BY <1>0, <1>25 DEF ReadOn
  <1>24. r.pos = Len(u) + 1 /\ Going(S, Len(w), r) /\ r.mark = "body" /\ ReadBody(r, w) = ReadBody(s, w)
    BY <1>2, <1>3, <1>9, <1>10, <1>12, <1>15, <1>16, <1>21
  <1> QED
    BY <1>0, <1>7, <1>10, <1>11, <1>12, <1>13, <1>22, <1>23, <1>24

\* A round that goes past the end of the first part.
LEMMA RoundCrosses ==
  ASSUME NEW S, NEW u, NEW d, NEW w, Cut(S, u, d, w), d # <<>>, NEW s, Inside(S, Len(u), s),
         ~Halted(s),
         s.pos <= Len(u), Crosses(s, Len(u))
  PROVE  LET r == Round(s, u)
         IN  /\ r.pos = Len(u) + 1 /\ ~Halted(r) /\ Inside(S, Len(w), r)
             /\ r.mark # "none" => r.from < r.pos
             /\ Round(r, w) = Round(s, w)
  <1>1. Going(S, Len(u), s) /\ Marked(s) /\ s.nread \in Nat /\ s.nread <= HTTP_MAX_HEADER_SIZE
    BY HttpParserAssumption DEF Inside, Going, Typed
  <1>0. PICK q : q = ReadBody(s, u)
    OBVIOUS
  <1>2. PICK r : r = ReadOn(s, u)
    OBVIOUS
  <1>3. /\ r.pos = Len(u) + 1 /\ Going(S, Len(w), r) /\ Marked(r) /\ ~Halted(r)
        /\ r.state = s.state /\ r.nread = s.nread /\ r.mark = "body" /\ r.from < r.pos
        /\ ReadBody(r, w) = ReadBody(s, w)
        /\ q.content_length # 0 /\ ~Halted(q)
    BY <1>0, <1>1, <1>2, ReadBodyTwice
  <1>4. s.state \in {"s_body_identity", "s_chunk_data"} /\ s.state \in BodyStates
    BY DEF Crosses, BodyStates
  <1>5. ~(s.nread > HTTP_MAX_HEADER_SIZE)
    BY <1>1, HttpParserAssumption
  <1>6. \A ch : Dispatch(s, u, ch) = q
    BY <1>0, <1>3, <1>4 DEF Dispatch, UrlStates, UrlMayEnd, BodyIdentity, ChunkData
  <1>7. Round(s, u) = r
    BY <1>0, <1>2, <1>3, <1>4, <1>5, <1>6 DEF Round, Onward, ReadOn
  <1>8. \A c1, c2 : Dispatch(s, w, c1) = Dispatch(r, w, c2)
    <2>1. ReadBody(s, w) = ReadBody(r, w) /\ s.state = r.state
      BY <1>3
    <2> QED
      BY <1>4, <2>1 DEF Dispatch, UrlStates, UrlMayEnd, BodyIdentity, ChunkData
  <1>9. Round(s, w) = LET t == Dispatch(s, w, w[s.pos]) IN IF Halted(t) THEN t ELSE [t EXCEPT !.pos = @ + 1]
    BY <1>4, <1>5 DEF Round, Onward
  <1>10. Round(r, w) = LET t == Dispatch(r, w, w[r.pos]) IN IF Halted(t) THEN t ELSE [t EXCEPT !.pos = @ + 1]
    BY <1>3, <1>4, <1>5 DEF Round, Onward
  <1>11. Round(r, w) = Round(s, w)
    BY <1>8, <1>9, <1>10
  <1>12. Inside(S, Len(w), r)
    BY <1>3 DEF Going, Inside
  <1> QED
    BY <1>3, <1>7, <1>11, <1>12

(***************************************************************************)
(* Where the loop ends, from a parser that is in it.                       *)
(***************************************************************************)
Ends(w, s, e) == \E a : Loops(a, s, w) /\ e = a[Len(w)]

Stopped(n, s) == Halted(s) \/ s.pos > n

\* The loop ends somewhere.
LEMMA EndsExists ==
  ASSUME NEW s, NEW w, Len(w) \in Nat
  PROVE  \E e : Ends(w, s, e)
  <1>1. PICK f : Loop(f, Len(w), s, w)
    BY LoopExists
  <1>2. Loops(f, s, w)
    BY <1>1, LoopLoops
  <1> QED
    BY <1>2 DEF Ends

\* A parser that has stopped ends where it is.
LEMMA EndsStopped ==
  ASSUME NEW w, Len(w) \in Nat, NEW s, Stopped(Len(w), s), NEW e, Ends(w, s, e)
  PROVE  e = s
  <1>1. PICK n \in Nat : n = Len(w)
    OBVIOUS
  <1>2. PICK a : Loops(a, s, w) /\ e = a[n]
    BY <1>1 DEF Ends
  <1> DEFINE T == {k \in 0 .. n : a[k] = s}
  <1>3. 0 \in T
    BY <1>2 DEF Loops
  <1>4. ASSUME NEW k \in T, k < n
        PROVE  k + 1 \in T
    <2>1. k + 1 \in 1 .. n /\ k + 1 \in 0 .. n /\ (k + 1) - 1 = k /\ a[k] = s
      BY <1>4
    <2>2. a[k + 1] = Advance(s, w)
      BY <1>1, <1>2, <2>1 DEF Loops
    <2>3. Advance(s, w) = s
      BY DEF Advance, Stopped
    <2> QED
      BY <2>1, <2>2, <2>3
  <1>5. T = 0 .. n
    <2>1. T \in SUBSET (0 .. n)
      OBVIOUS
    <2> HIDE DEF T
    <2> QED
      BY <1>3, <1>4, <2>1, BoundedInduction
  <1>6. n \in T
    BY <1>5
  <1> QED
    BY <1>2, <1>6

\* The loop ends in one place.
LEMMA EndsUnique ==
  ASSUME NEW w, Len(w) \in Nat, NEW s, NEW e, Ends(w, s, e), NEW f, Ends(w, s, f)
  PROVE  e = f
  <1>1. PICK n \in Nat : n = Len(w)
    OBVIOUS
  <1>2. PICK a : Loops(a, s, w) /\ e = a[n]
    BY <1>1 DEF Ends
  <1>3. PICK c : Loops(c, s, w) /\ f = c[n]
    BY <1>1 DEF Ends
  <1> DEFINE T == {k \in 0 .. n : a[k] = c[k]}
  <1>4. 0 \in T
    BY <1>2, <1>3 DEF Loops
  <1>5. ASSUME NEW k \in T, k < n
        PROVE  k + 1 \in T
    <2>1. k + 1 \in 1 .. n /\ k + 1 \in 0 .. n /\ (k + 1) - 1 = k /\ a[k] = c[k]
      BY <1>5
    <2>2. a[k + 1] = Advance(a[k], w) /\ c[k + 1] = Advance(c[k], w)
      BY <1>1, <1>2, <1>3, <2>1 DEF Loops
    <2> QED
      BY <2>1, <2>2
  <1>6. T = 0 .. n
    <2>1. T \in SUBSET (0 .. n)
      OBVIOUS
    <2> HIDE DEF T
    <2> QED
      BY <1>4, <1>5, <2>1, BoundedInduction
  <1>7. n \in T
    BY <1>6
  <1> QED
    BY <1>2, <1>3, <1>7

\* A round takes a byte at least: at the end the loop has stopped.
LEMMA LoopStops ==
  ASSUME NEW S, NEW w \in Seq(S), NEW n \in Nat, n = Len(w), NEW s, Inside(S, n, s), NEW a,
         Loops(a, s, w)
  PROVE  Stopped(n, a[n])
  <1> DEFINE T == {k \in 0 .. n : Halted(a[k]) \/ a[k].pos >= k + 1}
  <1>1. 0 \in T
    <2>1. a[0] = s /\ s.pos \in 1 .. n + 1
      BY DEF Loops, Inside, Typed
    <2> QED
      BY <2>1
  <1>2. ASSUME NEW k \in T, k < n
        PROVE  k + 1 \in T
    <2>1. k + 1 \in 1 .. n /\ k + 1 \in 0 .. n /\ (k + 1) - 1 = k /\ k \in 0 .. n
      BY <1>2
    <2>2. PICK x : x = a[k]
      OBVIOUS
    <2>3. Halted(x) \/ x.pos >= k + 1
      BY <2>2
    <2>4. Inside(S, n, x)
      BY <2>1, <2>2, LoopInside
    <2>5. PICK y : y = a[k + 1]
      OBVIOUS
    <2>6. y = Advance(x, w)
      BY <2>1, <2>2, <2>5 DEF Loops
    <2>7. x.pos \in 1 .. n + 1
      BY <2>4 DEF Inside, Typed
    <2>8. Halted(y) \/ y.pos >= (k + 1) + 1
      <3>1. CASE Halted(x)
        BY <2>6, <3>1 DEF Advance
      <3>2. CASE ~Halted(x) /\ x.pos > n
        <4>1. y = x
          BY <2>6, <3>2 DEF Advance
        <4>2. x.pos >= (k + 1) + 1
          BY <1>2, <2>1, <2>7, <3>2
        <4> QED
          BY <4>1, <4>2
      <3>3. CASE ~Halted(x) /\ x.pos <= n
        <4>1. y = Round(x, w)
          BY <2>6, <2>7, <3>3 DEF Advance
        <4>2. Inside(S, n, y) /\ (~Halted(y) => y.pos > x.pos)
          BY <2>4, <3>3, <4>1, RoundStep
        <4>3. y.pos \in 1 .. n + 1
          BY <4>2 DEF Inside, Typed
        <4> QED
          BY <2>1, <2>3, <2>7, <3>3, <4>2, <4>3
      <3> QED
        BY <2>7, <3>1, <3>2, <3>3
    <2> QED
      BY <2>1, <2>5, <2>8
  <1>3. T = 0 .. n
    <2>1. T \in SUBSET (0 .. n)
      OBVIOUS
    <2> HIDE DEF T
    <2> QED
      BY <1>1, <1>2, <2>1, BoundedInduction
  <1>4. n \in T
    BY <1>3
  <1>5. Inside(S, n, a[n])
    BY LoopInside
  <1>6. a[n].pos \in 1 .. n + 1
    BY <1>5 DEF Inside, Typed
  <1> QED
    BY <1>4, <1>6 DEF Stopped

\* The loop ends inside the buffer, and stopped.
LEMMA EndsInside ==
  ASSUME NEW S, NEW w \in Seq(S), NEW s, Inside(S, Len(w), s), NEW e, Ends(w, s, e)
  PROVE  Inside(S, Len(w), e) /\ Stopped(Len(w), e)
  <1>1. PICK n \in Nat : n = Len(w)
    OBVIOUS
  <1>2. PICK a : Loops(a, s, w) /\ e = a[n]
    BY <1>1 DEF Ends
  <1>3. Inside(S, n, a[n])
    BY <1>1, <1>2, LoopInside
  <1>4. Stopped(n, a[n])
    BY <1>1, <1>2, LoopStops
  <1> QED
    BY <1>1, <1>2, <1>3, <1>4

\* A round does not change where the loop ends.
LEMMA EndsRound ==
  ASSUME NEW S, NEW w \in Seq(S), NEW s, Inside(S, Len(w), s), ~Stopped(Len(w), s), NEW e,
         Ends(w, s, e)
  PROVE  Ends(w, Round(s, w), e)
  <1>1. PICK n \in Nat : n = Len(w)
    OBVIOUS
  <1>2. PICK a : Loops(a, s, w) /\ e = a[n]
    BY <1>1 DEF Ends
  <1>3. n >= 1
    <2>1. s.pos \in 1 .. n + 1 /\ ~(s.pos > n)
      BY <1>1 DEF Inside, Typed, Stopped
    <2> QED
      BY <2>1
  <1>4. Stopped(n, a[n])
    BY <1>1, <1>2, LoopStops
  <1>5. a[0] = s /\ \A j \in 1 .. n : a[j] = Advance(a[j - 1], w)
    BY <1>1, <1>2 DEF Loops
  <1>6. PICK c : c = [j \in 0 .. n |-> IF j = n THEN a[n] ELSE a[j + 1]]
    OBVIOUS
  <1>7. c[n] = a[n] /\ \A j \in 0 .. n - 1 : c[j] = a[j + 1]
    BY <1>6
  <1>8. c[0] = Round(s, w)
    <2>1. 0 \in 0 .. n - 1 /\ 1 \in 1 .. n
      BY <1>3
    <2>2. c[0] = a[1] /\ a[1] = Advance(a[0], w)
      BY <1>5, <1>7, <2>1
    <2> QED
      BY <1>1, <1>5, <2>2 DEF Advance, Stopped
  <1>9. ASSUME NEW j \in 1 .. n
        PROVE  c[j] = Advance(c[j - 1], w)
    <2>1. j - 1 \in 0 .. n - 1 /\ (j - 1) + 1 = j
      BY <1>9
    <2>2. c[j - 1] = a[j]
      BY <1>7, <2>1
    <2>3. CASE j = n
      <3>1. Advance(a[n], w) = a[n]
        BY <1>1, <1>4 DEF Advance, Stopped
      <3> QED
        BY <1>7, <2>2, <2>3, <3>1
    <2>4. CASE j # n
      <3>1. j \in 0 .. n - 1 /\ j + 1 \in 1 .. n /\ (j + 1) - 1 = j
        BY <1>9, <2>4
      <3>2. c[j] = a[j + 1] /\ a[j + 1] = Advance(a[j], w)
        BY <1>5, <1>7, <3>1
      <3> QED
        BY <2>2, <3>2
    <2> QED
      BY <2>3, <2>4
  <1>10. Loops(c, Round(s, w), w)
    BY <1>1, <1>8, <1>9 DEF Loops
  <1> QED
    BY <1>1, <1>2, <1>7, <1>10 DEF Ends

\* Where the loop ends after a round, it ends before it.
LEMMA EndsBefore ==
  ASSUME NEW S, NEW w \in Seq(S), NEW s, Inside(S, Len(w), s), ~Stopped(Len(w), s),
         NEW e, Ends(w, Round(s, w), e)
  PROVE  Ends(w, s, e)
  <1>0. Len(w) \in Nat
    OBVIOUS
  <1>1. PICK f : Ends(w, s, f)
    BY <1>0, EndsExists
  <1>2. Ends(w, Round(s, w), f)
    BY <1>1, EndsRound
  <1>3. e = f
    BY <1>2, EndsUnique
  <1> QED
    BY <1>1, <1>3

\* What is marked begins before the byte the parser is at.
Strict(s) == s.mark # "none" => s.from < s.pos

\* A parser that has read the first part goes on where it would have been in all
\* of the bytes.
FirstPart(u, w, b, S, k) ==
  \A s, y, e :
    /\ Inside(S, b, s) /\ Strict(s) /\ b + 1 - s.pos <= k /\ Ends(u, s, y) /\ Ends(w, s, e) /\ ~Halted(y)
    => y.pos = b + 1 /\ Ends(w, y, e) /\ Inside(S, Len(w), y) /\ Strict(y)

\* After a round there are fewer bytes left.
LEMMA RoundPos ==
  ASSUME NEW b \in Nat, NEW k \in Nat, NEW p \in 1 .. b + 1, NEW q \in 1 .. b + 1, q > p,
         b + 1 - p <= k + 1
  PROVE  b + 1 - q <= k
  OBVIOUS

\* With no byte left in the first part.
LEMMA FirstPartBase ==
  ASSUME NEW S, NEW u, NEW d, NEW w, Cut(S, u, d, w), NEW b \in Nat, b = Len(u),
         NEW s, NEW y, NEW e, Inside(S, b, s), Strict(s), Stopped(b, s), Ends(u, s, y), Ends(w, s, e), ~Halted(y)
  PROVE  y.pos = b + 1 /\ Ends(w, y, e) /\ Inside(S, Len(w), y) /\ Strict(y)
  <1>1. /\ Len(u) \in Nat /\ Len(w) \in Nat /\ b <= Len(w)
    <2>1. Len(u) \in Nat /\ Len(d) \in Nat /\ Len(w) = Len(u) + Len(d)
      BY CutFacts
    <2> QED
      BY <2>1
  <1>2. y = s
    BY <1>1, EndsStopped
  <1>3. s.pos \in 1 .. b + 1 /\ s.pos > b
    BY <1>2 DEF Inside, Typed, Stopped
  <1>4. s.pos = b + 1
    BY <1>3
  <1>5. Inside(S, Len(w), s)
    BY <1>1, Wider
  <1> QED
    BY <1>2, <1>4, <1>5

\* With one byte more in the first part.
LEMMA FirstPartStep ==
  ASSUME NEW S, NEW u, NEW d, NEW w, Cut(S, u, d, w), d # <<>>, NEW b \in Nat, b = Len(u),
         NEW k \in Nat, FirstPart(u, w, b, S, k)
  PROVE  FirstPart(u, w, b, S, k + 1)
  <1>1. SUFFICES ASSUME NEW s, NEW y, NEW e, Inside(S, b, s), Strict(s), b + 1 - s.pos <= k + 1,
                        Ends(u, s, y), Ends(w, s, e), ~Halted(y)
                 PROVE  y.pos = b + 1 /\ Ends(w, y, e) /\ Inside(S, Len(w), y) /\ Strict(y)
    BY DEF FirstPart
  <1>2. /\ Len(u) \in Nat /\ Len(w) \in Nat /\ b <= Len(w) /\ u \in Seq(S) /\ w \in Seq(S)
    <2>1. /\ Len(u) \in Nat /\ Len(d) \in Nat /\ Len(w) = Len(u) + Len(d) /\ u \in Seq(S) /\ w \in Seq(S)
      BY CutFacts
    <2> QED
      BY <2>1
  <1>3. CASE Stopped(b, s)
    BY <1>1, <1>3, FirstPartBase
  <1>4. CASE ~Stopped(b, s)
    <2>1. s.pos \in 1 .. b + 1 /\ ~(s.pos > b) /\ ~Halted(s)
      BY <1>1, <1>4 DEF Inside, Typed, Stopped
    <2>2. s.pos <= b /\ s.pos <= Len(w)
      BY <1>2, <2>1
    <2>3. ~Stopped(Len(w), s)
      BY <1>2, <2>1, <2>2 DEF Stopped
    <2>4. Inside(S, Len(w), s)
      BY <1>1, <1>2, Wider
    <2>5. PICK r : r = Round(s, u)
      OBVIOUS
    <2>6. Inside(S, b, r) /\ (~Halted(r) => r.pos > s.pos /\ Strict(r))
      BY <1>1, <1>2, <2>1, <2>2, <2>5, RoundStep DEF Strict
    <2>7. Ends(u, r, y)
      BY <1>1, <1>2, <1>4, <2>5, EndsRound
    <2>8. Ends(w, Round(s, w), e)
      BY <1>1, <1>2, <2>3, <2>4, EndsRound
    <2>9. ~Halted(r)
      <3>1. ASSUME Halted(r)
            PROVE  FALSE
        <4>1. y = r
          BY <1>2, <2>7, <3>1, EndsStopped DEF Stopped
        <4> QED
          BY <1>1, <3>1, <4>1
      <3> QED
        BY <3>1
    <2>10. CASE Crosses(s, b)
      <3>1. /\ r.pos = b + 1 /\ Inside(S, Len(w), r) /\ Round(r, w) = Round(s, w)
        BY <1>1, <2>1, <2>2, <2>5, <2>10, RoundCrosses
      <3>2. y = r
        <4>1. Stopped(b, r)
          BY <3>1 DEF Stopped
        <4> QED
          BY <1>2, <2>7, <4>1, EndsStopped
      <3>3. ~Stopped(Len(w), r)
        <4>1. Len(w) = Len(u) + Len(d) /\ Len(d) \in Nat /\ Len(d) # 0
          BY CutFacts DEF Cut
        <4> QED
          BY <2>9, <3>1, <4>1 DEF Stopped
      <3>4. Ends(w, r, e)
        BY <1>2, <2>8, <3>1, <3>3, EndsBefore
      <3> QED
        BY <2>6, <2>9, <3>1, <3>2, <3>4
    <2>11. CASE ~Crosses(s, b)
      <3>1. Round(s, w) = r
        BY <1>1, <2>1, <2>2, <2>5, <2>11, RoundSame
      <3>2. r.pos \in 1 .. b + 1
        BY <2>6 DEF Inside, Typed
      <3>3. b + 1 - r.pos <= k
        BY <1>1, <2>1, <2>6, <2>9, <3>2, RoundPos
      <3>4. Ends(w, r, e)
        BY <2>8, <3>1
      <3> QED
        BY <1>1, <2>6, <2>7, <2>9, <3>3, <3>4 DEF FirstPart
    <2> QED
      BY <2>10, <2>11
  <1> QED
    BY <1>3, <1>4

\* However many bytes are left.
LEMMA FirstPartAll ==
  ASSUME NEW S, NEW u, NEW d, NEW w, Cut(S, u, d, w), d # <<>>, NEW b \in Nat, b = Len(u)
  PROVE  FirstPart(u, w, b, S, b)
  <1> DEFINE T == {k \in 0 .. b : FirstPart(u, w, b, S, k)}
  <1>1. 0 \in T
    <2>1. FirstPart(u, w, b, S, 0)
      <3>1. SUFFICES ASSUME NEW s, NEW y, NEW e, Inside(S, b, s), Strict(s), b + 1 - s.pos <= 0,
                            Ends(u, s, y), Ends(w, s, e), ~Halted(y)
                     PROVE  y.pos = b + 1 /\ Ends(w, y, e) /\ Inside(S, Len(w), y) /\ Strict(y)
        BY DEF FirstPart
      <3>2. s.pos \in 1 .. b + 1
        BY <3>1 DEF Inside, Typed
      <3>3. Stopped(b, s)
        BY <3>1, <3>2 DEF Stopped
      <3> QED
        BY <3>1, <3>3, FirstPartBase
    <2> QED
      BY <2>1
  <1>2. ASSUME NEW k \in T, k < b
        PROVE  k + 1 \in T
    <2>1. k \in Nat /\ k + 1 \in 0 .. b /\ FirstPart(u, w, b, S, k)
      BY <1>2
    <2>2. FirstPart(u, w, b, S, k + 1)
      BY <2>1, FirstPartStep
    <2> QED
      BY <2>1, <2>2
  <1>3. T = 0 .. b
    <2>1. T \in SUBSET (0 .. b)
      OBVIOUS
    <2> HIDE DEF T
    <2> QED
      BY <1>1, <1>2, <2>1, BoundedInduction
  <1> QED
    BY <1>3

(***************************************************************************)
(* The parser that goes on with the rest of the bytes, and the one that    *)
(* has them all.                                                           *)
(***************************************************************************)
\* What a call leaves.
LEMMA FinishedFacts ==
  ASSUME NEW S, NEW w \in Seq(S), NEW n \in Nat, n = Len(w), NEW s, Inside(S, n, s)
  PROVE  LET r == Finished(s, w)
         IN  /\ IsParser(r)
             /\ \A f \in Fields \ {"pos", "mark", "from", "resumed", "out"} : r[f] = s[f]
             /\ r.pos = 1 /\ r.from = 1 /\ r.mark = "none" /\ ~r.resumed /\ r.resumed \in BOOLEAN
             /\ s.mark = "none" \/ Halted(s) => r.out = s.out
             /\ ~(s.mark = "none" \/ Halted(s)) => r.out = Closed(s, w, n)
  <1>1. PICK e : e = Flushed(s, w)
    OBVIOUS
  <1>2. PICK r : r = Finished(s, w)
    OBVIOUS
  <1>3. r = [e EXCEPT !.pos = 1, !.mark = "none", !.from = 1, !.resumed = FALSE]
    BY <1>1, <1>2 DEF Finished
  <1>4. Typed(S, n, s) /\ IsParser(s)
    BY DEF Inside, Typed
  <1>5. /\ IsParser(e)
        /\ \A f \in Fields \ {"mark", "resumed", "out"} : e[f] = s[f]
        /\ s.mark = "none" \/ Halted(s) => e.out = s.out
        /\ ~(s.mark = "none" \/ Halted(s)) => e.out = Closed(s, w, n)
    <2>1. CASE s.mark = "none" \/ Halted(s)
      <3>1. e = s
        BY <1>1, <2>1 DEF Flushed
      <3> QED
        BY <1>4, <2>1, <3>1
    <2>2. CASE ~(s.mark = "none" \/ Halted(s))
      <3>1. PICK m : m = s.mark
        OBVIOUS
      <3>2. m \in Marks
        BY <1>4, <2>2, <3>1 DEF Typed
      <3>3. s.out \in Seq(Events(S)) /\ s.from \in Nat /\ 1 <= s.from /\ s.from <= n + 1
        BY <1>4 DEF Typed
      <3>4. e = CALLBACK_DATA(s, w, m, n)
        BY <1>1, <2>2, <3>1 DEF Flushed
      <3>5. /\ IsParser(e)
            /\ \A f \in Fields \ {"mark", "resumed", "out"} : e[f] = s[f]
            /\ e.out = Closed(s, w, n)
        BY <1>4, <3>1, <3>2, <3>3, <3>4, CloseFacts
      <3> QED
        BY <2>2, <3>5
    <2> QED
      BY <2>1, <2>2
  <1>6. IsParser(r)
    BY <1>3, <1>5 DEF IsParser
  <1>7. /\ \A f \in Fields \ {"pos", "mark", "from", "resumed"} : r[f] = e[f]
        /\ r.pos = 1 /\ r.from = 1 /\ r.mark = "none" /\ ~r.resumed /\ r.resumed \in BOOLEAN
    BY <1>3, <1>5 DEF IsParser, Fields
  <1>8. r.out = e.out /\ \A f \in Fields \ {"pos", "mark", "from", "resumed", "out"} : r[f] = s[f]
    BY <1>5, <1>7 DEF Fields
  <1> QED
    BY <1>2, <1>5, <1>6, <1>7, <1>8

\* The next call begins where the first part ended.
LEMMA FacingStart ==
  ASSUME NEW S, NEW u, NEW d, NEW w, Cut(S, u, d, w), NEW y, Inside(S, Len(u), y), ~Halted(y),
         y.pos = Len(u) + 1, Strict(y)
  PROVE  LET p == Finished(y, u)
         IN  ~Halted(p) /\ Rests(S, p) /\ Facing(S, u, d, w, y, Started(p)) /\ Started(p).pos = 1
  <1>1. /\ u \in Seq(S) /\ d \in Seq(S) /\ w \in Seq(S) /\ Len(u) \in Nat /\ Len(d) \in Nat
        /\ Len(w) = Len(u) + Len(d)
    BY CutFacts
  <1>2. PICK b \in Nat : b = Len(u)
    BY <1>1
  <1>3. PICK p : p = Finished(y, u)
    OBVIOUS
  <1>4. Rests(S, p)
    BY <1>1, <1>2, <1>3, FinishedRests
  <1>5. /\ IsParser(p)
        /\ \A f \in Fields \ {"pos", "mark", "from", "resumed", "out"} : p[f] = y[f]
        /\ y.mark = "none" => p.out = y.out
        /\ y.mark # "none" => p.out = Closed(y, u, b)
    BY <1>1, <1>2, <1>3, FinishedFacts
  <1>6. PICK z : z = Started(p)
    OBVIOUS
  <1>7. p.errno = y.errno /\ p.returned = y.returned /\ p.state = y.state
    BY <1>5 DEF Fields
  <1>8. ~Halted(p)
    BY <1>7 DEF Halted
  <1>9. /\ Inside(S, Len(d), z) /\ ~Halted(z) /\ z.pos = 1 /\ z.from = 1 /\ z.mark = Resume(p) /\ z.resumed
        /\ \A f \in Fields \ {"pos", "mark", "from", "resumed"} : z[f] = p[f]
    BY <1>1, <1>4, <1>6, <1>8, StartedInside
  <1>10. z.out = p.out /\ Same(y, z)
    BY <1>5, <1>9 DEF Fields, Same
  <1>11. Inside(S, Len(w), y) /\ IsParser(y) /\ y.from \in 1 .. b + 1 /\ Marked(y) /\ y.state \in States
    <2>1. b <= Len(w) /\ Len(w) \in Nat
      BY <1>1, <1>2
    <2> QED
      BY <1>2, <2>1, Wider DEF Inside, Typed
  <1>12. /\ y.state \in UrlStates => z.mark = "url"
         /\ y.state = "s_header_field" => z.mark = "header_field"
         /\ y.state = "s_header_value" => z.mark = "header_value"
         /\ y.state \notin UrlStates \cup Named => z.mark = "none"
    BY <1>7, <1>9 DEF Resume, UrlStates, UrlMayEnd, Named
  <1>13. ASSUME y.mark # "none"
         PROVE  y.from \in 1 .. b /\ z.out = Closed(y, w, b)
    <2>1. y.from \in 1 .. b
      BY <1>2, <1>11, <1>13 DEF Strict
    <2>2. SamePart(w, u, y.from, b)
      BY <1>2, <2>1, PartsFacts
    <2> QED
      BY <1>5, <1>10, <1>13, <2>1, <2>2 DEF Closed, SamePart
  <1>14. Level(y, z) \/ Behind(w, b, y, z) \/ Fresh(w, b, y, z)
    <2>1. CASE y.state \in UrlStates
      <3>1. y.mark = "url" /\ z.mark = "url"
        BY <1>11, <1>12, <2>1 DEF Marked
      <3> QED
        BY <1>9, <1>10, <1>13, <3>1 DEF Behind
    <2>2. CASE y.state \in Named
      <3>1. y.mark = z.mark /\ y.mark # "none"
        BY <1>11, <1>12, <2>2 DEF Marked, Named
      <3> QED
        BY <1>9, <1>10, <1>13, <3>1 DEF Behind
    <2>3. CASE y.state \in ReadsBody
      <3>1. y.mark \in {"none", "body"} /\ z.mark = "none"
        <4>1. y.state \notin UrlStates \cup Named
          BY <2>3, StateFacts
        <4> QED
          BY <1>11, <1>12, <2>3, <4>1 DEF Marked
      <3>2. CASE y.mark = "none"
        BY <1>5, <1>10, <3>1, <3>2 DEF Level
      <3>3. CASE y.mark = "body"
        BY <1>9, <1>10, <1>13, <3>1, <3>3 DEF Fresh
      <3> QED
        BY <3>1, <3>2, <3>3
    <2>4. CASE y.state \in Plain
      <3>1. y.mark = "none" /\ z.mark = "none"
        <4>1. y.state \notin UrlStates \cup Named /\ y.state \notin UrlStates \cup Named \cup ReadsBody
          BY <2>4, StateFacts
        <4> QED
          BY <1>11, <1>12, <4>1 DEF Marked
      <3> QED
        BY <1>5, <1>10, <3>1 DEF Level
    <2> QED
      BY <1>11, <2>1, <2>2, <2>3, <2>4, StateFacts
  <1>15. y.pos = z.pos + Len(u)
    BY <1>2, <1>9
  <1>16. Facing(S, u, d, w, y, z)
    BY <1>2, <1>9, <1>11, <1>14, <1>15 DEF Facing, Marking
  <1> QED
    BY <1>3, <1>4, <1>6, <1>8, <1>9, <1>16

\* What the two calls leave.
Matches(x, w, z, d) ==
  /\ Finished(x, w).errno = Finished(z, d).errno
  /\ Finished(x, w).errno = "OK" => Finished(x, w) = Finished(z, d)

\* What the two calls leave matches when the two loops have left the same.
LEMMA MatchesWhen ==
  ASSUME NEW S, NEW w \in Seq(S), NEW d \in Seq(S), NEW x, NEW z, Inside(S, Len(w), x),
         Inside(S, Len(d), z),
         x.errno = z.errno,
         x.errno = "OK" => Same(x, z) /\ Finished(x, w).out = Finished(z, d).out
  PROVE  Matches(x, w, z, d)
  <1>1. PICK r : r = Finished(x, w)
    OBVIOUS
  <1>2. PICK t : t = Finished(z, d)
    OBVIOUS
  <1>3. /\ IsParser(r)
        /\ \A f \in Fields \ {"pos", "mark", "from", "resumed", "out"} : r[f] = x[f]
        /\ r.pos = 1 /\ r.from = 1 /\ r.mark = "none" /\ ~r.resumed /\ r.resumed \in BOOLEAN
    BY <1>1, FinishedFacts
  <1>4. /\ IsParser(t)
        /\ \A f \in Fields \ {"pos", "mark", "from", "resumed", "out"} : t[f] = z[f]
        /\ t.pos = 1 /\ t.from = 1 /\ t.mark = "none" /\ ~t.resumed /\ t.resumed \in BOOLEAN
    BY <1>2, FinishedFacts
  <1>5. r.errno = x.errno /\ t.errno = z.errno
    BY <1>3, <1>4 DEF Fields
  <1>6. ASSUME x.errno = "OK"
        PROVE  r = t
    <2>1. Same(x, z) /\ r.out = t.out
      BY <1>1, <1>2, <1>6
    <2>2. r.resumed = t.resumed
      BY <1>3, <1>4
    <2>3. /\ r.pos = t.pos /\ r.from = t.from /\ r.mark = t.mark
      BY <1>3, <1>4
    <2>4. /\ r.state = t.state /\ r.header_state = t.header_state /\ r.flags = t.flags
          /\ r.content_length = t.content_length /\ r.nread = t.nread /\ r.http = t.http
          /\ r.method = t.method /\ r.upgrade = t.upgrade /\ r.errno = t.errno /\ r.returned = t.returned
      BY <1>3, <1>4, <2>1 DEF Fields, Same
    <2>5. \A f \in Fields : r[f] = t[f]
      BY <2>1, <2>2, <2>3, <2>4 DEF Fields
    <2> QED
      BY <1>3, <1>4, <2>5, SameParser
  <1> QED
    BY <1>1, <1>2, <1>5, <1>6 DEF Matches

\* Both have read what they have.
LEMMA MatchesAtEnd ==
  ASSUME NEW S, NEW u, NEW d, NEW w, NEW x, NEW z, Facing(S, u, d, w, x, z),
         Level(x, z) \/ Marking(w, Len(u), x, z)
  PROVE  Matches(x, w, z, d)
  <1>1. /\ IsParser(x) /\ IsParser(z) /\ x.errno = "OK" /\ ~x.returned /\ Same(x, z)
        /\ w \in Seq(S) /\ d \in Seq(S) /\ Len(w) = Len(d) + Len(u) /\ Len(d) \in Nat /\ Len(w) \in Nat
        /\ Len(u) \in Nat
    BY FacingFacts
  <1>2. Inside(S, Len(w), x) /\ Inside(S, Len(d), z) /\ ~Halted(x) /\ ~Halted(z) /\ Cut(S, u, d, w)
    BY DEF Facing
  <1>3. Finished(x, w).out = Finished(z, d).out
    <2>1. CASE Level(x, z)
      <3>1. x.mark = "none" /\ z.mark = "none" /\ x.out = z.out
        BY <2>1 DEF Level
      <3>2. Finished(x, w).out = x.out
        BY <1>1, <1>2, <3>1, FinishedFacts
      <3>3. Finished(z, d).out = z.out
        BY <1>1, <1>2, <3>1, FinishedFacts
      <3> QED
        BY <3>1, <3>2, <3>3
    <2>2. CASE Marking(w, Len(u), x, z)
      <3>1. x.mark # "none" /\ z.mark # "none"
        BY <2>2 DEF Marking, Abreast, Behind
      <3>2. Finished(x, w).out = Closed(x, w, Len(w))
        BY <1>1, <1>2, <3>1, FinishedFacts
      <3>3. Finished(z, d).out = Closed(z, d, Len(d))
        BY <1>1, <1>2, <3>1, FinishedFacts
      <3>4. /\ x.mark \in Marks /\ x.out \in Seq(Events(S)) /\ z.from \in Nat /\ 1 <= z.from
            /\ z.from <= Len(d) + 1
        BY <1>1, <1>2, <3>1 DEF Inside, Typed
      <3>5. PICK e \in Nat : e = Len(d) /\ e <= Len(d)
        BY <1>1
      <3>6. z.from <= e + 1
        BY <3>4, <3>5
      <3>7. Closed(x, w, e + Len(u)) = Closed(z, d, e)
        <4>1. Cut(S, u, d, w)
          BY <1>2
        <4>2. x.mark \in Marks /\ x.out \in Seq(Events(S)) /\ z.from \in Nat /\ 1 <= z.from
          BY <3>4
        <4>3. e <= Len(d)
          BY <3>5
        <4> HIDE DEF Matches
        <4> QED
          BY <2>2, <3>6, <4>1, <4>2, <4>3, ClosedLinks
      <3> QED
        BY <1>1, <3>2, <3>3, <3>5, <3>7
    <2> QED
      BY <2>1, <2>2
  <1>4. x.errno = z.errno
    BY <1>1 DEF Same
  <1> QED
    BY <1>1, <1>2, <1>3, <1>4, MatchesWhen

\* Both have stopped at the same byte.
LEMMA MatchesHalted ==
  ASSUME NEW S, NEW w \in Seq(S), NEW d \in Seq(S), NEW b, NEW x, NEW z, Inside(S, Len(w), x),
         Inside(S, Len(d), z), Agree(w, b, x, z), Halted(x)
  PROVE  Matches(x, w, z, d)
  <1>1. x.errno = z.errno
    BY DEF Agree
  <1>2. ASSUME x.errno = "OK"
        PROVE  Same(x, z) /\ Finished(x, w).out = Finished(z, d).out
    <2>1. Level(x, z)
      BY <1>2 DEF Agree, Halted
    <2>2. Same(x, z) /\ x.mark = "none" /\ z.mark = "none" /\ x.out = z.out
      BY <2>1 DEF Level
    <2>3. Finished(x, w).out = x.out
      BY <2>2, FinishedFacts
    <2>4. Finished(z, d).out = z.out
      BY <2>2, FinishedFacts
    <2> QED
      BY <2>2, <2>3, <2>4
  <1> QED
    BY <1>1, <1>2, MatchesWhen

\* Whatever is left of the bytes.
SecondPart(S, u, d, w, k) ==
  \A x, z, e, f :
    /\ Facing(S, u, d, w, x, z) /\ Len(d) + 1 - z.pos <= k
    /\ z.pos <= Len(d) \/ Level(x, z) \/ Marking(w, Len(u), x, z)
    /\ Ends(w, x, e) /\ Ends(d, z, f)
    => Matches(e, w, f, d)

\* With no byte left.
LEMMA SecondPartBase ==
  ASSUME NEW S, NEW u, NEW d, NEW w, NEW x, NEW z, NEW e, NEW f, Facing(S, u, d, w, x, z),
         ~(z.pos <= Len(d)),
         Level(x, z) \/ Marking(w, Len(u), x, z), Ends(w, x, e), Ends(d, z, f)
  PROVE  Matches(e, w, f, d)
  <1>1. /\ w \in Seq(S) /\ d \in Seq(S) /\ Len(d) \in Nat /\ Len(w) \in Nat
        /\ z.pos \in 1 .. Len(d) + 1 /\ x.pos \in 1 .. Len(w) + 1
        /\ x.pos <= Len(w) <=> z.pos <= Len(d)
    BY FacingFacts
  <1>2. x.pos > Len(w) /\ z.pos > Len(d)
    BY <1>1
  <1>3. e = x
    BY <1>1, <1>2, EndsStopped DEF Stopped
  <1>4. f = z
    BY <1>1, <1>2, EndsStopped DEF Stopped
  <1> QED
    BY <1>3, <1>4, MatchesAtEnd

\* After a round each, both have stopped or face one another again.
LEMMA FacingRound ==
  ASSUME NEW S, NEW u, NEW d, NEW w, NEW x, NEW z, Facing(S, u, d, w, x, z), z.pos <= Len(d)
  PROVE  LET r == Round(x, w)
             t == Round(z, d)
         IN  /\ Inside(S, Len(w), r) /\ Inside(S, Len(d), t) /\ Agree(w, Len(u), r, t)
             /\ Halted(r) <=> Halted(t)
             /\ ~Halted(r) => /\ Facing(S, u, d, w, r, t) /\ t.pos > z.pos
                              /\ Level(r, t) \/ Marking(w, Len(u), r, t)
  <1>1. /\ w \in Seq(S) /\ d \in Seq(S) /\ Len(d) \in Nat /\ Len(w) \in Nat /\ x.pos <= Len(w)
    BY FacingFacts
  <1>2. Cut(S, u, d, w) /\ Inside(S, Len(w), x) /\ Inside(S, Len(d), z) /\ ~Halted(x) /\ ~Halted(z)
    BY DEF Facing
  <1>3. PICK r : r = Round(x, w)
    OBVIOUS
  <1>4. PICK t : t = Round(z, d)
    OBVIOUS
  <1>5. Inside(S, Len(w), r)
    BY <1>1, <1>2, <1>3, RoundStep
  <1>6. Inside(S, Len(d), t) /\ (~Halted(t) => t.pos > z.pos)
    BY <1>1, <1>2, <1>4, RoundStep
  <1>7. Agree(w, Len(u), r, t)
    BY <1>3, <1>4, RoundLinks
  <1>8. Halted(r) <=> Halted(t)
    BY <1>7 DEF Agree, Halted, Level, Marking, Abreast, Behind, Same
  <1>9. ~Halted(r) => /\ r.pos = t.pos + Len(u)
                      /\ Level(r, t) \/ Marking(w, Len(u), r, t)
    BY <1>7 DEF Agree, Halted
  <1>10. ~Halted(r) => Facing(S, u, d, w, r, t)
    BY <1>2, <1>5, <1>6, <1>8, <1>9 DEF Facing
  <1> QED
    BY <1>3, <1>4, <1>5, <1>6, <1>7, <1>8, <1>9, <1>10

\* With one byte more.
LEMMA SecondPartStep ==
  ASSUME NEW S, NEW u, NEW d, NEW w, NEW k \in Nat, SecondPart(S, u, d, w, k)
  PROVE  SecondPart(S, u, d, w, k + 1)
  <1>1. SUFFICES ASSUME NEW x, NEW z, NEW e, NEW f, Facing(S, u, d, w, x, z), Len(d) + 1 - z.pos <= k + 1,
                        z.pos <= Len(d) \/ Level(x, z) \/ Marking(w, Len(u), x, z),
                        Ends(w, x, e), Ends(d, z, f)
                 PROVE  Matches(e, w, f, d)
    BY DEF SecondPart
  <1>2. CASE ~(z.pos <= Len(d))
    BY <1>1, <1>2, SecondPartBase
  <1>3. CASE z.pos <= Len(d)
    <2>1. /\ w \in Seq(S) /\ d \in Seq(S) /\ Len(d) \in Nat /\ Len(w) \in Nat
          /\ z.pos \in 1 .. Len(d) + 1 /\ x.pos \in 1 .. Len(w) + 1 /\ x.pos <= Len(w)
      BY <1>1, <1>3, FacingFacts
    <2>2. Inside(S, Len(w), x) /\ Inside(S, Len(d), z) /\ ~Halted(x) /\ ~Halted(z)
      BY <1>1 DEF Facing
    <2>3. ~Stopped(Len(w), x) /\ ~Stopped(Len(d), z)
      BY <1>3, <2>1, <2>2 DEF Stopped
    <2>4. PICK r : r = Round(x, w)
      OBVIOUS
    <2>5. PICK t : t = Round(z, d)
      OBVIOUS
    <2>6. /\ Inside(S, Len(w), r) /\ Inside(S, Len(d), t) /\ Agree(w, Len(u), r, t)
          /\ Halted(r) <=> Halted(t)
          /\ ~Halted(r) => /\ Facing(S, u, d, w, r, t) /\ t.pos > z.pos
                           /\ Level(r, t) \/ Marking(w, Len(u), r, t)
      BY <1>1, <1>3, <2>4, <2>5, FacingRound
    <2>7. Ends(w, r, e)
      BY <1>1, <2>1, <2>2, <2>3, <2>4, EndsRound
    <2>8. Ends(d, t, f)
      BY <1>1, <2>1, <2>2, <2>3, <2>5, EndsRound
    <2>9. CASE Halted(r)
      <3>1. e = r
        BY <2>1, <2>7, <2>9, EndsStopped DEF Stopped
      <3>2. f = t
        BY <2>1, <2>6, <2>8, <2>9, EndsStopped DEF Stopped
      <3> QED
        BY <2>1, <2>6, <2>9, <3>1, <3>2, MatchesHalted
    <2>10. CASE ~Halted(r)
      <3>1. t.pos \in 1 .. Len(d) + 1
        BY <2>6 DEF Inside, Typed
      <3>2. Len(d) + 1 - t.pos <= k
        BY <1>1, <2>1, <2>6, <2>10, <3>1, RoundPos
      <3> QED
        BY <2>6, <2>7, <2>8, <2>10, <3>2 DEF SecondPart
    <2> QED
      BY <2>9, <2>10
  <1> QED
    BY <1>2, <1>3

\* However many bytes are left.
LEMMA SecondPartAll ==
  ASSUME NEW S, NEW u, NEW d, NEW w, Cut(S, u, d, w), NEW n \in Nat, n = Len(d)
  PROVE  SecondPart(S, u, d, w, n)
  <1> DEFINE T == {k \in 0 .. n : SecondPart(S, u, d, w, k)}
  <1>1. 0 \in T
    <2>1. SecondPart(S, u, d, w, 0)
      <3>1. SUFFICES ASSUME NEW x, NEW z, NEW e, NEW f, Facing(S, u, d, w, x, z), Len(d) + 1 - z.pos <= 0,
                            z.pos <= Len(d) \/ Level(x, z) \/ Marking(w, Len(u), x, z),
                            Ends(w, x, e), Ends(d, z, f)
                     PROVE  Matches(e, w, f, d)
        BY DEF SecondPart
      <3>2. z.pos \in 1 .. n + 1
        BY <3>1, FacingFacts
      <3>3. ~(z.pos <= n)
        BY <3>1, <3>2
      <3> QED
        BY <3>1, <3>3, SecondPartBase
    <2> QED
      BY <2>1
  <1>2. ASSUME NEW k \in T, k < n
        PROVE  k + 1 \in T
    <2>1. k \in Nat /\ k + 1 \in 0 .. n /\ SecondPart(S, u, d, w, k)
      BY <1>2
    <2>2. SecondPart(S, u, d, w, k + 1)
      BY <2>1, SecondPartStep
    <2> QED
      BY <2>1, <2>2
  <1>3. T = 0 .. n
    <2>1. T \in SUBSET (0 .. n)
      OBVIOUS
    <2> HIDE DEF T
    <2> QED
      BY <1>1, <1>2, <2>1, BoundedInduction
  <1> QED
    BY <1>3

(***************************************************************************)
(* A parser that is given the bytes in two parts, and one that is given    *)
(* all of them.                                                            *)
(***************************************************************************)

\* A call is where its loop ends, finished.
LEMMA ExecuteEnds ==
  ASSUME NEW s, ~Halted(s), NEW w, Len(w) \in Nat
  PROVE  \E e : Ends(w, Started(s), e) /\ http_parser_execute(s, w) = Finished(e, w)
  <1>1. PICK a : Loops(a, Started(s), w) /\ http_parser_execute(s, w) = Finished(a[Len(w)], w)
    BY ExecuteUnfolds
  <1> QED
    BY <1>1 DEF Ends

\* Two calls, for the bytes in front of a cut and for those behind it, leave the
\* parser that one call for all of them leaves.
LEMMA CutAnywhere ==
  ASSUME NEW S, NEW u, NEW d, NEW w, Cut(S, u, d, w), d # <<>>, NEW s, Rests(S, s), ~Halted(s),
         NEW p, p = http_parser_execute(s, u), ~Halted(p), Resume(s) = "none"
  PROVE  LET q == http_parser_execute(p, d)
             v == http_parser_execute(s, w)
         IN  v.errno = q.errno /\ (v.errno = "OK" => v = q)
  <1>1. /\ u \in Seq(S) /\ d \in Seq(S) /\ w \in Seq(S) /\ Len(u) \in Nat /\ Len(d) \in Nat /\ Len(w) \in Nat
    BY CutFacts
  <1>2. PICK y : Ends(u, Started(s), y) /\ p = Finished(y, u)
    BY <1>1, ExecuteEnds
  <1>3. PICK e : Ends(w, Started(s), e) /\ http_parser_execute(s, w) = Finished(e, w)
    BY <1>1, ExecuteEnds
  <1>4. PICK f : Ends(d, Started(p), f) /\ http_parser_execute(p, d) = Finished(f, d)
    BY <1>1, ExecuteEnds
  <1>5. PICK x : x = Started(s)
    OBVIOUS
  <1>6. Inside(S, Len(u), x) /\ x.pos = 1 /\ x.mark = "none"
    BY <1>1, <1>5, StartedInside
  <1>7. Inside(S, Len(u), y)
    BY <1>1, <1>2, <1>5, <1>6, EndsInside
  <1>8. ~Halted(y)
    <2>1. \A g \in Fields \ {"pos", "mark", "from", "resumed", "out"} : p[g] = y[g]
      BY <1>1, <1>2, <1>7, FinishedFacts
    <2>2. p.errno = y.errno /\ p.returned = y.returned
      BY <2>1 DEF Fields
    <2> QED
      BY <2>2 DEF Halted
  <1>9. PICK b \in Nat : b = Len(u)
    BY <1>1
  <1>10. FirstPart(u, w, b, S, b)
    BY <1>9, FirstPartAll
  <1>11. Strict(x) /\ b + 1 - x.pos <= b
    BY <1>6 DEF Strict
  <1>12. y.pos = b + 1 /\ Ends(w, y, e) /\ Inside(S, Len(w), y) /\ Strict(y)
    BY <1>2, <1>3, <1>5, <1>6, <1>8, <1>9, <1>10, <1>11 DEF FirstPart
  <1>13. PICK z : z = Started(p)
    OBVIOUS
  <1>14. Facing(S, u, d, w, y, z) /\ z.pos = 1
    BY <1>2, <1>7, <1>8, <1>9, <1>12, <1>13, FacingStart
  <1>15. PICK n \in Nat : n = Len(d) /\ n # 0
    BY <1>1
  <1>16. SecondPart(S, u, d, w, n)
    BY <1>15, SecondPartAll
  <1>17. z.pos <= Len(d) /\ Len(d) + 1 - z.pos <= n
    BY <1>14, <1>15
  <1>18. Matches(e, w, f, d)
    BY <1>4, <1>12, <1>13, <1>14, <1>16, <1>17 DEF SecondPart
  <1> QED
    BY <1>3, <1>4, <1>18 DEF Matches

\* An empty buffer leaves a parser as it is.
LEMMA ExecuteNothing ==
  ASSUME NEW S, NEW s, Rests(S, s), ~Halted(s), Resume(s) = "none", s.pos = 1, s.from = 1
  PROVE  http_parser_execute(s, <<>>) = s
  <1>1. <<>> \in Seq(S) /\ Len(<<>>) = 0
    OBVIOUS
  <1>2. PICK w : w = <<>>
    OBVIOUS
  <1>3. w \in Seq(S) /\ Len(w) = 0 /\ Len(w) \in Nat
    BY <1>1, <1>2
  <1>4. PICK e : Ends(w, Started(s), e) /\ http_parser_execute(s, w) = Finished(e, w)
    BY <1>3, ExecuteEnds
  <1>5. PICK x : x = Started(s)
    OBVIOUS
  <1>6. /\ Inside(S, 0, x) /\ x.pos = 1 /\ x.mark = "none"
        /\ \A f \in Fields \ {"pos", "mark", "from", "resumed"} : x[f] = s[f]
    BY <1>5, StartedInside
  <1>7. e = x
    BY <1>3, <1>4, <1>5, <1>6, EndsStopped DEF Stopped
  <1>8. PICK r : r = Finished(x, w)
    OBVIOUS
  <1>9. /\ IsParser(r)
        /\ \A f \in Fields \ {"pos", "mark", "from", "resumed", "out"} : r[f] = x[f]
        /\ r.pos = 1 /\ r.from = 1 /\ r.mark = "none" /\ ~r.resumed /\ r.resumed \in BOOLEAN
        /\ r.out = x.out
    <2>1. PICK n \in Nat : n = Len(w)
      BY <1>3
    <2>2. Inside(S, n, x) /\ x.mark = "none" /\ w \in Seq(S)
      BY <1>3, <1>6, <2>1
    <2> QED
      BY <1>8, <2>1, <2>2, FinishedFacts
  <1>10. IsParser(s) /\ s.mark = "none" /\ ~s.resumed /\ s.resumed \in BOOLEAN
    BY DEF Rests, Typed
  <1>11. r.resumed = s.resumed
    BY <1>9, <1>10
  <1>12. \A f \in Fields : r[f] = s[f]
    BY <1>6, <1>9, <1>10, <1>11 DEF Fields
  <1>13. r = s
    BY <1>9, <1>10, <1>12, SameParser
  <1> QED
    BY <1>2, <1>4, <1>7, <1>8, <1>13

\* A new parser resumes nothing.
LEMMA InitResumes ==
  /\ Resume(http_parser_init) = "none" /\ http_parser_init.pos = 1 /\ http_parser_init.from = 1
  <1>1. http_parser_init.state = "s_start_req" /\ http_parser_init.pos = 1 /\ http_parser_init.from = 1
    BY DEF http_parser_init
  <1> QED
    BY <1>1 DEF Resume, UrlStates, UrlMayEnd

\* The bytes that came before, and the segment.
LEMMA BufferCut ==
  ASSUME NEW st \in Streams, NEW g \in Nat, NEW n \in Nat, n # 0, g + n <= Len(st.bytes)
  PROVE  /\ Cut(Range(st.bytes), SubSeq(st.bytes, 1, g), SubSeq(st.bytes, g + 1, g + n),
                SubSeq(st.bytes, 1, g + n))
         /\ SubSeq(st.bytes, g + 1, g + n) # <<>>
  <1>1. PICK w : w = st.bytes
    OBVIOUS
  <1>2. PICK S : S = Range(st.bytes)
    OBVIOUS
  <1>3. w \in Seq(S)
    BY <1>1, <1>2, HttpParserAssumption
  <1>4. g + n \in Nat /\ g <= Len(w) /\ g + n <= Len(w) /\ g + 1 \in Nat
    BY <1>1, <1>3
  <1>5. PICK u \in Seq(S) : u = SubSeq(w, 1, g)
    <2>1. SubSeq(w, 1, g) \in Seq(S)
      BY <1>3, <1>4, PartFacts
    <2> QED
      BY <2>1
  <1>6. PICK d \in Seq(S) : d = SubSeq(w, g + 1, g + n)
    <2>1. SubSeq(w, g + 1, g + n) \in Seq(S)
      BY <1>3, <1>4, PartFacts
    <2> QED
      BY <2>1
  <1>7. PICK v \in Seq(S) : v = SubSeq(w, 1, g + n)
    <2>1. SubSeq(w, 1, g + n) \in Seq(S)
      BY <1>3, <1>4, PartFacts
    <2> QED
      BY <2>1
  <1>8. Len(u) = g /\ \A k \in 1 .. g : u[k] = w[k]
    <2>1. Len(u) = g - 1 + 1 /\ \A k \in 1 .. g - 1 + 1 : u[k] = w[1 + k - 1]
      BY <1>3, <1>4, <1>5, PartFacts
    <2> QED
      BY <2>1
  <1>9. Len(d) = n /\ \A k \in 1 .. n : d[k] = w[g + k]
    <2>1. Len(d) = (g + n) - (g + 1) + 1 /\ \A k \in 1 .. (g + n) - (g + 1) + 1 : d[k] = w[(g + 1) + k - 1]
      BY <1>3, <1>4, <1>6, PartFacts
    <2>2. (g + n) - (g + 1) + 1 = n /\ \A k \in 1 .. n : (g + 1) + k - 1 = g + k
      OBVIOUS
    <2>3. Len(d) = n /\ \A k \in 1 .. n : d[k] = w[(g + 1) + k - 1]
      BY <2>1, <2>2
    <2> QED
      BY <2>2, <2>3
  <1>10. Len(v) = g + n /\ \A k \in 1 .. g + n : v[k] = w[k]
    <2>1. Len(v) = (g + n) - 1 + 1 /\ \A k \in 1 .. (g + n) - 1 + 1 : v[k] = w[1 + k - 1]
      BY <1>3, <1>4, <1>7, PartFacts
    <2> QED
      BY <2>1
  <1>11. PICK c \in Seq(S) : c = u \o d
    <2>1. u \o d \in Seq(S)
      OBVIOUS
    <2> QED
      BY <2>1
  <1>12. Len(c) = g + n /\ Len(v) = Len(c)
    <2>1. Len(u) = g /\ Len(d) = n /\ Len(v) = g + n
      BY <1>8, <1>9, <1>10
    <2>2. Len(c) = Len(u) + Len(d)
      BY <1>11
    <2> QED
      BY <2>1, <2>2
  <1>13. \A k \in 1 .. Len(v) : v[k] = c[k]
    <2> SUFFICES ASSUME NEW k \in 1 .. Len(v)
                 PROVE  v[k] = c[k]
      OBVIOUS
    <2>1. v[k] = w[k] /\ k \in 1 .. g + n
      BY <1>10
    <2>2. CASE k <= g
      <3>1. c[k] = u[k]
        BY <1>8, <1>9, <1>11, <2>1, <2>2
      <3>2. u[k] = w[k]
        BY <1>8, <2>1, <2>2
      <3> QED
        BY <2>1, <3>1, <3>2
    <2>3. CASE ~(k <= g)
      <3>1. PICK i \in 1 .. n : i = k - g
        BY <2>1, <2>3
      <3>2. c[k] = d[i]
        <4>1. Len(u) = g /\ Len(d) = n
          BY <1>8, <1>9
        <4>2. k \in 1 .. Len(u) + Len(d) /\ k > Len(u) /\ k - Len(u) = i
          BY <2>1, <2>3, <3>1, <4>1
        <4> QED
          BY <1>11, <4>2
      <3>3. d[i] = w[g + i] /\ g + i = k
        BY <1>9, <2>1, <3>1
      <3> QED
        BY <2>1, <3>2, <3>3
    <2> QED
      BY <2>2, <2>3
  <1>14. v = c
    BY <1>12, <1>13, SeqEqual
  <1>15. d # <<>>
    BY <1>9
  <1> QED
    BY <1>1, <1>2, <1>5, <1>6, <1>7, <1>11, <1>14, <1>15 DEF Cut

\* A segment more.
LEMMA SameHoweverCutStep ==
  ASSUME Resting, SameHoweverCut, [Next]_vars
  PROVE  SameHoweverCut'
  <1>1. CASE Next
    <2>1. PICK n \in 1 .. Len(stream.bytes) : Feed(n)
      BY <1>1 DEF Next
    <2>2. /\ got + n <= Len(stream.bytes) /\ got' = got + n /\ stream' = stream /\ n \in Nat /\ got \in Nat
          /\ stream \in Streams /\ n # 0 /\ ~Halted(parser)
      BY <2>1 DEF Feed, Resting
    <2>3. PICK S : S = Range(stream.bytes)
      OBVIOUS
    <2>4. PICK u : u = Buffer
      OBVIOUS
    <2>5. PICK d : d = SubSeq(stream.bytes, got + 1, got + n)
      OBVIOUS
    <2>6. PICK w : w = Buffer'
      OBVIOUS
    <2>7. w = SubSeq(stream.bytes, 1, got + n)
      BY <2>2, <2>6 DEF Buffer
    <2>8. Cut(S, u, d, w) /\ d # <<>>
      BY <2>2, <2>3, <2>4, <2>5, <2>7, BufferCut DEF Buffer
    <2>9. parser = http_parser_execute(http_parser_init, u)
      BY <2>2, <2>4 DEF SameHoweverCut, Halted
    <2>10. parser' = http_parser_execute(parser, d)
      BY <2>1, <2>5 DEF Feed
    <2>11. PICK i : i = http_parser_init
      OBVIOUS
    <2>12. Rests(S, i) /\ ~Halted(i) /\ Resume(i) = "none"
      BY <2>11, InitRests, InitResumes
    <2>13. PICK v : v = http_parser_execute(i, w)
      OBVIOUS
    <2>14. PICK p : p = parser
      OBVIOUS
    <2>15. PICK q : q = http_parser_execute(p, d)
      OBVIOUS
    <2>16. v.errno = q.errno /\ (v.errno = "OK" => v = q)
      BY <2>2, <2>8, <2>9, <2>11, <2>12, <2>13, <2>14, <2>15, CutAnywhere
    <2>17. parser' = q
      BY <2>10, <2>14, <2>15
    <2>18. http_parser_init' = i
      BY <2>11 DEF http_parser_init
    <2>19. http_parser_execute(http_parser_init, Buffer)' = v
      BY <2>6, <2>11, <2>13 DEF http_parser_execute
    <2> QED
      BY <2>16, <2>17, <2>19 DEF SameHoweverCut
  <1>2. CASE UNCHANGED vars
    BY <1>2 DEF SameHoweverCut, Buffer, vars
  <1> QED
    BY <1>1, <1>2

\* Nothing has come yet.
LEMMA InitSame ==
  ASSUME Init
  PROVE  SameHoweverCut
  <1>1. stream \in Streams /\ got = 0 /\ parser = http_parser_init
    BY DEF Init
  <1>2. Buffer = <<>>
    <2>1. SubSeq(stream.bytes, 1, 0) = <<>>
      BY <1>1, HttpParserAssumption
    <2> QED
      BY <1>1, <2>1 DEF Buffer
  <1>3. PICK i : i = http_parser_init
    OBVIOUS
  <1>4. http_parser_execute(i, <<>>) = i
    BY <1>3, InitRests, InitResumes, ExecuteNothing
  <1> QED
    BY <1>1, <1>2, <1>3, <1>4 DEF SameHoweverCut

\* SameHoweverCut, http_parser.h:71 and http_parser.cc:645: however a stream is cut
\* into segments, the parser that was given them one by one is the parser that was
\* given all the bytes at once, and has made the same callbacks, with data that comes
\* in several pieces put together; or both have stopped with the same error.
THEOREM ParserSameHoweverCut == Spec => []SameHoweverCut
  <1>1. Init => Resting /\ SameHoweverCut
    BY InitResting, InitSame
  <1>2. Resting /\ SameHoweverCut /\ [Next]_vars => (Resting /\ SameHoweverCut)'
    BY RestingStep, SameHoweverCutStep
  <1> QED
    BY <1>1, <1>2, PTL DEF Spec

(***************************************************************************)
(* What the wrapper makes of the callbacks.                                *)
(***************************************************************************)
WrapperFields == {"read_all", "url", "body", "read", "value"}

IsWrapper(v) == v = [f \in WrapperFields |-> v[f]] /\ v.read \in SUBSET Kept

\* v is the wrapper that has had the callbacks of out.
Wrapped(out, v) ==
  \E a : /\ a[0] = Cleared /\ \A n \in 0 .. Len(out) : IsWrapper(a[n])
         /\ \A n \in 1 .. Len(out) : a[n] = Callback(a[n - 1], out[n])
         /\ v = a[Len(out)]

\* A new wrapper has no values.
LEMMA ClearedFacts == IsWrapper(Cleared) /\ \A f \in Kept : Cleared.value[f] = <<>>
  <1>1. Cleared = [f \in WrapperFields |-> Cleared[f]]
    BY DEF Cleared, WrapperFields
  <1>2. Cleared.read = {} /\ Cleared.value = [f \in Kept |-> <<>>]
    BY DEF Cleared
  <1> QED
    BY <1>1, <1>2 DEF IsWrapper

\* One callback.
LEMMA CallbackFacts ==
  ASSUME NEW v, IsWrapper(v), NEW e
  PROVE  LET r == Callback(v, e)
         IN  /\ IsWrapper(r)
             /\ e.kind \notin {"header_field", "header_value"} => r.read = v.read /\ r.value = v.value
             /\ e.kind = "header_field" =>
                  /\ r.value = v.value
                  /\ \A f \in r.read : f \in Kept /\ (f \in v.read \/ (e.bytes # <<>> /\ e.bytes[1] = f))
             /\ e.kind = "header_value" =>
                  r.read = {} /\ r.value = [f \in Kept |-> IF f \in v.read THEN e.bytes ELSE v.value[f]]
  <1>1. v = [f \in WrapperFields |-> v[f]] /\ v.read \in SUBSET Kept
    BY DEF IsWrapper
  <1>2. PICK r : r = Callback(v, e)
    OBVIOUS
  <1>3. CASE e.kind = "header_field"
    <2>1. PICK D : D = {f \in Kept : ~HasRead(v, f) /\ e.bytes # <<>> /\ e.bytes[1] = f}
      OBVIOUS
    <2>2. r = [v EXCEPT !.read = v.read \cup D]
      BY <1>2, <1>3, <2>1 DEF Callback, OnHeaderField
    <2>3. r = [f \in WrapperFields |-> r[f]]
      BY <1>1, <2>2
    <2>4. r.read = v.read \cup D /\ r.value = v.value
      BY <1>1, <2>2 DEF WrapperFields
    <2>5. \A f \in D : f \in Kept /\ e.bytes # <<>> /\ e.bytes[1] = f
      BY <2>1
    <2>6. \A f \in r.read : f \in Kept /\ (f \in v.read \/ (e.bytes # <<>> /\ e.bytes[1] = f))
      BY <1>1, <2>4, <2>5
    <2> QED
      BY <1>2, <1>3, <2>3, <2>4, <2>6 DEF IsWrapper
  <1>4. CASE e.kind = "header_value"
    <2>1. PICK D : D = [f \in Kept |-> IF f \in v.read THEN e.bytes ELSE v.value[f]]
      OBVIOUS
    <2>2. r = [v EXCEPT !.value = D, !.read = {}]
      BY <1>2, <1>4, <2>1 DEF Callback, OnHeaderValue
    <2>3. r = [f \in WrapperFields |-> r[f]]
      BY <1>1, <2>2
    <2>4. r.read = {} /\ r.value = D
      BY <1>1, <2>2 DEF WrapperFields
    <2> QED
      BY <1>2, <1>4, <2>1, <2>3, <2>4 DEF IsWrapper
  <1>5. CASE e.kind = "url"
    <2>1. PICK D : D = v.url \o e.bytes
      OBVIOUS
    <2>2. r = [v EXCEPT !.url = D]
      BY <1>2, <1>5, <2>1 DEF Callback
    <2>3. r = [f \in WrapperFields |-> r[f]]
      BY <1>1, <2>2
    <2>4. r.read = v.read /\ r.value = v.value
      BY <1>1, <2>2 DEF WrapperFields
    <2> QED
      BY <1>1, <1>2, <1>5, <2>3, <2>4 DEF IsWrapper
  <1>6. CASE e.kind = "body"
    <2>1. PICK D : D = v.body \o e.bytes
      OBVIOUS
    <2>2. r = [v EXCEPT !.body = D]
      BY <1>2, <1>6, <2>1 DEF Callback
    <2>3. r = [f \in WrapperFields |-> r[f]]
      BY <1>1, <2>2
    <2>4. r.read = v.read /\ r.value = v.value
      BY <1>1, <2>2 DEF WrapperFields
    <2> QED
      BY <1>1, <1>2, <1>6, <2>3, <2>4 DEF IsWrapper
  <1>7. CASE e.kind = "message_complete"
    <2>1. r = [v EXCEPT !.read_all = TRUE]
      BY <1>2, <1>7 DEF Callback
    <2>2. r = [f \in WrapperFields |-> r[f]]
      BY <1>1, <2>1
    <2>3. r.read = v.read /\ r.value = v.value
      BY <1>1, <2>1 DEF WrapperFields
    <2> QED
      BY <1>1, <1>2, <1>7, <2>2, <2>3 DEF IsWrapper
  <1>8. CASE e.kind \notin {"header_field", "header_value", "url", "body", "message_complete"}
    <2>1. r = v
      BY <1>2, <1>8 DEF Callback
    <2> QED
      BY <1>2, <1>8, <2>1
  <1> QED
    BY <1>3, <1>4, <1>5, <1>6, <1>7, <1>8

\* Before the first callback the wrapper is new.
LEMMA WrappedNothing == Wrapped(<<>>, Cleared)
  <1>1. PICK a : a = [n \in 0 .. 0 |-> Cleared]
    OBVIOUS
  <1>2. Len(<<>>) = 0 /\ a[0] = Cleared /\ 0 .. 0 = {0} /\ 1 .. 0 = {}
    BY <1>1
  <1> QED
    BY <1>2, ClearedFacts DEF Wrapped

\* A wrapper that has had callbacks is one still.
LEMMA WrappedIs ==
  ASSUME NEW T, NEW out \in Seq(T), NEW v, Wrapped(out, v)
  PROVE  IsWrapper(v)
  <1>1. Len(out) \in 0 .. Len(out)
    OBVIOUS
  <1> QED
    BY <1>1 DEF Wrapped

\* A callback more.
LEMMA WrappedAppend ==
  ASSUME NEW T, NEW out \in Seq(T), NEW e \in T, NEW v, Wrapped(out, v)
  PROVE  Wrapped(Append(out, e), Callback(v, e))
  <1>1. PICK n \in Nat : n = Len(out)
    OBVIOUS
  <1>2. PICK a : /\ a[0] = Cleared /\ \A k \in 0 .. n : IsWrapper(a[k])
                 /\ \A k \in 1 .. n : a[k] = Callback(a[k - 1], out[k])
                 /\ v = a[n]
    BY <1>1 DEF Wrapped
  <1>3. PICK o : o = Append(out, e)
    OBVIOUS
  <1>4. Len(o) = n + 1 /\ o[n + 1] = e /\ \A k \in 1 .. n : o[k] = out[k]
    BY <1>1, <1>3
  <1>5. PICK r : r = Callback(v, e)
    OBVIOUS
  <1>6. IsWrapper(v) /\ IsWrapper(r)
    <2>1. IsWrapper(v)
      BY <1>1, <1>2
    <2> QED
      BY <1>5, <2>1, CallbackFacts
  <1>7. PICK c : c = [k \in 0 .. n + 1 |-> IF k = n + 1 THEN r ELSE a[k]]
    OBVIOUS
  <1>8. c[n + 1] = r /\ \A k \in 0 .. n : c[k] = a[k]
    BY <1>7
  <1>9. c[0] = Cleared
    BY <1>1, <1>2, <1>8
  <1>10. \A k \in 0 .. n + 1 : IsWrapper(c[k])
    <2> SUFFICES ASSUME NEW k \in 0 .. n + 1
                 PROVE  IsWrapper(c[k])
      OBVIOUS
    <2>1. k = n + 1 \/ k \in 0 .. n
      BY <1>1
    <2> QED
      BY <1>2, <1>6, <1>8, <2>1
  <1>11. \A k \in 1 .. n + 1 : c[k] = Callback(c[k - 1], o[k])
    <2> SUFFICES ASSUME NEW k \in 1 .. n + 1
                 PROVE  c[k] = Callback(c[k - 1], o[k])
      OBVIOUS
    <2>1. CASE k = n + 1
      <3>1. k - 1 = n /\ n \in 0 .. n
        BY <1>1, <2>1
      <3> QED
        BY <1>2, <1>4, <1>5, <1>8, <2>1, <3>1
    <2>2. CASE k # n + 1
      <3>1. k \in 1 .. n /\ k \in 0 .. n /\ k - 1 \in 0 .. n
        BY <1>1, <2>2
      <3>2. c[k] = a[k] /\ c[k - 1] = a[k - 1] /\ o[k] = out[k]
        BY <1>4, <1>8, <3>1
      <3>3. a[k] = Callback(a[k - 1], out[k])
        BY <1>2, <3>1
      <3> QED
        BY <3>2, <3>3
    <2> QED
      BY <2>1, <2>2
  <1>12. Wrapped(o, r)
    BY <1>4, <1>8, <1>9, <1>10, <1>11 DEF Wrapped
  <1> QED
    BY <1>3, <1>5, <1>12

\* A piece of a body more, kept with the one before: the headers stay.
LEMMA WrappedLast ==
  ASSUME NEW T, NEW out \in Seq(T), out # <<>>, out[Len(out)].kind = "body",
         NEW e \in T, e.kind = "body", NEW v, Wrapped(out, v)
  PROVE  \E r : Wrapped([out EXCEPT ![Len(out)] = e], r) /\ r.read = v.read /\ r.value = v.value
  <1>1. PICK n \in Nat : n = Len(out)
    OBVIOUS
  <1>2. PICK a : /\ a[0] = Cleared /\ \A k \in 0 .. n : IsWrapper(a[k])
                 /\ \A k \in 1 .. n : a[k] = Callback(a[k - 1], out[k])
                 /\ v = a[n]
    BY <1>1 DEF Wrapped
  <1>3. n # 0 /\ n \in 1 .. n /\ n - 1 \in 0 .. n
    BY <1>1
  <1>4. PICK o : o = [out EXCEPT ![Len(out)] = e]
    OBVIOUS
  <1>5. Len(o) = n /\ o[n] = e /\ \A k \in 1 .. n : k # n => o[k] = out[k]
    BY <1>1, <1>3, <1>4
  <1>6. PICK u : u = a[n - 1]
    OBVIOUS
  <1>7. PICK r : r = Callback(u, e)
    OBVIOUS
  <1>8. IsWrapper(u) /\ v = Callback(u, out[n])
    BY <1>2, <1>3, <1>6
  <1>9. IsWrapper(r) /\ r.read = u.read /\ r.value = u.value
    BY <1>7, <1>8, CallbackFacts
  <1>10. v.read = u.read /\ v.value = u.value
    BY <1>1, <1>8, CallbackFacts
  <1>11. PICK c : c = [k \in 0 .. n |-> IF k = n THEN r ELSE a[k]]
    OBVIOUS
  <1>12. c[n] = r /\ \A k \in 0 .. n : k # n => c[k] = a[k]
    BY <1>3, <1>11
  <1>13. c[0] = Cleared
    BY <1>2, <1>3, <1>12
  <1>14. \A k \in 0 .. n : IsWrapper(c[k])
    BY <1>2, <1>9, <1>12
  <1>15. \A k \in 1 .. n : c[k] = Callback(c[k - 1], o[k])
    <2> SUFFICES ASSUME NEW k \in 1 .. n
                 PROVE  c[k] = Callback(c[k - 1], o[k])
      OBVIOUS
    <2>1. k \in 0 .. n /\ k - 1 \in 0 .. n /\ k - 1 # n
      BY <1>1
    <2>2. c[k - 1] = a[k - 1]
      BY <1>12, <2>1
    <2>3. CASE k = n
      BY <1>5, <1>6, <1>7, <1>12, <2>2, <2>3
    <2>4. CASE k # n
      BY <1>2, <1>5, <1>12, <2>1, <2>2, <2>4
    <2> QED
      BY <2>3, <2>4
  <1>16. Wrapped(o, r)
    BY <1>5, <1>12, <1>13, <1>14, <1>15 DEF Wrapped
  <1> QED
    BY <1>4, <1>9, <1>10, <1>16

\* The wrapper of the whole buffer.
LEMMA WrappedParse ==
  ASSUME NEW T, NEW data, NEW out \in Seq(T), out = http_parser_execute(http_parser_init, data).out,
         NEW v, Wrapped(out, v)
  PROVE  ParseHttpContent(data) = v
  <1>1. PICK n \in Nat : n = Len(out)
    OBVIOUS
  <1>2. PICK a : /\ a[0] = Cleared
                 /\ \A k \in 1 .. n : a[k] = Callback(a[k - 1], out[k])
                 /\ v = a[n]
    BY <1>1 DEF Wrapped
  <1> DEFINE after == CHOOSE f : f = [k \in 0 .. n |-> IF k = 0 THEN Cleared ELSE Callback(f[k - 1], out[k])]
  <1>3. PICK g : g = [k \in 0 .. n |-> a[k]]
    OBVIOUS
  <1>4. \A k \in 0 .. n : a[k] = IF k = 0 THEN Cleared ELSE Callback(g[k - 1], out[k])
    <2> SUFFICES ASSUME NEW k \in 0 .. n
                 PROVE  a[k] = IF k = 0 THEN Cleared ELSE Callback(g[k - 1], out[k])
      OBVIOUS
    <2>1. CASE k = 0
      BY <1>2, <2>1
    <2>2. CASE k # 0
      <3>1. k \in 1 .. n /\ k - 1 \in 0 .. n
        BY <2>2
      <3> QED
        BY <1>2, <1>3, <2>2, <3>1
    <2> QED
      BY <2>1, <2>2
  <1>5. g = [k \in 0 .. n |-> IF k = 0 THEN Cleared ELSE Callback(g[k - 1], out[k])]
    BY <1>3, <1>4
  <1>6. after = [k \in 0 .. n |-> IF k = 0 THEN Cleared ELSE Callback(after[k - 1], out[k])]
    BY <1>5
  <1>7. ParseHttpContent(data) = after[n]
    BY <1>1 DEF ParseHttpContent, CallbacksOf
  <1>8. PICK h : h = after
    OBVIOUS
  <1> HIDE DEF after
  <1>9. \A k \in 0 .. n : h[k] = IF k = 0 THEN Cleared ELSE Callback(h[k - 1], out[k])
    BY <1>6, <1>8
  <1> DEFINE U == {k \in 0 .. n : h[k] = a[k]}
  <1>10. 0 \in U
    BY <1>2, <1>9
  <1>11. ASSUME NEW k \in U, k < n
         PROVE  k + 1 \in U
    <2>1. k + 1 \in 1 .. n /\ k + 1 \in 0 .. n /\ (k + 1) - 1 = k /\ h[k] = a[k] /\ k + 1 # 0
      BY <1>11
    <2>2. h[k + 1] = Callback(h[k], out[k + 1])
      BY <1>9, <2>1
    <2>3. a[k + 1] = Callback(a[k], out[k + 1])
      BY <1>2, <2>1
    <2> QED
      BY <2>1, <2>2, <2>3
  <1>12. U = 0 .. n
    <2>1. U \in SUBSET (0 .. n)
      OBVIOUS
    <2> HIDE DEF U
    <2> QED
      BY <1>10, <1>11, <2>1, BoundedInduction
  <1>13. n \in U
    BY <1>12
  <1> QED
    BY <1>2, <1>7, <1>8, <1>13

(***************************************************************************)
(* Whose value a value is.                                                 *)
(***************************************************************************)
\* A name that begins like f, up to the byte that ends it.
Announces(w, f, i, c) ==
  /\ i \in 1 .. Len(w) /\ c \in 1 .. Len(w) /\ i < c /\ w[i] = f
  /\ \A k \in i .. c - 1 : w[k] \notin EndOfLine \cup {":"}

Blanks(w, a, e) == \A k \in a .. e : w[k] = " "

ValueOf(w, f, t) ==
  \E i, c, j, e \in 1 .. Len(w) :
    /\ Announces(w, f, i, c) /\ c < j /\ j <= e /\ t = SubSeq(w, j, e)
    /\ w[c] \in EndOfLine \/ (w[c] = ":" /\ Blanks(w, c + 1, j - 1))

\* Where the value begins that comes next, of a parser before byte q.
Place(s, q) == IF s.state = "s_header_value" THEN s.from ELSE q

Awaits(w, f, s, q) ==
  \E i, c \in 1 .. Len(w) :
    /\ Announces(w, f, i, c) /\ c < Place(s, q)
    /\ \/ w[c] \in EndOfLine
       \/ /\ w[c] = ":" /\ s.state \in {"s_header_value_start", "s_header_value"}
          /\ Blanks(w, c + 1, Place(s, q) - 1)

Told(w, s, q, v) ==
  /\ \A f \in Kept : v.value[f] # <<>> => ValueOf(w, f, v.value[f])
  /\ ~Halted(s) =>
       /\ s.mark # "none" => ~s.resumed
       /\ \A f \in v.read : Awaits(w, f, s, q)
       /\ s.state = "s_header_field" => /\ s.from < q
                                        /\ \A k \in s.from .. q - 1 : w[k] \notin EndOfLine \cup {":"}
       /\ s.state = "s_header_value" => s.from < q

Telling(w, s, q) == \E v : Wrapped(s.out, v) /\ Told(w, s, q, v)

\* Callbacks that tell of no header.
Silent(S, out, o) ==
  /\ o \in Seq(Events(S))
  /\ \A v : Wrapped(out, v) => \E r : Wrapped(o, r) /\ r.read = v.read /\ r.value = v.value

\* No callback tells of nothing.
LEMMA SilentSame ==
  ASSUME NEW S, NEW out \in Seq(Events(S))
  PROVE  Silent(S, out, out)
  BY DEF Silent

\* Neither do two that do not.
LEMMA SilentTwice ==
  ASSUME NEW S, NEW out, NEW o, NEW p, Silent(S, out, o), Silent(S, o, p)
  PROVE  Silent(S, out, p)
  BY DEF Silent

\* A callback that is for no name and no value.
LEMMA SilentAppend ==
  ASSUME NEW S, NEW out \in Seq(Events(S)), NEW e \in Events(S),
         e.kind \notin {"header_field", "header_value"}
  PROVE  Silent(S, out, Append(out, e))
  <1>1. Append(out, e) \in Seq(Events(S))
    OBVIOUS
  <1>2. ASSUME NEW v, Wrapped(out, v)
        PROVE  \E r : Wrapped(Append(out, e), r) /\ r.read = v.read /\ r.value = v.value
    <2>1. PICK T : T = Events(S)
      OBVIOUS
    <2>2. out \in Seq(T) /\ e \in T
      BY <2>1
    <2>3. PICK r : r = Callback(v, e)
      OBVIOUS
    <2>4. Wrapped(Append(out, e), r)
      BY <1>2, <2>2, <2>3, WrappedAppend
    <2>5. IsWrapper(v)
      BY <1>2, <2>2, WrappedIs
    <2>6. r.read = v.read /\ r.value = v.value
      BY <2>3, <2>5, CallbackFacts
    <2> QED
      BY <2>4, <2>6
  <1> QED
    BY <1>1, <1>2 DEF Silent

\* A notification.
LEMMA SilentNotify ==
  ASSUME NEW S, NEW s, IsParser(s), s.out \in Seq(Events(S)),
         NEW kind \in {"headers_complete", "message_complete"}
  PROVE  LET r == Notify(s, kind)
         IN  /\ Silent(S, s.out, r.out) /\ IsParser(r)
             /\ \A f \in Fields \ {"out"} : r[f] = s[f]
  <1>1. PICK r : r = Notify(s, kind)
    OBVIOUS
  <1>2. PICK e : e = [kind |-> kind, bytes |-> <<>>]
    OBVIOUS
  <1>3. e \in Events(S) /\ e.kind = kind
    <2>1. <<>> \in Seq(S)
      OBVIOUS
    <2> QED
      BY <1>2, <2>1 DEF Events
  <1>4. r = [s EXCEPT !.out = Append(s.out, e)]
    BY <1>1, <1>2 DEF Notify
  <1>5. IsParser(r)
    BY <1>4 DEF IsParser
  <1>6. r.out = Append(s.out, e) /\ \A f \in Fields \ {"out"} : r[f] = s[f]
    BY <1>4 DEF IsParser, Fields
  <1>7. Silent(S, s.out, Append(s.out, e))
    BY <1>3, SilentAppend
  <1> QED
    BY <1>1, <1>5, <1>6, <1>7

\* An URL or a piece of a body.
LEMMA SilentDelivered ==
  ASSUME NEW S, NEW out \in Seq(Events(S)), NEW kind \in {"url", "body"}, NEW bytes \in Seq(S),
         NEW continues \in BOOLEAN, continues => kind = "body"
  PROVE  Silent(S, out, Delivered(out, kind, bytes, continues))
  <1>1. kind \in Marks
    BY DEF Marks
  <1>2. PICK o : o = Delivered(out, kind, bytes, continues)
    OBVIOUS
  <1>3. o \in Seq(Events(S))
    BY <1>1, <1>2, DeliveredTyped
  <1>4. CASE continues /\ out # <<>> /\ out[Len(out)].kind = kind
    <2>1. kind = "body" /\ out[Len(out)].kind = "body"
      BY <1>4
    <2>2. Len(out) \in 1 .. Len(out)
      BY <1>4
    <2>3. PICK d \in Events(S) : d = out[Len(out)]
      BY <2>2
    <2>4. PICK e : e = [d EXCEPT !.bytes = @ \o bytes]
      OBVIOUS
    <2>5. o = [out EXCEPT ![Len(out)] = e]
      BY <1>2, <1>4, <2>3, <2>4 DEF Delivered
    <2>6. e \in Events(S) /\ e.kind = "body"
      <3>1. d = [kind |-> d.kind, bytes |-> d.bytes] /\ d.bytes \in Seq(S) /\ d.kind = "body"
        BY <2>1, <2>3 DEF Events
      <3>2. d.bytes \o bytes \in Seq(S)
        BY <3>1
      <3>3. e = [kind |-> "body", bytes |-> d.bytes \o bytes]
        BY <2>4, <3>1
      <3> QED
        BY <3>2, <3>3 DEF Events, Marks
    <2>7. PICK T : T = Events(S)
      OBVIOUS
    <2>8. out \in Seq(T) /\ e \in T /\ out # <<>>
      BY <1>4, <2>6, <2>7
    <2>9. ASSUME NEW v, Wrapped(out, v)
          PROVE  \E r : Wrapped([out EXCEPT ![Len(out)] = e], r) /\ r.read = v.read /\ r.value = v.value
      <3> QED
        BY <2>1, <2>6, <2>8, <2>9, WrappedLast
    <2> QED
      BY <1>2, <1>3, <2>5, <2>9 DEF Silent
  <1>5. CASE ~(continues /\ out # <<>> /\ out[Len(out)].kind = kind)
    <2>1. PICK e : e = [kind |-> kind, bytes |-> bytes]
      OBVIOUS
    <2>2. e \in Events(S) /\ e.kind = kind
      BY <1>1, <2>1 DEF Events
    <2>3. o = Append(out, e)
      BY <1>2, <1>5, <2>1 DEF Delivered
    <2> QED
      BY <1>2, <2>2, <2>3, SilentAppend
  <1> QED
    BY <1>4, <1>5

\* What has been marked of an URL or of a body goes to its callback.
LEMMA SilentClose ==
  ASSUME NEW S, NEW data \in Seq(S), NEW s, IsParser(s), NEW kind \in {"url", "body"},
         s.mark = kind,
         s.out \in Seq(Events(S)), s.from \in Nat, NEW end \in Nat, 1 <= s.from, s.from <= end + 1,
         end <= Len(data), s.resumed \in BOOLEAN, ~s.resumed
  PROVE  LET r == CALLBACK_DATA(s, data, kind, end)
         IN  /\ Silent(S, s.out, r.out) /\ IsParser(r) /\ r.mark = "none"
             /\ \A f \in Fields \ {"mark", "resumed", "out"} : r[f] = s[f]
  <1>1. kind \in Marks
    BY DEF Marks
  <1>2. PICK r : r = CALLBACK_DATA(s, data, kind, end)
    OBVIOUS
  <1>3. /\ IsParser(r) /\ r.mark = "none" /\ r.out = Closed(s, data, end)
        /\ \A f \in Fields \ {"mark", "resumed", "out"} : r[f] = s[f]
    BY <1>1, <1>2, CloseFacts
  <1>4. PICK p \in Seq(S) : p = SubSeq(data, s.from, end)
    <2>1. SubSeq(data, s.from, end) \in Seq(S)
      BY PartFacts
    <2> QED
      BY <2>1
  <1>5. PICK b \in BOOLEAN : b = (s.mark = "body")
    OBVIOUS
  <1>6. Closed(s, data, end) = Delivered(s.out, kind, p, b)
    <2>1. CASE kind = "body"
      BY <1>4, <1>5, <2>1 DEF Closed, Delivered
    <2>2. CASE kind # "body"
      BY <1>4, <1>5, <2>2 DEF Closed, Delivered
    <2> QED
      BY <2>1, <2>2
  <1>7. Silent(S, s.out, Delivered(s.out, kind, p, b))
    <2>1. b => kind = "body"
      BY <1>5
    <2> QED
      BY <2>1, SilentDelivered
  <1> QED
    BY <1>2, <1>3, <1>6, <1>7

\* A byte that tells of no header, and marks no name and no value.
Hushed(S, s, r) ==
  /\ Silent(S, s.out, r.out)
  /\ ~Halted(r) => r.mark \in {"none", "url", "body"} /\ (r.mark # "none" => ~r.resumed)

\* After such a byte the values belong to their names, if they did before it.
LEMMA HushedTelling ==
  ASSUME NEW S, NEW n \in Nat, NEW w, n = Len(w), NEW s, Going(S, n, s), Marked(s),
         Telling(w, s, s.pos),
         s.state \notin {"s_header_value_start", "s_header_value"},
         NEW r, Hushed(S, s, r), ~Halted(r) => Marked(r), NEW q \in Nat, q >= s.pos
  PROVE  Telling(w, r, q)
  <1>1. PICK v : Wrapped(s.out, v) /\ Told(w, s, s.pos, v)
    BY DEF Telling
  <1>2. PICK x : Wrapped(r.out, x) /\ x.read = v.read /\ x.value = v.value
    BY <1>1 DEF Hushed, Silent
  <1>3. \A f \in Kept : x.value[f] # <<>> => ValueOf(w, f, x.value[f])
    BY <1>1, <1>2 DEF Told
  <1>4. ASSUME ~Halted(r)
        PROVE  /\ r.mark # "none" => ~r.resumed
               /\ r.state \notin {"s_header_field", "s_header_value"}
    BY <1>4 DEF Hushed, Marked
  <1>5. ASSUME ~Halted(r), NEW f \in x.read
        PROVE  Awaits(w, f, r, q)
    <2>1. Awaits(w, f, s, s.pos)
      BY <1>1, <1>2, <1>5 DEF Told, Going
    <2>2. Place(s, s.pos) = s.pos /\ Place(r, q) = q /\ s.pos \in Nat
      BY <1>4, <1>5 DEF Place, Going, Typed
    <2>3. PICK i, c \in 1 .. n : Announces(w, f, i, c) /\ c < s.pos /\ w[c] \in EndOfLine
      BY <2>1, <2>2 DEF Awaits
    <2>4. c < Place(r, q)
      BY <2>2, <2>3
    <2> QED
      BY <2>3, <2>4 DEF Awaits
  <1> QED
    BY <1>2, <1>3, <1>4, <1>5 DEF Telling, Told

\* A byte that makes no callback.
LEMMA HushedSame ==
  ASSUME NEW S, NEW s, s.out \in Seq(Events(S)), NEW r, r.out = s.out,
         r.mark \in {"none", "url", "body"},
         r.mark # "none" => ~r.resumed
  PROVE  Hushed(S, s, r)
  BY SilentSame DEF Hushed

\* After h, of which no header was told.
LEMMA HushedAfter ==
  ASSUME NEW S, NEW s, NEW h, Silent(S, s.out, h.out), NEW r, Hushed(S, h, r)
  PROVE  Hushed(S, s, r)
  BY SilentTwice DEF Hushed

\* An error.
LEMMA HushedError ==
  ASSUME NEW S, NEW s, IsParser(s), s.out \in Seq(Events(S)), NEW e, e # "OK"
  PROVE  Hushed(S, s, SET_ERRNO(s, e))
  <1>1. PICK r : r = SET_ERRNO(s, e)
    OBVIOUS
  <1>2. r.out = s.out /\ r.errno = e
    BY <1>1 DEF SET_ERRNO, IsParser, Fields
  <1> QED
    BY <1>1, <1>2, SilentSame DEF Hushed, Halted

\* The states that mark nothing and make no callback.
LEMMA StartReqHushed ==
  ASSUME NEW S, NEW s, IsParser(s), s.out \in Seq(Events(S)), s.mark = "none", NEW ch
  PROVE  Hushed(S, s, StartReq(s, ch))
  <1>1. PICK r : r = StartReq(s, ch)
    OBVIOUS
  <1>2. r.out = s.out /\ r.mark = "none"
    BY <1>1 DEF IsParser, Fields, StartReq, To, SET_ERRNO
  <1> QED
    BY <1>1, <1>2, HushedSame

\* The version.
LEMMA HttpVersionHushed ==
  ASSUME NEW S, NEW s, IsParser(s), s.out \in Seq(Events(S)), s.mark = "none", NEW ch,
         s.state \in {"s_req_http_start", "s_req_http_minor", "s_req_line_almost_done"}
  PROVE  Hushed(S, s, HttpVersion(s, ch))
  <1>1. PICK r : r = HttpVersion(s, ch)
    OBVIOUS
  <1>2. r.out = s.out /\ r.mark = "none"
    BY <1>1, HttpVersionIs DEF IsParser, Fields, Version, To, SET_ERRNO
  <1> QED
    BY <1>1, <1>2, HushedSame

\* The line feed behind a header.
LEMMA HeaderAlmostDoneHushed ==
  ASSUME NEW S, NEW s, IsParser(s), s.out \in Seq(Events(S)), s.mark = "none", NEW ch
  PROVE  Hushed(S, s, HeaderAlmostDone(s, ch))
  <1>1. PICK r : r = HeaderAlmostDone(s, ch)
    OBVIOUS
  <1>2. r.out = s.out /\ r.mark = "none"
    BY <1>1 DEF IsParser, Fields, HeaderAlmostDone, SET_ERRNO
  <1> QED
    BY <1>1, <1>2, HushedSame

\* The first digit of the size of a chunk.
LEMMA ChunkSizeStartHushed ==
  ASSUME NEW S, NEW s, IsParser(s), s.out \in Seq(Events(S)), s.mark = "none", NEW ch
  PROVE  Hushed(S, s, ChunkSizeStart(s, ch))
  <1>1. PICK r : r = ChunkSizeStart(s, ch)
    OBVIOUS
  <1>2. r.out = s.out /\ r.mark = "none"
    BY <1>1 DEF IsParser, Fields, ChunkSizeStart, SET_ERRNO
  <1> QED
    BY <1>1, <1>2, HushedSame

\* The size of a chunk.
LEMMA ChunkSizeHushed ==
  ASSUME NEW S, NEW s, IsParser(s), s.out \in Seq(Events(S)), s.mark = "none", NEW ch
  PROVE  Hushed(S, s, ChunkSize(s, ch))
  <1>1. PICK r : r = ChunkSize(s, ch)
    OBVIOUS
  <1>2. r.out = s.out /\ r.mark = "none"
    BY <1>1 DEF IsParser, Fields, ChunkSize, Grow, To, SET_ERRNO
  <1> QED
    BY <1>1, <1>2, HushedSame

\* The line feed behind the size of a chunk.
LEMMA ChunkSizeAlmostDoneHushed ==
  ASSUME NEW S, NEW s, IsParser(s), s.out \in Seq(Events(S)), s.mark = "none", NEW ch
  PROVE  Hushed(S, s, ChunkSizeAlmostDone(s, ch))
  <1>1. PICK r : r = ChunkSizeAlmostDone(s, ch)
    OBVIOUS
  <1>2. r.out = s.out /\ r.mark = "none"
    BY <1>1 DEF IsParser, Fields, ChunkSizeAlmostDone, To, SET_ERRNO
  <1> QED
    BY <1>1, <1>2, HushedSame

\* The line feed behind a chunk.
LEMMA ChunkDataDoneHushed ==
  ASSUME NEW S, NEW s, IsParser(s), s.out \in Seq(Events(S)), s.mark = "none", NEW ch
  PROVE  Hushed(S, s, ChunkDataDone(s, ch))
  <1>1. PICK r : r = ChunkDataDone(s, ch)
    OBVIOUS
  <1>2. r.out = s.out /\ r.mark = "none"
    BY <1>1 DEF IsParser, Fields, ChunkDataDone, SET_ERRNO
  <1> QED
    BY <1>1, <1>2, HushedSame

\* The parameters of a chunk.
LEMMA ChunkParametersHushed ==
  ASSUME NEW S, NEW s, IsParser(s), s.out \in Seq(Events(S)), s.mark = "none", NEW ch
  PROVE  Hushed(S, s, IF ch = "CR" THEN To(s, "s_chunk_size_almost_done") ELSE s)
  <1>1. PICK r : r = (IF ch = "CR" THEN To(s, "s_chunk_size_almost_done") ELSE s)
    OBVIOUS
  <1>2. r.out = s.out /\ r.mark = "none"
    BY <1>1 DEF IsParser, Fields, To
  <1> QED
    BY <1>1, <1>2, HushedSame

\* Behind the last message of a connection that closes.
LEMMA DeadHushed ==
  ASSUME NEW S, NEW s, IsParser(s), s.out \in Seq(Events(S)), s.mark = "none", NEW ch
  PROVE  Hushed(S, s, IF ch \in EndOfLine THEN s ELSE SET_ERRNO(s, "CLOSED_CONNECTION"))
  <1>1. PICK r : r = (IF ch \in EndOfLine THEN s ELSE SET_ERRNO(s, "CLOSED_CONNECTION"))
    OBVIOUS
  <1>2. r.out = s.out /\ r.mark = "none"
    BY <1>1 DEF IsParser, Fields, SET_ERRNO
  <1> QED
    BY <1>1, <1>2, HushedSame

\* The URL.
LEMMA UrlCharHushed ==
  ASSUME NEW S, NEW s, IsParser(s), s.out \in Seq(Events(S)), s.mark = "url", ~s.resumed, NEW ch
  PROVE  Hushed(S, s, UrlChar(s, ch))
  <1>1. PICK r : r = UrlChar(s, ch)
    OBVIOUS
  <1>2. PICK q : q = parse_url_char(s.state, ch)
    OBVIOUS
  <1>3. r.out = s.out /\ r.mark = s.mark /\ r.resumed = s.resumed
    BY <1>1, <1>2 DEF IsParser, Fields, UrlChar, To, SET_ERRNO
  <1> QED
    BY <1>1, <1>3, HushedSame

\* The URL begins.
LEMMA BeforeUrlHushed ==
  ASSUME NEW S, NEW s, IsParser(s), s.out \in Seq(Events(S)), s.mark = "none", NEW ch
  PROVE  Hushed(S, s, BeforeUrl(s, ch))
  <1>1. CASE ch = " "
    BY <1>1, HushedSame DEF BeforeUrl
  <1>2. CASE ch # " "
    <2>1. PICK q : q = IF s.method = "CONNECT" THEN "s_req_server_start" ELSE s.state
      OBVIOUS
    <2>2. PICK r : r = To(MARK(s, "url"), q)
      OBVIOUS
    <2>3. IsParser(r)
      BY <2>2 DEF IsParser, To, MARK
    <2>4. r.mark = "url" /\ ~r.resumed /\ r.out = s.out
      BY <2>2 DEF IsParser, Fields, To, MARK
    <2>5. Hushed(S, r, UrlChar(r, ch))
      BY <2>3, <2>4, UrlCharHushed
    <2>6. BeforeUrl(s, ch) = UrlChar(r, ch)
      BY <1>2, <2>1, <2>2 DEF BeforeUrl
    <2>7. Silent(S, s.out, r.out)
      BY <2>4, SilentSame
    <2> QED
      BY <2>5, <2>6, <2>7, HushedAfter
  <1> QED
    BY <1>1, <1>2

\* A byte of the URL, or what ends it.
LEMMA InUrlHushed ==
  ASSUME NEW S, NEW data \in Seq(S), NEW n \in Nat, n = Len(data), NEW s, Going(S, n, s), Marked(s),
         s.mark # "none" => ~s.resumed, NEW ch, s.state \in UrlStates
  PROVE  Hushed(S, s, InUrl(s, data, ch))
  <1>1. /\ IsParser(s) /\ s.out \in Seq(Events(S)) /\ s.mark = "url" /\ s.from \in Nat /\ 1 <= s.from
        /\ s.resumed \in BOOLEAN /\ ~s.resumed /\ s.pos \in 1 .. n /\ s.from <= s.pos
    BY DEF Marked, Going, Typed
  <1>2. PICK end \in Nat : end = s.pos - 1 /\ s.from <= end + 1 /\ end <= Len(data)
    BY <1>1
  <1>3. PICK e : e = CALLBACK_DATA(s, data, "url", end)
    OBVIOUS
  <1>4. Silent(S, s.out, e.out) /\ IsParser(e) /\ e.mark = "none"
    BY <1>1, <1>2, <1>3, SilentClose
  <1>5. e.out \in Seq(Events(S))
    BY <1>4 DEF Silent
  <1>6. CASE s.state \in UrlMayEnd /\ ch \in EndOfLine \cup {" "}
    <2>1. PICK r : r = InUrl(s, data, ch)
      OBVIOUS
    <2>2. PICK q : q = IF ch = "CR" THEN "s_req_line_almost_done" ELSE "s_header_field_start"
      OBVIOUS
    <2>3. r = To(e, "s_req_http_start") \/ r = [e EXCEPT !.http = <<0, 9>>, !.state = q]
      BY <1>2, <1>3, <1>6, <2>1, <2>2 DEF InUrl, EndOfLine
    <2>4. r.out = e.out /\ r.mark = "none"
      BY <1>4, <2>3 DEF IsParser, Fields, To
    <2>5. Hushed(S, e, r)
      BY <1>5, <2>4, HushedSame
    <2> QED
      BY <1>4, <2>1, <2>5, HushedAfter
  <1>7. CASE ~(s.state \in UrlMayEnd /\ ch \in EndOfLine \cup {" "})
    <2>1. InUrl(s, data, ch) = UrlChar(s, ch)
      BY <1>7 DEF InUrl
    <2> QED
      BY <1>1, <2>1, UrlCharHushed
  <1> QED
    BY <1>6, <1>7

\* The end of the headers.
LEMMA MessageCompleteHushed ==
  ASSUME NEW S, NEW s, IsParser(s), s.out \in Seq(Events(S)), s.mark = "none"
  PROVE  LET r == MessageComplete(s)
         IN  Hushed(S, s, r) /\ IsParser(r) /\ Silent(S, s.out, r.out) /\ r.mark = "none"
  <1>1. PICK q : q = NEW_MESSAGE(s)
    OBVIOUS
  <1>2. PICK t : t = To(s, q)
    OBVIOUS
  <1>3. IsParser(t)
    BY <1>2 DEF IsParser, To
  <1>4. t.out = s.out /\ t.mark = "none"
    BY <1>2 DEF IsParser, Fields, To
  <1>5. PICK r : r = Notify(t, "message_complete")
    OBVIOUS
  <1>6. Silent(S, t.out, r.out) /\ IsParser(r) /\ r.mark = t.mark
    BY <1>3, <1>4, <1>5, SilentNotify DEF Fields
  <1>7. MessageComplete(s) = r
    BY <1>1, <1>2, <1>5 DEF MessageComplete
  <1>8. Hushed(S, s, r)
    BY <1>4, <1>6 DEF Hushed
  <1> QED
    BY <1>4, <1>6, <1>7, <1>8

\* The end of the headers, looked at again.
LEMMA HeadersDoneHushed ==
  ASSUME NEW S, NEW s, IsParser(s), s.out \in Seq(Events(S)), s.mark = "none", NEW ch
  PROVE  Hushed(S, s, HeadersDone(s, ch))
  <1>1. PICK r : r = [s EXCEPT !.nread = 0]
    OBVIOUS
  <1>2. IsParser(r)
    BY <1>1 DEF IsParser
  <1>3. r.out = s.out /\ r.mark = "none"
    BY <1>1 DEF IsParser, Fields
  <1>4. PICK m : m = MessageComplete(r)
    OBVIOUS
  <1>5. Hushed(S, r, m) /\ IsParser(m) /\ Silent(S, r.out, m.out) /\ m.mark = "none"
    BY <1>2, <1>3, <1>4, MessageCompleteHushed
  <1>6. Hushed(S, r, To(r, "s_chunk_size_start")) /\ Hushed(S, r, To(r, "s_body_identity"))
    <2>1. ASSUME NEW q
          PROVE  Hushed(S, r, To(r, q))
      <3>1. PICK t : t = To(r, q)
        OBVIOUS
      <3>2. t.out = r.out /\ t.mark = "none"
        BY <1>2, <1>3, <3>1 DEF IsParser, Fields, To
      <3> QED
        BY <1>3, <3>1, <3>2, HushedSame
    <2> QED
      BY <2>1
  <1>7. Hushed(S, r, [m EXCEPT !.returned = TRUE])
    <2>1. PICK t : t = [m EXCEPT !.returned = TRUE]
      OBVIOUS
    <2>2. t.out = m.out /\ t.mark = "none"
      BY <1>5, <2>1 DEF IsParser, Fields
    <2> QED
      BY <1>5, <2>1, <2>2 DEF Hushed
  <1>8. Hushed(S, s, SET_ERRNO(s, "STRICT"))
    BY HushedError
  <1>9. Silent(S, s.out, r.out)
    BY <1>3, SilentSame
  <1>10. HeadersDone(s, ch) \in {SET_ERRNO(s, "STRICT"), [m EXCEPT !.returned = TRUE], m,
                                 To(r, "s_chunk_size_start"), To(r, "s_body_identity")}
    BY <1>1, <1>4 DEF HeadersDone
  <1> QED
    BY <1>5, <1>6, <1>7, <1>8, <1>9, <1>10, HushedAfter

\* The line feed behind the headers.
LEMMA HeadersAlmostDoneHushed ==
  ASSUME NEW S, NEW s, IsParser(s), s.out \in Seq(Events(S)), s.mark = "none", NEW ch
  PROVE  Hushed(S, s, HeadersAlmostDone(s, ch))
  <1>1. CASE ch # "LF"
    BY <1>1, HushedError DEF HeadersAlmostDone
  <1>2. CASE ch = "LF" /\ "F_TRAILING" \in s.flags
    BY <1>2, MessageCompleteHushed DEF HeadersAlmostDone
  <1>3. CASE ch = "LF" /\ "F_TRAILING" \notin s.flags
    <2>1. PICK c : c = Notify(s, "headers_complete")
      OBVIOUS
    <2>2. Silent(S, s.out, c.out) /\ IsParser(c) /\ c.mark = s.mark
      BY <2>1, SilentNotify DEF Fields
    <2>3. PICK b : b = ("F_UPGRADE" \in s.flags \/ s.method = "CONNECT")
      OBVIOUS
    <2>4. PICK h : h = [c EXCEPT !.upgrade = b]
      OBVIOUS
    <2>5. IsParser(h)
      BY <2>2, <2>4 DEF IsParser
    <2>6. h.out = c.out /\ h.mark = "none"
      BY <2>2, <2>4 DEF IsParser, Fields
    <2>7. h.out \in Seq(Events(S))
      BY <2>2, <2>6 DEF Silent
    <2>8. Hushed(S, h, HeadersDone(h, ch))
      BY <2>5, <2>6, <2>7, HeadersDoneHushed
    <2>9. HeadersAlmostDone(s, ch) = HeadersDone(h, ch)
      BY <1>3, <2>1, <2>3, <2>4 DEF HeadersAlmostDone
    <2> QED
      BY <2>2, <2>6, <2>8, <2>9, HushedAfter
  <1> QED
    BY <1>1, <1>2, <1>3

\* The body.
LEMMA ReadBodyHushed ==
  ASSUME NEW S, NEW data \in Seq(S), NEW n \in Nat, n = Len(data), NEW s, Going(S, n, s), Marked(s),
         s.mark # "none" => ~s.resumed, s.state \in {"s_body_identity", "s_chunk_data"}
  PROVE  LET r == ReadBody(s, data)
         IN  /\ IsParser(r) /\ r.out = s.out /\ r.mark = "body" /\ ~r.resumed /\ r.resumed \in BOOLEAN
             /\ r.from \in Nat /\ 1 <= r.from /\ r.from <= r.pos + 1 /\ r.pos \in Nat /\ r.pos <= n
  <1>1. PICK r : r = ReadBody(s, data)
    OBVIOUS
  <1>2. /\ IsParser(r) /\ r.out = s.out /\ r.mark = "body" /\ r.from \in 1 .. s.pos /\ r.resumed \in BOOLEAN
        /\ s.mark = "body" => r.resumed = s.resumed
        /\ s.mark # "body" => ~r.resumed
        /\ r.pos \in s.pos .. n
    BY <1>1, ReadBodyFacts
  <1>3. ~r.resumed
    BY <1>2
  <1>4. s.pos \in 1 .. n
    BY DEF Going, Typed
  <1>5. r.from \in Nat /\ 1 <= r.from /\ r.from <= r.pos + 1 /\ r.pos \in Nat /\ r.pos <= n
    BY <1>2, <1>4
  <1> QED
    BY <1>1, <1>2, <1>3, <1>5

\* A piece of a chunk.
LEMMA ChunkDataHushed ==
  ASSUME NEW S, NEW data \in Seq(S), NEW n \in Nat, n = Len(data), NEW s, Going(S, n, s), Marked(s),
         s.mark # "none" => ~s.resumed, s.state \in {"s_body_identity", "s_chunk_data"}
  PROVE  Hushed(S, s, ChunkData(s, data))
  <1>1. PICK r : r = ReadBody(s, data)
    OBVIOUS
  <1>2. IsParser(r) /\ r.out = s.out /\ r.mark = "body" /\ ~r.resumed
    BY <1>1, ReadBodyHushed
  <1>3. PICK t : t = ChunkData(s, data)
    OBVIOUS
  <1>4. t = To(r, "s_chunk_data_almost_done") \/ t = r
    BY <1>1, <1>3 DEF ChunkData
  <1>5. t.out = s.out /\ t.mark = "body" /\ ~t.resumed
    BY <1>2, <1>4 DEF IsParser, Fields, To
  <1>6. s.out \in Seq(Events(S))
    BY DEF Going, Typed
  <1> QED
    BY <1>3, <1>5, <1>6, HushedSame

\* A piece of a body of a stated length.
LEMMA BodyIdentityHushed ==
  ASSUME NEW S, NEW data \in Seq(S), NEW n \in Nat, n = Len(data), NEW s, Going(S, n, s), Marked(s),
         s.mark # "none" => ~s.resumed, s.state \in {"s_body_identity", "s_chunk_data"}
  PROVE  Hushed(S, s, BodyIdentity(s, data))
  <1>1. PICK r : r = ReadBody(s, data)
    OBVIOUS
  <1>2. /\ IsParser(r) /\ r.out = s.out /\ r.mark = "body" /\ ~r.resumed /\ r.resumed \in BOOLEAN
        /\ r.from \in Nat /\ 1 <= r.from /\ r.from <= r.pos + 1 /\ r.pos \in Nat /\ r.pos <= n
    BY <1>1, ReadBodyHushed
  <1>3. s.out \in Seq(Events(S))
    BY DEF Going, Typed
  <1>4. CASE r.content_length # 0
    <2>1. BodyIdentity(s, data) = r
      BY <1>1, <1>4 DEF BodyIdentity
    <2> QED
      BY <1>2, <1>3, <2>1, HushedSame
  <1>5. CASE r.content_length = 0
    <2>1. PICK e : e = CALLBACK_DATA(r, data, "body", r.pos)
      OBVIOUS
    <2>2. Silent(S, r.out, e.out) /\ IsParser(e) /\ e.mark = "none"
      BY <1>2, <1>3, <2>1, SilentClose
    <2>3. e.out \in Seq(Events(S))
      BY <2>2 DEF Silent
    <2>4. Hushed(S, e, MessageComplete(e))
      BY <2>2, <2>3, MessageCompleteHushed
    <2>5. BodyIdentity(s, data) = MessageComplete(e)
      BY <1>1, <1>5, <2>1 DEF BodyIdentity
    <2> QED
      BY <1>2, <2>2, <2>4, <2>5, HushedAfter
  <1> QED
    BY <1>4, <1>5

\* The carriage return behind a chunk.
LEMMA ChunkDataAlmostDoneHushed ==
  ASSUME NEW S, NEW data \in Seq(S), NEW n \in Nat, n = Len(data), NEW s, Going(S, n, s), Marked(s),
         s.mark # "none" => ~s.resumed, NEW ch, s.state = "s_chunk_data_almost_done"
  PROVE  Hushed(S, s, ChunkDataAlmostDone(s, data, ch))
  <1>1. /\ IsParser(s) /\ s.out \in Seq(Events(S)) /\ s.mark \in {"none", "body"} /\ s.from \in Nat
        /\ 1 <= s.from /\ s.resumed \in BOOLEAN /\ s.pos \in 1 .. n /\ (s.mark # "none" => s.from <= s.pos)
    BY DEF Marked, Going, Typed, ReadsBody
  <1>2. CASE ch # "CR"
    BY <1>1, <1>2, HushedError DEF ChunkDataAlmostDone
  <1>3. CASE ch = "CR"
    <2>1. PICK m : m = To(s, "s_chunk_data_done")
      OBVIOUS
    <2>2. IsParser(m)
      BY <1>1, <2>1 DEF IsParser, To
    <2>3. m.mark = s.mark /\ m.from = s.from /\ m.resumed = s.resumed /\ m.out = s.out
      BY <1>1, <2>1 DEF IsParser, Fields, To
    <2>4. PICK end \in Nat : end = s.pos - 1 /\ (s.mark # "none" => s.from <= end + 1) /\ end <= Len(data)
      BY <1>1
    <2>5. ChunkDataAlmostDone(s, data, ch) = CALLBACK_DATA(m, data, "body", end)
      BY <1>3, <2>1, <2>4 DEF ChunkDataAlmostDone
    <2>6. CASE m.mark = "body"
      <3>1. PICK e : e = CALLBACK_DATA(m, data, "body", end)
        OBVIOUS
      <3>2. m.from \in Nat /\ 1 <= m.from /\ m.from <= end + 1 /\ ~m.resumed /\ m.resumed \in BOOLEAN
            /\ m.out \in Seq(Events(S))
        BY <1>1, <2>3, <2>4, <2>6
      <3>3. Silent(S, m.out, e.out) /\ e.mark = "none"
        BY <2>2, <2>4, <2>6, <3>1, <3>2, SilentClose
      <3> QED
        BY <2>3, <2>5, <3>1, <3>3 DEF Hushed
    <2>7. CASE m.mark = "none"
      <3>1. CALLBACK_DATA(m, data, "body", end) = m
        BY <2>7 DEF CALLBACK_DATA
      <3> QED
        BY <1>1, <2>3, <2>5, <2>7, <3>1, HushedSame
    <2> QED
      BY <1>1, <2>3, <2>6, <2>7
  <1> QED
    BY <1>2, <1>3

(***************************************************************************)
(* The states that tell of a header.                                       *)
(***************************************************************************)
\* A byte that makes no callback.
LEMMA TellingKept ==
  ASSUME NEW w, NEW s, ~Halted(s), Telling(w, s, s.pos), NEW r, r.out = s.out, NEW q,
         ~Halted(r) =>
           /\ r.mark # "none" => ~r.resumed
           /\ \A f \in Kept : Awaits(w, f, s, s.pos) => Awaits(w, f, r, q)
           /\ r.state = "s_header_field" => /\ r.from < q
                                            /\ \A k \in r.from .. q - 1 : w[k] \notin EndOfLine \cup {":"}
           /\ r.state = "s_header_value" => r.from < q,
         NEW T, s.out \in Seq(T)
  PROVE  Telling(w, r, q)
  <1>1. PICK v : Wrapped(s.out, v) /\ Told(w, s, s.pos, v)
    BY DEF Telling
  <1>2. v.read \in SUBSET Kept
    BY <1>1, WrappedIs DEF IsWrapper
  <1>3. Told(w, r, q, v)
    BY <1>1, <1>2 DEF Told
  <1> QED
    BY <1>1, <1>3 DEF Telling

\* What awaits a value behind a line that has ended awaits it later, too.
LEMMA AwaitsOn ==
  ASSUME NEW w, NEW n \in Nat, n = Len(w), NEW f, NEW s,
         s.state \notin {"s_header_value_start", "s_header_value"},
         NEW p \in Nat, Awaits(w, f, s, p), NEW r, NEW q \in Nat, Place(r, q) \in Nat, p <= Place(r, q)
  PROVE  Awaits(w, f, r, q)
  <1>1. Place(s, p) = p
    BY DEF Place
  <1>2. PICK i, c \in 1 .. n : Announces(w, f, i, c) /\ c < p /\ w[c] \in EndOfLine
    BY <1>1 DEF Awaits
  <1>3. c < Place(r, q)
    BY <1>2
  <1> QED
    BY <1>2, <1>3 DEF Awaits

\* The headers end.
LEMMA HeaderFieldStartHushed ==
  ASSUME NEW S, NEW s, IsParser(s), s.out \in Seq(Events(S)), s.mark = "none", NEW ch,
         ch \notin TokenBytes
  PROVE  Hushed(S, s, HeaderFieldStart(s, ch))
  <1>1. CASE ch = "CR"
    <2>1. PICK r : r = To(s, "s_headers_almost_done")
      OBVIOUS
    <2>2. r.out = s.out /\ r.mark = "none"
      BY <2>1 DEF IsParser, Fields, To
    <2>3. Hushed(S, s, r)
      BY <2>2, HushedSame
    <2> QED
      BY <1>1, <2>1, <2>3 DEF HeaderFieldStart
  <1>2. CASE ch = "LF"
    <2>1. HeaderFieldStart(s, ch) = HeadersAlmostDone(s, ch)
      BY <1>2 DEF HeaderFieldStart
    <2> QED
      BY <2>1, HeadersAlmostDoneHushed
  <1>3. CASE ch \notin {"CR", "LF"}
    <2>1. HeaderFieldStart(s, ch) = SET_ERRNO(s, "INVALID_HEADER_TOKEN")
      BY <1>3 DEF HeaderFieldStart
    <2> QED
      BY <2>1, HushedError
  <1> QED
    BY <1>1, <1>2, <1>3

\* A name begins.
LEMMA HeaderFieldStartTelling ==
  ASSUME NEW S, NEW n \in Nat, NEW w \in Seq(S), n = Len(w), NEW s, Going(S, n, s), s.mark = "none",
         s.state \in Plain, s.state \notin {"s_header_value_start", "s_header_value"}, Marked(s),
         Telling(w, s, s.pos), NEW ch, ch = w[s.pos]
  PROVE  Telling(w, HeaderFieldStart(s, ch), s.pos + 1)
  <1>1. IsParser(s) /\ s.out \in Seq(Events(S)) /\ s.pos \in Nat /\ ~Halted(s)
    BY DEF Going, Typed
  <1>2. CASE ch \notin TokenBytes
    <2>1. PICK r : r = HeaderFieldStart(s, ch)
      OBVIOUS
    <2>2. Hushed(S, s, r)
      BY <1>1, <1>2, <2>1, HeaderFieldStartHushed
    <2>3. ~Halted(r) => Marked(r)
      BY <2>1, HeaderFieldStartStep DEF Stepped
    <2>4. s.pos + 1 \in Nat /\ s.pos + 1 >= s.pos
      BY <1>1
    <2> QED
      BY <2>1, <2>2, <2>3, <2>4, HushedTelling
  <1>3. CASE ch \in TokenBytes
    <2>1. PICK r : r = [MARK(s, "header_field") EXCEPT !.state = "s_header_field",
                                                       !.header_state = HeaderState(ch)]
      OBVIOUS
    <2>2. r.state = "s_header_field" /\ r.from = s.pos /\ ~r.resumed /\ r.out = s.out
      BY <1>1, <2>1 DEF IsParser, Fields, MARK
    <2>3. HeaderFieldStart(s, ch) = r
      BY <1>3, <2>1 DEF HeaderFieldStart, TokenBytes, HeaderNames, HexDigits, Digits
    <2>4. PICK q \in Nat : q = s.pos + 1
      BY <1>1
    <2>5. r.from < q /\ r.from .. q - 1 = {s.pos}
      BY <1>1, <2>2, <2>4
    <2>6. ch \notin EndOfLine \cup {":"}
      BY <1>3 DEF TokenBytes, HeaderNames, HexDigits, Digits, EndOfLine
    <2>7. Place(r, q) = q /\ s.pos <= q
      BY <1>1, <2>2, <2>4 DEF Place
    <2>8. \A f \in Kept : Awaits(w, f, s, s.pos) => Awaits(w, f, r, q)
      BY <1>1, <2>7, AwaitsOn
    <2>9. Telling(w, r, q)
      BY <1>1, <2>2, <2>5, <2>6, <2>8, TellingKept
    <2> QED
      BY <2>3, <2>4, <2>9
  <1> QED
    BY <1>2, <1>3

\* A line that may continue the one before.
LEMMA HeaderValueLwsTelling ==
  ASSUME NEW S, NEW n \in Nat, NEW w \in Seq(S), n = Len(w), NEW s, Going(S, n, s), s.mark = "none",
         s.state = "s_header_value_lws", Telling(w, s, s.pos), NEW ch, ch = w[s.pos]
  PROVE  Telling(w, HeaderValueLws(s, ch), s.pos + 1)
  <1>0. PICK q : q = IF ch = " " THEN "s_header_value_start" ELSE "s_header_field_start"
    OBVIOUS
  <1>1. PICK r : r = To(s, q)
    OBVIOUS
  <1>2. IsParser(s) /\ s.out \in Seq(Events(S)) /\ s.pos \in Nat /\ ~Halted(s) /\ s.pos + 1 \in Nat
    BY DEF Going, Typed
  <1>3. IsParser(r)
    BY <1>1, <1>2 DEF IsParser, To
  <1>4. /\ r.state = q
        /\ r.mark = "none" /\ r.pos = s.pos /\ r.from = s.from /\ r.resumed = s.resumed
        /\ r.nread = s.nread /\ r.content_length = s.content_length /\ r.errno = s.errno
        /\ r.upgrade = s.upgrade /\ r.returned = s.returned /\ r.out = s.out
    BY <1>1, <1>2 DEF IsParser, Fields, To
  <1>5. q \in States /\ q \in Plain /\ q \notin {"s_header_field", "s_header_value"}
    BY <1>0 DEF States, Plain
  <1>6. ASSUME NEW t \in {s.pos, s.pos + 1}
        PROVE  Telling(w, r, t)
    <2>1. Place(r, t) = t /\ s.pos <= t /\ t \in Nat
      BY <1>2, <1>4, <1>5 DEF Place
    <2>2. \A f \in Kept : Awaits(w, f, s, s.pos) => Awaits(w, f, r, t)
      BY <1>2, <2>1, AwaitsOn
    <2> QED
      BY <1>2, <1>4, <1>5, <2>2, TellingKept
  <1>7. CASE ch = " "
    BY <1>0, <1>1, <1>6, <1>7 DEF HeaderValueLws
  <1>8. CASE ch # " "
    <2>1. q = "s_header_field_start" /\ HeaderValueLws(s, ch) = HeaderFieldStart(r, ch)
      BY <1>0, <1>1, <1>8 DEF HeaderValueLws
    <2>2. Going(S, n, r)
      BY <1>3, <1>4, <1>5 DEF Going, Typed, Halted
    <2>3. Marked(r)
      BY <1>4, <2>1, StateFacts DEF Marked, Plain
    <2>4. Telling(w, r, r.pos)
      BY <1>4, <1>6
    <2>5. Telling(w, HeaderFieldStart(r, ch), r.pos + 1)
      BY <1>4, <1>5, <2>1, <2>2, <2>3, <2>4, HeaderFieldStartTelling
    <2> QED
      BY <1>4, <2>1, <2>5
  <1> QED
    BY <1>7, <1>8

\* A name or a value of one call goes to its callback.
LEMMA TellClosed ==
  ASSUME NEW S, NEW data \in Seq(S), NEW n \in Nat, n = Len(data), NEW s, IsParser(s),
         s.out \in Seq(Events(S)),
         NEW kind \in {"header_field", "header_value"}, s.mark = kind, ~s.resumed, s.resumed \in BOOLEAN,
         s.from \in Nat, 1 <= s.from, NEW end \in Nat, s.from <= end + 1, end <= n
  PROVE  LET r == CALLBACK_DATA(s, data, kind, end)
             e == [kind |-> kind, bytes |-> SubSeq(data, s.from, end)]
         IN  /\ IsParser(r) /\ r.mark = "none"
             /\ \A f \in Fields \ {"mark", "resumed", "out"} : r[f] = s[f]
             /\ r.out = Append(s.out, e) /\ e \in Events(S)
  <1>1. kind \in Marks
    BY DEF Marks
  <1>2. PICK r : r = CALLBACK_DATA(s, data, kind, end)
    OBVIOUS
  <1>3. /\ IsParser(r) /\ r.mark = "none" /\ r.out = Closed(s, data, end)
        /\ \A f \in Fields \ {"mark", "resumed", "out"} : r[f] = s[f]
    BY <1>1, <1>2, CloseFacts
  <1>4. PICK p \in Seq(S) : p = SubSeq(data, s.from, end)
    <2>1. SubSeq(data, s.from, end) \in Seq(S)
      BY PartFacts
    <2> QED
      BY <2>1
  <1>5. PICK e : e = [kind |-> kind, bytes |-> p]
    OBVIOUS
  <1>6. e \in Events(S)
    BY <1>1, <1>5 DEF Events
  <1>7. Closed(s, data, end) = Append(s.out, e)
    <2>1. s.mark # "body"
      OBVIOUS
    <2> QED
      BY <1>4, <1>5, <2>1 DEF Closed, Delivered
  <1> QED
    BY <1>2, <1>3, <1>4, <1>5, <1>6, <1>7

\* A telling under way and a place in the buffer it may end at.
MayEnd(S, data, s, kind, end) ==
  /\ data \in Seq(S) /\ IsParser(s) /\ s.out \in Seq(Events(S))
  /\ kind \in {"header_field", "header_value"} /\ s.mark = kind
  /\ ~s.resumed /\ s.resumed \in BOOLEAN
  /\ s.from \in Nat /\ 1 <= s.from /\ end \in Nat /\ s.from <= end + 1 /\ end <= Len(data)

\* The telling has ended there: s is then r, and the callback has been given e.
Ended(S, data, s, kind, end, r, e) ==
  /\ MayEnd(S, data, s, kind, end)
  /\ r = CALLBACK_DATA(s, data, kind, end) /\ e = [kind |-> kind, bytes |-> SubSeq(data, s.from, end)]

\* The callback has been given e behind the others.
LEMMA TellEnded ==
  ASSUME NEW S, NEW data, NEW s, NEW kind, NEW end, NEW r, NEW e, Ended(S, data, s, kind, end, r, e)
  PROVE  r.out = Append(s.out, e) /\ e \in Events(S)
  <1>1. /\ data \in Seq(S) /\ kind \in {"header_field", "header_value"} /\ end \in Nat
        /\ r = CALLBACK_DATA(s, data, kind, end)
        /\ e = [kind |-> kind, bytes |-> SubSeq(data, s.from, end)]
    BY DEF Ended, MayEnd
  <1>2. PICK n \in Nat : n = Len(data)
    BY <1>1
  <1>3. /\ IsParser(s) /\ s.out \in Seq(Events(S)) /\ s.mark = kind
        /\ ~s.resumed /\ s.resumed \in BOOLEAN
        /\ s.from \in Nat /\ 1 <= s.from /\ s.from <= end + 1 /\ end <= n
    BY <1>2 DEF Ended, MayEnd
  <1> QED
    BY <1>1, <1>2, <1>3, TellClosed, SMTT(20)


\* The end of a name.
LEMMA NameTelling ==
  ASSUME NEW S, NEW n \in Nat, NEW w \in Seq(S), n = Len(w), NEW s, Going(S, n, s), Marked(s),
         s.state = "s_header_field", Telling(w, s, s.pos), NEW ch, ch = w[s.pos], ch \in EndOfLine \cup {":"},
         NEW r, r.out = CALLBACK_DATA(s, w, "header_field", s.pos - 1).out, r.mark = "none",
         r.state \notin {"s_header_field", "s_header_value"},
         ch = ":" => r.state = "s_header_value_start"
  PROVE  Telling(w, r, s.pos + 1)
  <1>1. PICK v : Wrapped(s.out, v) /\ Told(w, s, s.pos, v)
    BY DEF Telling
  <1>2. /\ IsParser(s) /\ s.out \in Seq(Events(S)) /\ s.mark = "header_field" /\ s.resumed \in BOOLEAN
        /\ s.from \in Nat /\ 1 <= s.from /\ s.pos \in 1 .. n /\ ~Halted(s)
    BY DEF Going, Typed, Marked
  <1>3. /\ ~s.resumed /\ s.from < s.pos
        /\ \A k \in s.from .. s.pos - 1 : w[k] \notin EndOfLine \cup {":"}
        /\ \A f \in v.read : Awaits(w, f, s, s.pos)
        /\ \A f \in Kept : v.value[f] # <<>> => ValueOf(w, f, v.value[f])
    BY <1>1, <1>2 DEF Told
  <1>4. PICK a \in Nat : a = s.from
    BY <1>2
  <1>5. PICK c \in Nat : c = s.pos
    BY <1>2
  <1>6. PICK end \in Nat : end = c - 1 /\ a <= end /\ end <= n /\ 1 <= a /\ a < c /\ c <= n
    BY <1>2, <1>3, <1>4, <1>5
  <1>7. PICK e : e = [kind |-> "header_field", bytes |-> SubSeq(w, a, end)]
    OBVIOUS
  <1>8. r.out = Append(s.out, e) /\ e \in Events(S)
    <2>1. s.from <= end + 1 /\ s.pos - 1 = end
      BY <1>4, <1>5, <1>6
    <2>2. PICK d : d = CALLBACK_DATA(s, w, "header_field", end)
      OBVIOUS
    <2>3. MayEnd(S, w, s, "header_field", end)
      BY <1>2, <1>3, <1>6, <2>1 DEF MayEnd
    <2>4. Ended(S, w, s, "header_field", end, d, e)
      BY <1>4, <1>7, <2>2, <2>3 DEF Ended
    <2>5. r.out = d.out
      BY <2>1, <2>2
    <2> QED
      BY <2>4, <2>5, TellEnded
  <1>9. PICK x : x = Callback(v, e)
    OBVIOUS
  <1>10. Wrapped(r.out, x)
    <2>1. PICK T : T = Events(S)
      OBVIOUS
    <2>2. s.out \in Seq(T) /\ e \in T
      BY <1>2, <1>8, <2>1
    <2> QED
      BY <1>1, <1>8, <1>9, <2>2, WrappedAppend
  <1>11. IsWrapper(v)
    BY <1>1, <1>2, WrappedIs
  <1>12. e.kind = "header_field" /\ e.bytes = SubSeq(w, a, end)
    BY <1>7
  <1>13. /\ x.value = v.value
         /\ \A f \in x.read : f \in Kept /\ (f \in v.read \/ (e.bytes # <<>> /\ e.bytes[1] = f))
    BY <1>9, <1>11, <1>12, CallbackFacts
  <1>14. e.bytes[1] = w[a]
    <2>1. 1 \in 1 .. end - a + 1 /\ a <= end + 1 /\ a + 1 - 1 = a
      BY <1>6
    <2>2. SubSeq(w, a, end)[1] = w[a + 1 - 1]
      BY <1>6, <2>1, PartFacts
    <2> QED
      BY <1>12, <2>1, <2>2
  <1>15. PICK q \in Nat : q = c + 1
    OBVIOUS
  <1>16. Place(r, q) = q
    BY DEF Place
  <1>17. ASSUME NEW f \in x.read
         PROVE  Awaits(w, f, r, q)
    <2>1. CASE f \in v.read
      <3>1. Awaits(w, f, s, c)
        BY <1>3, <1>5, <2>1
      <3>2. c <= Place(r, q)
        BY <1>15, <1>16
      <3> QED
        BY <1>16, <3>1, <3>2, AwaitsOn
    <2>2. CASE f \notin v.read
      <3>1. w[a] = f
        BY <1>13, <1>14, <2>2
      <3>2. a \in 1 .. Len(w) /\ c \in 1 .. Len(w)
        BY <1>6
      <3>3. \A k \in a .. c - 1 : w[k] \notin EndOfLine \cup {":"}
        BY <1>3, <1>4, <1>5
      <3>4. Announces(w, f, a, c)
        BY <1>6, <3>1, <3>2, <3>3 DEF Announces
      <3>5. c < Place(r, q) /\ c + 1 .. q - 1 = {}
        BY <1>15, <1>16
      <3>6. Blanks(w, c + 1, Place(r, q) - 1)
        BY <1>16, <3>5 DEF Blanks
      <3>7. w[c] \in EndOfLine \/ (w[c] = ":" /\ r.state = "s_header_value_start")
        BY <1>5
      <3> QED
        BY <3>2, <3>4, <3>5, <3>6, <3>7 DEF Awaits
    <2> QED
      BY <2>1, <2>2
  <1>18. Told(w, r, q, x)
    BY <1>3, <1>13, <1>17 DEF Told
  <1> QED
    BY <1>5, <1>10, <1>15, <1>18 DEF Telling

\* A parser whose value, which may be empty, ends at position end, and what the
\* callback for it leaves.
EndsValue(S, w, s, v, end, r) ==
  /\ MayEnd(S, w, s, "header_value", end) /\ s.state = "s_header_value" /\ Wrapped(s.out, v)
  /\ r.out = CALLBACK_DATA(s, w, "header_value", end).out
  /\ \A f \in Kept : v.value[f] # <<>> => ValueOf(w, f, v.value[f])
  /\ s.from <= end => \A f \in v.read : Awaits(w, f, s, end + 1)

\* The wrapper keeps the value for the header that awaited it.
LEMMA ValueTold ==
  ASSUME NEW S, NEW w, NEW s, NEW v, NEW end, NEW r, EndsValue(S, w, s, v, end, r)
  PROVE  \E x : /\ Wrapped(r.out, x) /\ x.read = {}
               /\ \A f \in Kept : x.value[f] # <<>> => ValueOf(w, f, x.value[f])
  <1>10. w \in Seq(S) /\ end \in Nat /\ MayEnd(S, w, s, "header_value", end)
    BY DEF EndsValue, MayEnd
  <1>11. PICK n \in Nat : n = Len(w)
    BY <1>10
  <1>0. /\ IsParser(s) /\ s.out \in Seq(Events(S)) /\ s.state = "s_header_value"
        /\ s.from \in Nat /\ 1 <= s.from /\ s.from <= end + 1 /\ end <= n /\ Wrapped(s.out, v)
        /\ \A f \in Kept : v.value[f] # <<>> => ValueOf(w, f, v.value[f])
        /\ s.from <= end => \A f \in v.read : Awaits(w, f, s, end + 1)
    BY <1>11 DEF EndsValue, MayEnd
  <1>1. PICK a \in Nat : a = s.from /\ 1 <= a /\ a <= end + 1
    BY <1>0
  <1>2. PICK t : t = SubSeq(w, a, end)
    OBVIOUS
  <1>3. PICK e : e = [kind |-> "header_value", bytes |-> t]
    OBVIOUS
  <1>4. r.out = Append(s.out, e) /\ e \in Events(S)
    <2>1. PICK d : d = CALLBACK_DATA(s, w, "header_value", end)
      OBVIOUS
    <2>2. Ended(S, w, s, "header_value", end, d, e)
      BY <1>1, <1>2, <1>3, <1>10, <2>1 DEF Ended
    <2>3. r.out = d.out
      BY <2>1 DEF EndsValue
    <2> QED
      BY <2>2, <2>3, TellEnded
  <1>5. PICK x : x = Callback(v, e)
    OBVIOUS
  <1>6. Wrapped(r.out, x)
    <2>1. PICK T : T = Events(S)
      OBVIOUS
    <2>2. s.out \in Seq(T) /\ e \in T
      BY <1>0, <1>4, <2>1
    <2> QED
      BY <1>0, <1>4, <1>5, <2>2, WrappedAppend
  <1>7. IsWrapper(v)
    BY <1>0, WrappedIs
  <1>8. x.read = {} /\ x.value = [f \in Kept |-> IF f \in v.read THEN t ELSE v.value[f]]
    BY <1>3, <1>5, <1>7, CallbackFacts
  <1>9. ASSUME NEW f \in Kept, x.value[f] # <<>>
        PROVE  ValueOf(w, f, x.value[f])
    <2>1. CASE f \notin v.read
      BY <1>0, <1>8, <1>9, <2>1
    <2>2. CASE f \in v.read
      <3>1. x.value[f] = t /\ t # <<>>
        BY <1>8, <1>9, <2>2
      <3>2. a <= end
        <4>1. CASE a > end
          <5>1. Len(t) = 0 /\ t \in Seq(S)
            BY <1>0, <1>1, <1>2, <1>10, <1>11, <4>1, PartFacts
          <5> QED
            BY <3>1, <5>1
        <4> QED
          BY <1>1, <1>10, <4>1
      <3>3. Awaits(w, f, s, end + 1)
        BY <1>0, <1>1, <2>2, <3>2
      <3>4. Place(s, end + 1) = a
        BY <1>0, <1>1 DEF Place
      <3>5. PICK i, c \in 1 .. n :
              /\ Announces(w, f, i, c) /\ c < a
              /\ w[c] \in EndOfLine \/ (w[c] = ":" /\ Blanks(w, c + 1, a - 1))
        BY <1>11, <3>3, <3>4 DEF Awaits
      <3>6. a \in 1 .. n /\ end \in 1 .. n
        BY <1>0, <1>1, <1>10, <3>2
      <3> QED
        BY <1>2, <1>11, <3>1, <3>2, <3>5, <3>6 DEF ValueOf
    <2> QED
      BY <2>1, <2>2
  <1> QED
    BY <1>6, <1>8, <1>9

\* A value has ended, and the parser goes on without a mark.
LEMMA ValueTelling ==
  ASSUME NEW S, NEW w, NEW s, NEW v, NEW end, NEW r, EndsValue(S, w, s, v, end, r),
         ~Halted(r) => r.mark = "none" /\ r.state \notin {"s_header_field", "s_header_value"}, NEW q
  PROVE  Telling(w, r, q)
  <1>1. PICK x : /\ Wrapped(r.out, x) /\ x.read = {}
                 /\ \A f \in Kept : x.value[f] # <<>> => ValueOf(w, f, x.value[f])
    BY ValueTold
  <1>2. Told(w, r, q, x)
    BY <1>1 DEF Told
  <1> QED
    BY <1>1, <1>2 DEF Telling

\* What is marked was marked in this call.
LEMMA TellingFacts ==
  ASSUME NEW w, NEW s, ~Halted(s), NEW p, Telling(w, s, p)
  PROVE  /\ s.mark # "none" => ~s.resumed
         /\ s.state = "s_header_field" => /\ s.from < p
                                          /\ \A k \in s.from .. p - 1 : w[k] \notin EndOfLine \cup {":"}
         /\ s.state = "s_header_value" => s.from < p
  BY DEF Telling, Told

\* An error leaves the wrapper as it was.
LEMMA ErrorTelling ==
  ASSUME NEW S, NEW n \in Nat, NEW w, n = Len(w), NEW s, Going(S, n, s), Telling(w, s, s.pos),
         NEW e, e # "OK",
         NEW r, r = SET_ERRNO(s, e), NEW q
  PROVE  Telling(w, r, q)
  <1>1. IsParser(s) /\ s.out \in Seq(Events(S)) /\ ~Halted(s)
    BY DEF Going, Typed
  <1>2. r.out = s.out /\ r.errno = e
    BY <1>1 DEF IsParser, Fields, SET_ERRNO
  <1>3. Halted(r)
    BY <1>2 DEF Halted
  <1> QED
    BY <1>1, <1>2, <1>3, TellingKept

\* A byte of a name, or the colon behind it.
LEMMA HeaderFieldTelling ==
  ASSUME NEW S, NEW n \in Nat, NEW w \in Seq(S), n = Len(w), NEW s, Going(S, n, s), Marked(s),
         s.state = "s_header_field", Telling(w, s, s.pos), NEW ch, ch = w[s.pos]
  PROVE  Telling(w, HeaderField(s, w, ch), s.pos + 1)
  <1>1. /\ IsParser(s) /\ s.out \in Seq(Events(S)) /\ s.mark = "header_field" /\ s.resumed \in BOOLEAN
        /\ s.from \in Nat /\ 1 <= s.from /\ s.pos \in 1 .. n /\ ~Halted(s)
    BY DEF Going, Typed, Marked
  <1>2. /\ ~s.resumed /\ s.from < s.pos
        /\ \A k \in s.from .. s.pos - 1 : w[k] \notin EndOfLine \cup {":"}
    BY <1>1, TellingFacts
  <1>3. PICK q \in Nat : q = s.pos + 1
    BY <1>1
  <1>4. CASE ch \in TokenBytes
    <2>1. PICK r : r = [s EXCEPT !.header_state = "h_general"]
      OBVIOUS
    <2>2. /\ r.state = s.state /\ r.mark = s.mark /\ r.from = s.from /\ r.resumed = s.resumed /\ r.out = s.out
      BY <1>1, <2>1 DEF IsParser, Fields
    <2>3. HeaderField(s, w, ch) = r
      BY <1>4, <2>1 DEF HeaderField, TokenBytes, HeaderNames, HexDigits, Digits
    <2>4. ch \notin EndOfLine \cup {":"}
      BY <1>4 DEF TokenBytes, HeaderNames, HexDigits, Digits, EndOfLine
    <2>5. ASSUME NEW k \in r.from .. q - 1
          PROVE  w[k] \notin EndOfLine \cup {":"}
      <3>1. k = s.pos \/ k \in s.from .. s.pos - 1
        BY <1>1, <1>3, <2>2
      <3> QED
        BY <1>2, <2>4, <3>1
    <2>6. r.from < q
      BY <1>1, <1>2, <1>3, <2>2
    <2>7. Place(r, q) = q /\ s.pos <= q /\ s.pos \in Nat
      BY <1>1, <1>3, <2>2 DEF Place
    <2>8. \A f \in Kept : Awaits(w, f, s, s.pos) => Awaits(w, f, r, q)
      BY <2>7, AwaitsOn
    <2>9. ~Halted(r) => (r.mark # "none" => ~r.resumed)
      BY <1>2, <2>2
    <2>10. r.state # "s_header_value"
      BY <2>2
    <2>11. Telling(w, r, q)
      BY <1>1, <2>2, <2>5, <2>6, <2>8, <2>9, <2>10, TellingKept
    <2> QED
      BY <1>3, <2>3, <2>11
  <1>5. CASE ch \in {":", "CR", "LF"}
    <2>1. PICK e : e = CALLBACK_DATA(s, w, "header_field", s.pos - 1)
      OBVIOUS
    <2>2. PICK t : t = CASE ch = ":"  -> "s_header_value_start"
                         [] ch = "CR" -> "s_header_almost_done"
                         [] ch = "LF" -> "s_header_field_start"
      OBVIOUS
    <2>3. t \notin {"s_header_field", "s_header_value"} /\ (ch = ":" => t = "s_header_value_start")
      BY <1>5, <2>2
    <2>4. PICK r : r = To(e, t)
      OBVIOUS
    <2>5. HeaderField(s, w, ch) = r
      BY <1>5, <2>1, <2>2, <2>4 DEF HeaderField, TokenBytes, HeaderNames, HexDigits, Digits
    <2>6. Going(S, n, e) /\ e.mark = "none"
      <3>1. "header_field" \in Marks /\ s.from <= s.pos
        BY <1>1, <1>2 DEF Marks
      <3> QED
        BY <1>1, <2>1, <3>1, CloseGoes
    <2>7. IsParser(e)
      BY <2>6 DEF Going, Typed
    <2>8. r.out = e.out /\ r.mark = "none" /\ r.state = t
      BY <2>4, <2>6, <2>7 DEF IsParser, Fields, To
    <2>9. ch \in EndOfLine \cup {":"}
      BY <1>5 DEF EndOfLine
    <2>10. r.out = CALLBACK_DATA(s, w, "header_field", s.pos - 1).out
      BY <2>1, <2>8
    <2> QED
      BY <2>3, <2>5, <2>8, <2>9, <2>10, NameTelling
  <1>6. CASE ch \notin TokenBytes \cup {":", "CR", "LF"}
    <2>1. HeaderField(s, w, ch) = SET_ERRNO(s, "INVALID_HEADER_TOKEN")
      BY <1>6 DEF HeaderField
    <2> QED
      BY <2>1, ErrorTelling
  <1> QED
    BY <1>4, <1>5, <1>6

\* A value begins, or there is none.
LEMMA HeaderValueStartTelling ==
  ASSUME NEW S, NEW n \in Nat, NEW w \in Seq(S), n = Len(w), NEW s, Going(S, n, s), Marked(s),
         s.mark = "none",
         s.state = "s_header_value_start", Telling(w, s, s.pos), NEW ch, ch = w[s.pos]
  PROVE  Telling(w, HeaderValueStart(s, w, ch), s.pos + 1)
  <1>1. /\ IsParser(s) /\ s.out \in Seq(Events(S)) /\ s.pos \in 1 .. n /\ ~Halted(s)
    BY DEF Going, Typed
  <1>2. PICK m : m = To(MARK(s, "header_value"), "s_header_value")
    OBVIOUS
  <1>3. IsParser(m)
    BY <1>1, <1>2 DEF IsParser, To, MARK
  <1>4. /\ m.state = "s_header_value" /\ m.mark = "header_value" /\ m.pos = s.pos /\ m.from = s.pos
        /\ ~m.resumed /\ m.resumed \in BOOLEAN /\ m.out = s.out
    BY <1>1, <1>2 DEF IsParser, Fields, To, MARK
  <1>5. PICK q \in Nat : q = s.pos + 1
    BY <1>1
  <1>6. PICK p \in Nat : p = s.pos /\ 1 <= p /\ p <= n
    BY <1>1
  <1>7. CASE ch = " "
    <2>1. HeaderValueStart(s, w, ch) = s
      BY <1>7 DEF HeaderValueStart
    <2>2. Place(s, p) = p /\ Place(s, q) = q
      BY DEF Place
    <2>3. ASSUME NEW f \in Kept, Awaits(w, f, s, p)
          PROVE  Awaits(w, f, s, q)
      <3>1. PICK i, c \in 1 .. n :
              /\ Announces(w, f, i, c) /\ c < p
              /\ w[c] \in EndOfLine \/ (w[c] = ":" /\ Blanks(w, c + 1, p - 1))
        BY <2>2, <2>3 DEF Awaits
      <3>2. ASSUME Blanks(w, c + 1, p - 1)
            PROVE  Blanks(w, c + 1, q - 1)
        <4>1. \A k \in c + 1 .. q - 1 : k = p \/ k \in c + 1 .. p - 1
          BY <1>5, <1>6
        <4> QED
          BY <1>6, <1>7, <3>2, <4>1 DEF Blanks
      <3>3. c < q
        BY <1>5, <1>6, <3>1
      <3> QED
        BY <2>2, <3>1, <3>2, <3>3 DEF Awaits
    <2>4. Telling(w, s, q)
      BY <1>1, <1>6, <2>3, TellingKept
    <2> QED
      BY <1>5, <2>1, <2>4
  <1>8. CASE ch \in EndOfLine
    <2>1. PICK end \in Nat : end = p - 1 /\ end <= n
      BY <1>6
    <2>2. PICK e : e = CALLBACK_DATA(m, w, "header_value", end)
      OBVIOUS
    <2>3. m.from \in Nat /\ 1 <= m.from /\ m.from <= end + 1 /\ ~(m.from <= end) /\ m.out \in Seq(Events(S))
      BY <1>1, <1>4, <1>6, <2>1
    <2>4. IsParser(e) /\ e.mark = "none"
      <3>1. "header_value" \in Marks /\ m.mark = "header_value"
        BY <1>4 DEF Marks
      <3> QED
        BY <1>3, <2>1, <2>2, <2>3, <3>1, CloseFacts
    <2>5. PICK r : r = HeaderValueStart(s, w, ch)
      OBVIOUS
    <2>6. r = [e EXCEPT !.header_state = "h_general", !.state = "s_header_almost_done"]
          \/ r = To(e, "s_header_field_start")
      BY <1>2, <1>6, <1>8, <2>1, <2>2, <2>5 DEF HeaderValueStart, EndOfLine
    <2>7. r.out = e.out /\ r.mark = "none" /\ r.state \notin {"s_header_field", "s_header_value"}
      BY <2>4, <2>6 DEF IsParser, Fields, To
    <2>8. PICK v : Wrapped(s.out, v) /\ Told(w, s, s.pos, v)
      BY DEF Telling
    <2>9. \A f \in Kept : v.value[f] # <<>> => ValueOf(w, f, v.value[f])
      BY <2>8 DEF Told
    <2>10. Wrapped(m.out, v) /\ r.out = CALLBACK_DATA(m, w, "header_value", end).out
      BY <1>4, <2>2, <2>7, <2>8
    <2>11. EndsValue(S, w, m, v, end, r)
      <3>1. MayEnd(S, w, m, "header_value", end)
        BY <1>3, <1>4, <2>1, <2>3 DEF MayEnd
      <3> QED
        BY <1>4, <2>3, <2>9, <2>10, <3>1 DEF EndsValue
    <2>12. Telling(w, r, q)
      BY <2>7, <2>11, ValueTelling
    <2> QED
      BY <1>5, <2>5, <2>12
  <1>9. CASE ch \notin EndOfLine \cup {" "}
    <2>1. PICK r : r = HeaderValueStart(s, w, ch)
      OBVIOUS
    <2>2. PICK g : g = ValueState(s.header_state, ch)
      OBVIOUS
    <2>3. PICK b : b = Value[ch]
      OBVIOUS
    <2>4. \/ r = [m EXCEPT !.content_length = b]
          \/ r = SET_ERRNO(m, "INVALID_CONTENT_LENGTH")
          \/ r = [m EXCEPT !.header_state = g,
                           !.flags = IF s.header_state = "h_upgrade" THEN @ \cup {"F_UPGRADE"} ELSE @]
      BY <1>2, <1>9, <2>1, <2>2, <2>3 DEF HeaderValueStart, EndOfLine
    <2>5. /\ r.state = "s_header_value" /\ r.from = p /\ ~r.resumed /\ r.out = s.out
      <3>1. PICK x : x = IF s.header_state = "h_upgrade" THEN m.flags \cup {"F_UPGRADE"} ELSE m.flags
        OBVIOUS
      <3>2. \/ r = [m EXCEPT !.content_length = b]
            \/ r = SET_ERRNO(m, "INVALID_CONTENT_LENGTH")
            \/ r = [m EXCEPT !.header_state = g, !.flags = x]
        BY <1>3, <2>4, <3>1 DEF IsParser, Fields
      <3>3. r.state = m.state /\ r.from = m.from /\ r.resumed = m.resumed /\ r.out = m.out
        BY <1>3, <3>2 DEF IsParser, Fields, SET_ERRNO
      <3> QED
        BY <1>4, <1>6, <3>3
    <2>6. Place(r, q) = p /\ Place(s, p) = p
      BY <2>5 DEF Place
    <2>7. \A f \in Kept : Awaits(w, f, s, p) => Awaits(w, f, r, q)
      BY <2>5, <2>6 DEF Awaits
    <2>8. r.from < q
      BY <1>5, <1>6, <2>5
    <2>9. Telling(w, r, q)
      BY <1>1, <1>6, <2>5, <2>7, <2>8, TellingKept
    <2> QED
      BY <1>5, <2>1, <2>9
  <1> QED
    BY <1>7, <1>8, <1>9

\* A byte of a value, or the end of its line.
LEMMA HeaderValueTelling ==
  ASSUME NEW S, NEW n \in Nat, NEW w \in Seq(S), n = Len(w), NEW s, Going(S, n, s), Marked(s),
         s.state = "s_header_value", Telling(w, s, s.pos), NEW ch, ch = w[s.pos]
  PROVE  Telling(w, HeaderValue(s, w, ch), s.pos + 1)
  <1>1. /\ IsParser(s) /\ s.out \in Seq(Events(S)) /\ s.mark = "header_value" /\ s.resumed \in BOOLEAN
        /\ s.from \in Nat /\ 1 <= s.from /\ s.pos \in 1 .. n /\ ~Halted(s)
    BY DEF Going, Typed, Marked
  <1>2. ~s.resumed /\ s.from < s.pos
    BY <1>1, TellingFacts
  <1>3. PICK q \in Nat : q = s.pos + 1
    BY <1>1
  <1>4. CASE ch \in EndOfLine
    <2>1. PICK end \in Nat : end = s.pos - 1 /\ end + 1 = s.pos /\ s.from <= end + 1 /\ end <= n
      BY <1>1, <1>2
    <2>2. PICK e : e = CALLBACK_DATA(s, w, "header_value", end)
      OBVIOUS
    <2>3. IsParser(e) /\ e.mark = "none"
      <3>1. "header_value" \in Marks
        BY DEF Marks
      <3> QED
        BY <1>1, <2>1, <2>2, <3>1, CloseFacts
    <2>4. PICK m : m = To(e, "s_header_almost_done")
      OBVIOUS
    <2>5. IsParser(m)
      BY <2>3, <2>4 DEF IsParser, To
    <2>6. m.out = e.out /\ m.mark = "none" /\ m.state = "s_header_almost_done" /\ m.flags = e.flags
      BY <2>3, <2>4 DEF IsParser, Fields, To
    <2>7. PICK r : r = HeaderValue(s, w, ch)
      OBVIOUS
    <2>8. PICK b : b = m.flags \cup HeaderFlags(m.header_state)
      OBVIOUS
    <2>9. r = m \/ r = [m EXCEPT !.state = "s_header_value_lws", !.flags = b]
      <3>1. CASE ch = "CR"
        BY <2>1, <2>2, <2>4, <2>7, <3>1 DEF HeaderValue
      <3>2. CASE ch = "LF"
        <4>1. r = HeaderAlmostDone(m, ch)
          BY <2>1, <2>2, <2>4, <2>7, <3>2 DEF HeaderValue
        <4> QED
          BY <2>5, <2>8, <3>2, <4>1 DEF HeaderAlmostDone, IsParser, Fields
      <3> QED
        BY <1>4, <3>1, <3>2 DEF EndOfLine
    <2>10. r.out = e.out /\ r.mark = "none" /\ r.state \notin {"s_header_field", "s_header_value"}
      BY <2>5, <2>6, <2>9 DEF IsParser, Fields
    <2>11. PICK v : Wrapped(s.out, v) /\ Told(w, s, s.pos, v)
      BY DEF Telling
    <2>12. /\ \A f \in Kept : v.value[f] # <<>> => ValueOf(w, f, v.value[f])
           /\ \A f \in v.read : Awaits(w, f, s, end + 1)
      BY <1>1, <2>1, <2>11 DEF Told
    <2>13. r.out = CALLBACK_DATA(s, w, "header_value", end).out
      BY <2>2, <2>10
    <2>14. EndsValue(S, w, s, v, end, r)
      <3>1. MayEnd(S, w, s, "header_value", end)
        BY <1>1, <1>2, <2>1 DEF MayEnd
      <3> QED
        BY <1>1, <1>2, <2>11, <2>12, <2>13, <3>1 DEF EndsValue
    <2>15. Telling(w, r, q)
      BY <2>10, <2>14, ValueTelling
    <2> QED
      BY <1>3, <2>7, <2>15
  <1>5. CASE ch \notin EndOfLine
    <2>1. PICK r : r = HeaderValue(s, w, ch)
      OBVIOUS
    <2>2. PICK g : g = Grow(s, 10, Value[ch], "INVALID_CONTENT_LENGTH")
      OBVIOUS
    <2>3. r = s \/ r = [s EXCEPT !.header_state = "h_general"] \/ (r = g /\ ch \in Digits)
          \/ r = SET_ERRNO(s, "INVALID_CONTENT_LENGTH")
      BY <1>5, <2>1, <2>2 DEF HeaderValue, EndOfLine
    <2>4. r.state = s.state /\ r.mark = s.mark /\ r.from = s.from /\ r.resumed = s.resumed /\ r.out = s.out
      <3>1. CASE r = g
        <4>1. PICK t : t = (s.content_length * 10 + Value[ch]) % Width
          OBVIOUS
        <4>2. r = SET_ERRNO(s, "INVALID_CONTENT_LENGTH") \/ r = [s EXCEPT !.content_length = t]
          BY <2>2, <3>1, <4>1 DEF Grow
        <4> QED
          BY <1>1, <4>2 DEF IsParser, Fields, SET_ERRNO
      <3>2. CASE r # g
        BY <1>1, <2>3, <3>2 DEF IsParser, Fields, SET_ERRNO
      <3> QED
        BY <3>1, <3>2
    <2>5. Place(r, q) = s.from /\ Place(s, s.pos) = s.from
      BY <2>4 DEF Place
    <2>6. \A f \in Kept : Awaits(w, f, s, s.pos) => Awaits(w, f, r, q)
      BY <2>4, <2>5 DEF Awaits
    <2>7. r.from < q /\ ~r.resumed /\ r.state = "s_header_value"
      BY <1>1, <1>2, <1>3, <2>4
    <2>8. Telling(w, r, q)
      BY <1>1, <2>4, <2>6, <2>7, TellingKept
    <2> QED
      BY <1>3, <2>1, <2>8
  <1> QED
    BY <1>4, <1>5

\* Whatever state the parser is in, a byte leaves the wrapper with values that
\* belong to their names.
LEMMA DispatchTelling ==
  ASSUME NEW S, NEW n \in Nat, NEW w \in Seq(S), n = Len(w), NEW s, Going(S, n, s), Marked(s),
         Telling(w, s, s.pos), NEW ch, ch = w[s.pos]
  PROVE  Telling(w, Dispatch(s, w, ch), Dispatch(s, w, ch).pos + 1)
  <1>0. PICK r : r = Dispatch(s, w, ch)
    OBVIOUS
  <1>1. /\ s.state \in States /\ IsParser(s) /\ s.out \in Seq(Events(S)) /\ ~Halted(s) /\ s.pos \in 1 .. n
    BY DEF Going, Typed
  <1>2. s.mark # "none" => ~s.resumed
    BY <1>1, TellingFacts
  <1>3. /\ Typed(S, n, r) /\ (~Halted(r) => Marked(r)) /\ r.pos \in Nat /\ r.pos >= s.pos
    <2>1. Moved(S, n, s, r)
      BY <1>0, DispatchStep
    <2>2. r.pos \in 1 .. n + 1
      BY <2>1 DEF Moved, Typed
    <2> QED
      BY <1>1, <2>1, <2>2 DEF Moved
  <1>4. CASE s.state = "s_header_field_start"
    <2>1. r = HeaderFieldStart(s, ch)
      BY <1>0, <1>4 DEF Dispatch, UrlStates, UrlMayEnd
    <2>2. s.state \in Plain /\ s.mark = "none"
      BY <1>4, StateFacts DEF Plain, Marked
    <2>3. r.pos = s.pos
      <3>1. Stepped(S, n, s, r)
        BY <2>1, <2>2, HeaderFieldStartStep
      <3> QED
        BY <3>1 DEF Stepped
    <2>4. Telling(w, r, s.pos + 1)
      BY <1>4, <2>1, <2>2, HeaderFieldStartTelling
    <2> QED
      BY <1>0, <2>3, <2>4
  <1>5. CASE s.state = "s_header_field"
    <2>1. r = HeaderField(s, w, ch)
      BY <1>0, <1>5 DEF Dispatch, UrlStates, UrlMayEnd
    <2>2. r.pos = s.pos
      BY <1>5, <2>1, HeaderFieldStep DEF Stepped
    <2>3. Telling(w, r, s.pos + 1)
      BY <1>5, <2>1, HeaderFieldTelling
    <2> QED
      BY <1>0, <2>2, <2>3
  <1>6. CASE s.state = "s_header_value_start"
    <2>1. r = HeaderValueStart(s, w, ch)
      BY <1>0, <1>6 DEF Dispatch, UrlStates, UrlMayEnd
    <2>2. s.mark = "none"
      BY <1>6, StateFacts DEF Plain, Marked
    <2>3. r.pos = s.pos
      BY <1>6, <2>1, <2>2, HeaderValueStartStep DEF Stepped
    <2>4. Telling(w, r, s.pos + 1)
      BY <1>6, <2>1, <2>2, HeaderValueStartTelling
    <2> QED
      BY <1>0, <2>3, <2>4
  <1>7. CASE s.state = "s_header_value"
    <2>1. r = HeaderValue(s, w, ch)
      BY <1>0, <1>7 DEF Dispatch, UrlStates, UrlMayEnd
    <2>2. r.pos = s.pos
      BY <1>7, <2>1, HeaderValueStep DEF Stepped
    <2>3. Telling(w, r, s.pos + 1)
      BY <1>7, <2>1, HeaderValueTelling
    <2> QED
      BY <1>0, <2>2, <2>3
  <1>8. CASE s.state = "s_header_value_lws"
    <2>1. r = HeaderValueLws(s, ch)
      BY <1>0, <1>8 DEF Dispatch, UrlStates, UrlMayEnd
    <2>2. s.mark = "none"
      BY <1>8, StateFacts DEF Plain, Marked
    <2>3. r.pos = s.pos
      BY <2>1, <2>2, HeaderValueLwsStep DEF Stepped
    <2>4. Telling(w, r, s.pos + 1)
      BY <1>8, <2>1, <2>2, HeaderValueLwsTelling
    <2> QED
      BY <1>0, <2>3, <2>4
  <1>9. CASE s.state \notin {"s_header_field_start", "s_header_field", "s_header_value_start",
                             "s_header_value", "s_header_value_lws"}
    <2>0. s.state \in Plain => s.mark = "none"
      BY StateFacts DEF Marked
    <2>1. Hushed(S, s, r)
      <3>1. CASE s.state \in UrlStates
        <4>1. r = InUrl(s, w, ch)
          BY <1>0, <3>1 DEF Dispatch, UrlStates, UrlMayEnd
        <4> QED
          BY <1>2, <3>1, <4>1, InUrlHushed
      <3>2. CASE s.state = "s_body_identity"
        <4>1. r = BodyIdentity(s, w)
          BY <1>0, <3>2 DEF Dispatch, UrlStates, UrlMayEnd
        <4> QED
          BY <1>2, <3>2, <4>1, BodyIdentityHushed
      <3>3. CASE s.state = "s_chunk_data"
        <4>1. r = ChunkData(s, w)
          BY <1>0, <3>3 DEF Dispatch, UrlStates, UrlMayEnd
        <4> QED
          BY <1>2, <3>3, <4>1, ChunkDataHushed
      <3>4. CASE s.state = "s_chunk_data_almost_done"
        <4>1. r = ChunkDataAlmostDone(s, w, ch)
          BY <1>0, <3>4 DEF Dispatch, UrlStates, UrlMayEnd
        <4> QED
          BY <1>2, <3>4, <4>1, ChunkDataAlmostDoneHushed
      <3>5. CASE s.state \in Plain
        <4>1. s.mark = "none"
          BY <2>0, <3>5
        <4>2. CASE s.state = "s_start_req"
          <5>1. r = StartReq(s, ch)
            BY <1>0, <4>2 DEF Dispatch, UrlStates, UrlMayEnd
          <5> QED
            BY <1>1, <4>1, <5>1, StartReqHushed
        <4>3. CASE s.state = "s_req_spaces_before_url"
          <5>1. r = BeforeUrl(s, ch)
            BY <1>0, <4>3 DEF Dispatch, UrlStates, UrlMayEnd
          <5> QED
            BY <1>1, <4>1, <5>1, BeforeUrlHushed
        <4>4. CASE s.state \in {"s_req_http_start", "s_req_http_minor", "s_req_line_almost_done"}
          <5>1. r = HttpVersion(s, ch)
            BY <1>0, <4>4 DEF Dispatch, UrlStates, UrlMayEnd
          <5> QED
            BY <1>1, <4>1, <4>4, <5>1, HttpVersionHushed
        <4>5. CASE s.state = "s_header_almost_done"
          <5>1. r = HeaderAlmostDone(s, ch)
            BY <1>0, <4>5 DEF Dispatch, UrlStates, UrlMayEnd
          <5> QED
            BY <1>1, <4>1, <5>1, HeaderAlmostDoneHushed
        <4>6. CASE s.state = "s_headers_almost_done"
          <5>1. r = HeadersAlmostDone(s, ch)
            BY <1>0, <4>6 DEF Dispatch, UrlStates, UrlMayEnd
          <5> QED
            BY <1>1, <4>1, <5>1, HeadersAlmostDoneHushed
        <4>7. CASE s.state = "s_chunk_size_start"
          <5>1. r = ChunkSizeStart(s, ch)
            BY <1>0, <4>7 DEF Dispatch, UrlStates, UrlMayEnd
          <5> QED
            BY <1>1, <4>1, <5>1, ChunkSizeStartHushed
        <4>8. CASE s.state = "s_chunk_size"
          <5>1. r = ChunkSize(s, ch)
            BY <1>0, <4>8 DEF Dispatch, UrlStates, UrlMayEnd
          <5> QED
            BY <1>1, <4>1, <5>1, ChunkSizeHushed
        <4>9. CASE s.state = "s_chunk_parameters"
          <5>1. r = IF ch = "CR" THEN To(s, "s_chunk_size_almost_done") ELSE s
            BY <1>0, <4>9 DEF Dispatch, UrlStates, UrlMayEnd
          <5> QED
            BY <1>1, <4>1, <5>1, ChunkParametersHushed
        <4>10. CASE s.state = "s_chunk_size_almost_done"
          <5>1. r = ChunkSizeAlmostDone(s, ch)
            BY <1>0, <4>10 DEF Dispatch, UrlStates, UrlMayEnd
          <5> QED
            BY <1>1, <4>1, <5>1, ChunkSizeAlmostDoneHushed
        <4>11. CASE s.state = "s_chunk_data_done"
          <5>1. r = ChunkDataDone(s, ch)
            BY <1>0, <4>11 DEF Dispatch, UrlStates, UrlMayEnd
          <5> QED
            BY <1>1, <4>1, <5>1, ChunkDataDoneHushed
        <4>12. CASE s.state \in {"s_dead", "s_message_done"}
          <5>1. r = IF ch \in EndOfLine THEN s ELSE SET_ERRNO(s, "CLOSED_CONNECTION")
            BY <1>0, <4>12 DEF Dispatch, UrlStates, UrlMayEnd
          <5> QED
            BY <1>1, <4>1, <5>1, DeadHushed
        <4> QED
          BY <1>9, <3>5, <4>2, <4>3, <4>4, <4>5, <4>6, <4>7, <4>8, <4>9, <4>10, <4>11,
             <4>12 DEF Plain
      <3> QED
        BY <1>1, <1>9, <3>1, <3>2, <3>3, <3>4, <3>5, StateFacts DEF Named, ReadsBody
    <2>2. PICK q \in Nat : q = r.pos + 1 /\ q >= s.pos
      BY <1>1, <1>3
    <2>3. Telling(w, r, q)
      BY <1>3, <1>9, <2>1, <2>2, HushedTelling
    <2> QED
      BY <1>0, <2>2, <2>3
  <1> QED
    BY <1>4, <1>5, <1>6, <1>7, <1>8, <1>9

\* A round of the loop.
LEMMA RoundTelling ==
  ASSUME NEW S, NEW n \in Nat, NEW w \in Seq(S), n = Len(w), NEW s, Inside(S, n, s), ~Halted(s),
         s.pos <= n, Telling(w, s, s.pos)
  PROVE  Telling(w, Round(s, w), Round(s, w).pos)
  <1>1. PICK c : c = Counted(s)
    OBVIOUS
  <1>2. /\ Typed(S, n, c) /\ Marked(c) /\ ~Halted(c) /\ s.out \in Seq(Events(S))
        /\ \A f \in Fields \ {"nread"} : c[f] = s[f]
    <2>1. /\ Typed(S, n, c) /\ Marked(c) /\ ~Halted(c)
          /\ \A f \in Fields \ {"nread"} : c[f] = s[f]
      BY <1>1, CountedFacts
    <2>2. s.out \in Seq(Events(S))
      BY DEF Inside, Typed
    <2> QED
      BY <2>1, <2>2
  <1>3. /\ c.state = s.state /\ c.mark = s.mark /\ c.pos = s.pos /\ c.from = s.from
        /\ c.resumed = s.resumed /\ c.out = s.out
    BY <1>2 DEF Fields
  <1>4. Telling(w, c, c.pos)
    <2>1. \A f \in Kept : Awaits(w, f, s, s.pos) => Awaits(w, f, c, s.pos)
      BY <1>3 DEF Awaits, Place
    <2>2. /\ s.mark # "none" => ~s.resumed
          /\ s.state = "s_header_field" => /\ s.from < s.pos
                                           /\ \A k \in s.from .. s.pos - 1 : w[k] \notin EndOfLine \cup {":"}
          /\ s.state = "s_header_value" => s.from < s.pos
      BY TellingFacts
    <2>3. Telling(w, c, s.pos)
      BY <1>2, <1>3, <2>1, <2>2, TellingKept
    <2> QED
      BY <1>3, <2>3
  <1>5. PICK ch : ch = w[s.pos]
    OBVIOUS
  <1>6. PICK d : d = IF c.nread > HTTP_MAX_HEADER_SIZE THEN SET_ERRNO(c, "HEADER_OVERFLOW")
                     ELSE Dispatch(c, w, ch)
    OBVIOUS
  <1>7. PICK r : r = Round(s, w)
    OBVIOUS
  <1>8. r = IF Halted(d) THEN d ELSE [d EXCEPT !.pos = @ + 1]
    BY <1>1, <1>5, <1>6, <1>7 DEF Round, Onward, Counted
  <1>9. CASE c.nread > HTTP_MAX_HEADER_SIZE
    <2>1. d = SET_ERRNO(c, "HEADER_OVERFLOW")
      BY <1>6, <1>9
    <2>2. d.errno = "HEADER_OVERFLOW" /\ d.out = c.out
      BY <1>2, <2>1 DEF Typed, IsParser, Fields, SET_ERRNO
    <2>3. Halted(d)
      BY <2>2 DEF Halted
    <2>4. Telling(w, d, d.pos)
      BY <1>2, <1>3, <1>4, <2>2, <2>3, TellingKept
    <2> QED
      BY <1>7, <1>8, <2>3, <2>4
  <1>10. CASE c.nread <= HTTP_MAX_HEADER_SIZE
    <2>1. Going(S, n, c)
      BY <1>2, <1>3, <1>10 DEF Going
    <2>2. d = Dispatch(c, w, ch)
      BY <1>2, <1>6, <1>10, HttpParserAssumption DEF Typed
    <2>3. Telling(w, d, d.pos + 1)
      BY <1>2, <1>3, <1>4, <1>5, <2>1, <2>2, DispatchTelling
    <2>4. Typed(S, n, d)
      BY <1>2, <2>1, <2>2, DispatchStep DEF Moved
    <2>5. CASE Halted(d)
      <3>1. PICK v : Wrapped(d.out, v) /\ Told(w, d, d.pos + 1, v)
        BY <2>3 DEF Telling
      <3>2. Told(w, d, d.pos, v)
        BY <2>5, <3>1 DEF Told
      <3> QED
        BY <1>7, <1>8, <2>5, <3>1, <3>2 DEF Telling
    <2>6. CASE ~Halted(d)
      <3>1. r = [d EXCEPT !.pos = @ + 1]
        BY <1>8, <2>6
      <3>2. /\ r.pos = d.pos + 1 /\ r.state = d.state /\ r.mark = d.mark /\ r.from = d.from
            /\ r.resumed = d.resumed /\ r.out = d.out /\ r.errno = d.errno /\ r.returned = d.returned
        BY <2>4, <3>1 DEF Typed, IsParser, Fields
      <3>3. PICK q : q = d.pos + 1
        OBVIOUS
      <3>4. PICK v : Wrapped(d.out, v) /\ Told(w, d, q, v)
        BY <2>3, <3>3 DEF Telling
      <3>5. \A f \in Kept : Awaits(w, f, d, q) => Awaits(w, f, r, q)
        BY <3>2 DEF Awaits, Place
      <3>6. v.read \in SUBSET Kept
        BY <2>4, <3>4, WrappedIs DEF IsWrapper, Typed
      <3>7. Halted(r) = Halted(d)
        BY <3>2 DEF Halted
      <3>8. Told(w, r, q, v)
        BY <2>6, <3>2, <3>4, <3>5, <3>6, <3>7 DEF Told
      <3> QED
        BY <1>7, <3>2, <3>3, <3>4, <3>8 DEF Telling
    <2> QED
      BY <2>5, <2>6
  <1> QED
    BY <1>2, <1>9, <1>10, HttpParserAssumption DEF Typed

\* All the loop.
LEMMA LoopTelling ==
  ASSUME NEW S, NEW w \in Seq(S), NEW n \in Nat, n = Len(w), NEW s, Inside(S, n, s),
         Telling(w, s, s.pos),
         NEW a, Loops(a, s, w)
  PROVE  Telling(w, a[n], a[n].pos)
  <1>0. \A k \in 0 .. n : Inside(S, n, a[k])
    BY LoopInside
  <1> DEFINE T == {k \in 0 .. n : Telling(w, a[k], a[k].pos)}
  <1>1. 0 \in T
    BY DEF Loops
  <1>2. ASSUME NEW k \in T, k < n
        PROVE  k + 1 \in T
    <2>1. k + 1 \in 1 .. n /\ k + 1 \in 0 .. n /\ (k + 1) - 1 = k /\ Telling(w, a[k], a[k].pos) /\ k \in 0 .. n
      BY <1>2
    <2>2. PICK x : x = a[k]
      OBVIOUS
    <2>3. a[k + 1] = Advance(x, w)
      BY <2>1, <2>2 DEF Loops
    <2>4. Inside(S, n, x)
      BY <1>0, <2>1, <2>2
    <2>5. Telling(w, x, x.pos)
      BY <2>1, <2>2
    <2>6. PICK y : y = Advance(x, w)
      OBVIOUS
    <2>7. Telling(w, y, y.pos)
      <3>1. CASE Halted(x) \/ x.pos > n
        BY <2>5, <2>6, <3>1 DEF Advance
      <3>2. CASE ~(Halted(x) \/ x.pos > n)
        <4>1. x.pos <= n /\ ~Halted(x)
          BY <2>4, <3>2 DEF Inside, Typed
        <4>2. y = Round(x, w)
          BY <2>6, <3>2 DEF Advance
        <4> QED
          BY <2>4, <2>5, <4>1, <4>2, RoundTelling
      <3> QED
        BY <3>1, <3>2
    <2> QED
      BY <2>1, <2>3, <2>6, <2>7
  <1>3. T = 0 .. n
    <2>1. T \in SUBSET (0 .. n)
      OBVIOUS
    <2> HIDE DEF T
    <2> QED
      BY <1>1, <1>2, <2>1, BoundedInduction
  <1>4. n \in T
    BY <1>3
  <1> QED
    BY <1>4

\* The wrapper of the callbacks of out has values that belong to their names.
Tells(w, out) ==
  \E v : Wrapped(out, v) /\ \A f \in Kept : v.value[f] # <<>> => ValueOf(w, f, v.value[f])

\* The end of the buffer.
LEMMA FlushedTells ==
  ASSUME NEW S, NEW w \in Seq(S), NEW n \in Nat, n = Len(w), NEW s, Inside(S, n, s),
         Telling(w, s, s.pos)
  PROVE  IsParser(Flushed(s, w)) /\ Flushed(s, w).out \in Seq(Events(S)) /\ Tells(w, Flushed(s, w).out)
  <1>1. PICK v : Wrapped(s.out, v) /\ Told(w, s, s.pos, v)
    BY DEF Telling
  <1>2. \A f \in Kept : v.value[f] # <<>> => ValueOf(w, f, v.value[f])
    BY <1>1 DEF Told
  <1>3. IsParser(s) /\ s.out \in Seq(Events(S)) /\ s.mark \in Marks \cup {"none"} /\ s.resumed \in BOOLEAN
        /\ s.from \in 1 .. n + 1 /\ s.pos \in 1 .. n + 1
    BY DEF Inside, Typed
  <1>4. PICK r : r = Flushed(s, w)
    OBVIOUS
  <1>5. CASE s.mark = "none" \/ Halted(s)
    <2>1. r = s
      BY <1>4, <1>5 DEF Flushed
    <2> QED
      BY <1>1, <1>2, <1>3, <1>4, <2>1 DEF Tells
  <1>6. CASE s.mark # "none" /\ ~Halted(s)
    <2>1. PICK kind \in Marks : kind = s.mark
      BY <1>3, <1>6
    <2>2. r = CALLBACK_DATA(s, w, kind, n)
      BY <1>4, <1>6, <2>1 DEF Flushed
    <2>3. /\ ~s.resumed /\ s.from \in Nat /\ 1 <= s.from /\ s.from <= n + 1 /\ Marked(s)
          /\ \A f \in v.read : Awaits(w, f, s, s.pos)
      BY <1>1, <1>3, <1>6 DEF Told, Inside
    <2>4. IsParser(r) /\ r.out \in Seq(Events(S))
      BY <1>3, <2>1, <2>2, <2>3, CloseFacts
    <2>5. CASE kind \in {"url", "body"}
      <3>1. Silent(S, s.out, r.out)
        BY <1>3, <2>1, <2>2, <2>3, <2>5, SilentClose
      <3>2. PICK x : Wrapped(r.out, x) /\ x.value = v.value
        BY <1>1, <3>1 DEF Silent
      <3> QED
        BY <1>2, <1>4, <2>4, <3>2 DEF Tells
    <2>6. CASE kind = "header_field"
      <3>1. PICK e : e = [kind |-> kind, bytes |-> SubSeq(w, s.from, n)]
        OBVIOUS
      <3>2. r.out = Append(s.out, e) /\ e \in Events(S) /\ e.kind = "header_field"
        <4>1. PICK kd \in {"header_field", "header_value"} : kd = kind
          BY <2>6
        <4>2. MayEnd(S, w, s, kd, n)
          BY <1>3, <2>1, <2>3, <4>1 DEF MayEnd
        <4>3. PICK d : d = CALLBACK_DATA(s, w, kd, n)
          OBVIOUS
        <4>4. PICK t : t = [kind |-> kd, bytes |-> SubSeq(w, s.from, n)]
          OBVIOUS
        <4>5. d.out = Append(s.out, t) /\ t \in Events(S)
          <5>1. Ended(S, w, s, kd, n, d, t)
            BY <4>2, <4>3, <4>4 DEF Ended
          <5> QED
            BY <5>1, TellEnded
        <4>6. r = d /\ e = t /\ t.kind = kd /\ kd = "header_field"
          BY <2>2, <2>6, <3>1, <4>1, <4>3, <4>4
        <4> QED
          BY <4>5, <4>6
      <3>3. PICK x : x = Callback(v, e)
        OBVIOUS
      <3>4. PICK T : T = Events(S)
        OBVIOUS
      <3>5. s.out \in Seq(T) /\ e \in T
        BY <1>3, <3>2, <3>4
      <3>6. Wrapped(r.out, x)
        BY <1>1, <3>2, <3>3, <3>5, WrappedAppend
      <3>7. IsWrapper(v)
        BY <1>1, <3>5, WrappedIs
      <3>8. x.value = v.value
        BY <3>2, <3>3, <3>7, CallbackFacts
      <3> QED
        BY <1>2, <1>4, <2>4, <3>6, <3>8 DEF Tells
    <2>7. CASE kind = "header_value"
      <3>1. s.state = "s_header_value"
        BY <2>1, <2>3, <2>7, StateFacts DEF Marked, Named
      <3>2. \A f \in v.read : Awaits(w, f, s, n + 1)
        <4>1. Place(s, s.pos) = Place(s, n + 1)
          BY <3>1 DEF Place
        <4> QED
          BY <2>3, <3>1, <4>1 DEF Awaits
      <3>3. r.out = CALLBACK_DATA(s, w, "header_value", n).out /\ s.mark = "header_value"
        BY <2>1, <2>2, <2>7
      <3>4. \E x : /\ Wrapped(r.out, x) /\ x.read = {}
                   /\ \A f \in Kept : x.value[f] # <<>> => ValueOf(w, f, x.value[f])
        <4>1. MayEnd(S, w, s, "header_value", n)
          BY <1>3, <2>3, <3>3 DEF MayEnd
        <4>2. EndsValue(S, w, s, v, n, r)
          BY <1>1, <1>2, <3>1, <3>2, <3>3, <4>1 DEF EndsValue
        <4> QED
          BY <4>2, ValueTold
      <3> QED
        BY <1>4, <2>4, <3>4 DEF Tells
    <2> QED
      BY <2>5, <2>6, <2>7 DEF Marks
  <1> QED
    BY <1>5, <1>6

\* What the wrapper has kept of a buffer.
LEMMA ParseTells ==
  ASSUME NEW S, NEW w \in Seq(S)
  PROVE  LET v == ParseHttpContent(w) IN \A f \in Kept : v.value[f] # <<>> => ValueOf(w, f, v.value[f])
  <1>1. PICK n \in Nat : n = Len(w)
    OBVIOUS
  <1>2. PICK p : p = http_parser_init
    OBVIOUS
  <1>3. Rests(S, p) /\ ~Halted(p)
    BY <1>2, InitRests
  <1>4. PICK a : Loops(a, Started(p), w) /\ http_parser_execute(p, w) = Finished(a[n], w)
    BY <1>1, <1>3, ExecuteUnfolds
  <1>5. PICK s : s = Started(p)
    OBVIOUS
  <1>6. /\ Inside(S, n, s) /\ ~Halted(s) /\ s.pos = 1 /\ s.mark = Resume(p)
        /\ \A f \in Fields \ {"pos", "mark", "from", "resumed"} : s[f] = p[f]
    BY <1>3, <1>5, StartedInside
  <1>7. s.state = "s_start_req" /\ s.out = <<>> /\ s.mark = "none"
    <2>1. p.state = "s_start_req" /\ p.out = <<>>
      BY <1>2 DEF http_parser_init
    <2> QED
      BY <1>2, <1>6, <2>1, InitResumes DEF Fields
  <1>8. Telling(w, s, s.pos)
    <2>1. PICK v : v = Cleared
      OBVIOUS
    <2>2. v.read = {} /\ \A f \in Kept : v.value[f] = <<>>
      BY <2>1 DEF Cleared
    <2>3. Told(w, s, s.pos, v)
      BY <1>7, <2>2 DEF Told
    <2> QED
      BY <1>7, <2>1, <2>3, WrappedNothing DEF Telling
  <1>9. PICK x : x = a[n]
    OBVIOUS
  <1>10. Telling(w, x, x.pos)
    BY <1>1, <1>4, <1>5, <1>6, <1>8, <1>9, LoopTelling
  <1>11. Inside(S, n, x)
    <2>1. n \in 0 .. n
      OBVIOUS
    <2> QED
      BY <1>1, <1>4, <1>5, <1>6, <1>9, <2>1, LoopInside
  <1>12. PICK e : e = Flushed(x, w)
    OBVIOUS
  <1>13. IsParser(e) /\ e.out \in Seq(Events(S)) /\ Tells(w, e.out)
    BY <1>1, <1>10, <1>11, <1>12, FlushedTells
  <1>14. PICK z : z = Finished(x, w)
    OBVIOUS
  <1>15. z.out = e.out
    <2>1. z = [e EXCEPT !.pos = 1, !.mark = "none", !.from = 1, !.resumed = FALSE]
      BY <1>12, <1>14 DEF Finished
    <2> QED
      BY <1>13, <2>1 DEF IsParser, Fields
  <1>16. PICK v : Wrapped(z.out, v) /\ \A f \in Kept : v.value[f] # <<>> => ValueOf(w, f, v.value[f])
    BY <1>13, <1>15 DEF Tells
  <1>17. PICK o : o = z.out
    OBVIOUS
  <1>18. o = http_parser_execute(http_parser_init, w).out
    BY <1>2, <1>4, <1>9, <1>14, <1>17
  <1>19. PICK T : T = Events(S)
    OBVIOUS
  <1>20. o \in Seq(T)
    BY <1>13, <1>15, <1>17, <1>19
  <1>21. ParseHttpContent(w) = v
    BY <1>16, <1>17, <1>18, <1>20, WrappedParse
  <1> QED
    BY <1>16, <1>21

\* A part of the buffer is a prefix of what the buffer has from there on.
LEMMA PartIsPrefix ==
  ASSUME NEW S, NEW w \in Seq(S), NEW j \in Nat, NEW e \in Nat, 1 <= j, j <= e, e <= Len(w)
  PROVE  IsPrefix(SubSeq(w, j, e), SubSeq(w, j, Len(w)))
  <1>1. PICK n \in Nat : n = Len(w)
    OBVIOUS
  <1>2. PICK s : s = SubSeq(w, j, e)
    OBVIOUS
  <1>3. PICK t : t = SubSeq(w, j, n)
    OBVIOUS
  <1>4. PICK m \in Nat : m = e - j + 1
    OBVIOUS
  <1>5. s \in Seq(S) /\ Len(s) = m /\ \A k \in 1 .. m : s[k] = w[j + k - 1]
    BY <1>2, <1>4, PartFacts
  <1>6. t \in Seq(S) /\ Len(t) = n - j + 1 /\ \A k \in 1 .. n - j + 1 : t[k] = w[j + k - 1]
    <2>1. j <= n + 1 /\ n <= Len(w)
      BY <1>1
    <2> QED
      BY <1>3, <2>1, PartFacts
  <1>7. m <= n - j + 1
    BY <1>1, <1>4
  <1>8. \A k \in 1 .. m : t[k] = s[k]
    BY <1>5, <1>6, <1>7
  <1>9. SubSeq(s, 1, m) = SubSeq(t, 1, m)
    BY <1>5, <1>6, <1>7, <1>8
  <1> QED
    BY <1>1, <1>2, <1>3, <1>5, <1>6, <1>7, <1>9 DEF IsPrefix

\* What the wrapper makes of the bytes that have come.
LEMMA RestingBelongs ==
  ASSUME Resting
  PROVE  FieldsBelongToTheirNames
  <1>1. PICK S : S = Range(stream.bytes)
    OBVIOUS
  <1>2. PICK w : w = Buffer
    OBVIOUS
  <1>3. w \in Seq(S) /\ Len(w) = got /\ got \in Nat
    <2>1. got \in Nat /\ stream.bytes \in Seq(S) /\ got <= Len(stream.bytes)
      BY <1>1, HttpParserAssumption DEF Resting
    <2>2. 1 <= got + 1 /\ got - 1 + 1 = got /\ 1 \in Nat
      BY <2>1
    <2>3. PICK b \in Seq(S) : b = stream.bytes
      BY <2>1
    <2>4. SubSeq(b, 1, got) \in Seq(S) /\ Len(SubSeq(b, 1, got)) = got - 1 + 1
      BY <2>1, <2>2, <2>3, PartFacts
    <2> QED
      BY <1>2, <2>1, <2>2, <2>3, <2>4 DEF Buffer
  <1>4. PICK v : v = ParseHttpContent(Buffer)
    OBVIOUS
  <1>5. \A f \in Kept : v.value[f] # <<>> => ValueOf(w, f, v.value[f])
    BY <1>2, <1>3, <1>4, ParseTells
  <1>6. ASSUME NEW f \in Kept, NEW t, ValueOf(w, f, t)
        PROVE  BelongsTo(f, t)
    <2>1. PICK i, c, j, e \in 1 .. got :
            /\ Announces(w, f, i, c) /\ c < j /\ j <= e /\ t = SubSeq(w, j, e)
            /\ w[c] \in EndOfLine \/ (w[c] = ":" /\ Blanks(w, c + 1, j - 1))
      BY <1>3, <1>6 DEF ValueOf
    <2>2. i < c /\ w[i] = f /\ \A k \in i .. c - 1 : w[k] \notin EndOfLine \cup {":"}
      BY <2>1 DEF Announces
    <2>3. j \in c + 1 .. got /\ j \in Nat /\ e \in Nat /\ 1 <= j /\ e <= Len(w)
      BY <1>3, <2>1
    <2>4. IsPrefix(t, SubSeq(w, j, got))
      BY <1>3, <2>1, <2>3, PartIsPrefix
    <2>5. w[c] \in EndOfLine \/ (w[c] = ":" /\ \A k \in c + 1 .. j - 1 : w[k] = " ")
      BY <2>1 DEF Blanks
    <2> HIDE DEF Blanks
    <2> QED
      BY <1>2, <2>1, <2>2, <2>3, <2>4, <2>5 DEF BelongsTo
  <1> QED
    BY <1>4, <1>5, <1>6 DEF FieldsBelongToTheirNames

\* FieldsBelongToTheirNames, http_parser_wrapper.cc:84 and its like: of whatever
\* bytes have come, and wherever they end, a header the wrapper has kept is what
\* follows a name that begins like its own, and never what follows another one,
\* unless that name had no colon and still waited for a value.
THEOREM ParserFieldsBelong == Spec => []FieldsBelongToTheirNames
  <1>1. Init => Resting
    BY InitResting
  <1>2. Resting /\ [Next]_vars => Resting'
    BY RestingStep
  <1>3. Resting => FieldsBelongToTheirNames
    BY RestingBelongs
  <1> QED
    BY <1>1, <1>2, <1>3, PTL DEF Spec
=============================================================================
