----------------------------- MODULE HttpParser -----------------------------
(***************************************************************************)
(* http_parser for requests, and the wrapper that calls it.                *)
(*                                                                         *)
(* http_parser_execute reads one buffer and may be called again with the   *)
(* next: what it knows is in the parser, but the marks, which say where in *)
(* the buffer an URL, a name or a value begins, are locals of one call.    *)
(* The specification feeds a stream to one parser, cut up in every way;    *)
(* ParseHttpContent, which is what the server does, reads the whole buffer *)
(* with a new parser every time.                                           *)
(*                                                                         *)
(* A byte of the model is what moves the parser from state to state: a     *)
(* method with its blank, a version, a header name, a value that matters,  *)
(* or a character.  Any of them can also be a byte of a body, and stands   *)
(* for its letters in an URL or a name.  Matching a word letter by letter  *)
(* is abstracted; a method, whose blank would end them, is an error there; *)
(* the responses are left out.                                             *)
(***************************************************************************)
EXTENDS Integers, SequencesExt, Framing

CONSTANTS
  Streams,    \* what a client may send: [bytes, tokens]
  HTTP_MAX_HEADER_SIZE,
  Width       \* 2^64: content_length is a uint64_t

ASSUME HttpParserAssumption ==
  /\ \A st \in Streams : st.bytes \in Seq(Range(st.bytes))
  /\ HTTP_MAX_HEADER_SIZE \in Nat
  /\ Width \in Nat /\ Width > 16

ULLONG_MAX == Width - 1

Methods   == {"POST", "CONNECT"}
Versions  == [v \in {"1.1", "1.0"} |-> <<1, IF v = "1.1" THEN 1 ELSE 0>>]
Digits    == {"0", "1", "2", "3", "9"}
HexDigits == Digits \cup {"A", "a"}
Value     == [d \in HexDigits |-> CASE d = "0" -> 0 [] d = "1" -> 1 [] d = "2" -> 2
                                    [] d = "3" -> 3 [] d = "9" -> 9 [] d \in {"A", "a"} -> 10]
EndOfLine == {"CR", "LF"}

\* Header names, and the state in which they leave the parser.
HeaderNames == {"connection", "content-length", "transfer-encoding", "upgrade", "host", "referer", "a"}
HeaderState(name) ==
  CASE name = "connection"        -> "h_connection"
    [] name = "content-length"    -> "h_content_length"
    [] name = "transfer-encoding" -> "h_transfer_encoding"
    [] name = "upgrade"           -> "h_upgrade"
    [] OTHER                      -> "h_general"

\* What a header name is made of: TOKEN; and a schema: IS_ALPHA.
TokenBytes == HeaderNames \cup HexDigits \cup {"keep-alive", "close", "chunked", "v"}
Letters    == {"connection", "upgrade", "host", "referer", "a", "A", "close", "chunked", "v"}

\* What the first byte of a value makes of it.
ValueState(hs, ch) ==
  CASE hs = "h_connection" /\ ch = "keep-alive"     -> "h_connection_keep_alive"
    [] hs = "h_connection" /\ ch = "close"          -> "h_connection_close"
    [] hs = "h_transfer_encoding" /\ ch = "chunked" -> "h_transfer_encoding_chunked"
    [] OTHER -> "h_general"

\* What the end of the line makes of that.
HeaderFlags(hs) ==
  CASE hs = "h_connection_keep_alive"     -> {"F_CONNECTION_KEEP_ALIVE"}
    [] hs = "h_connection_close"          -> {"F_CONNECTION_CLOSE"}
    [] hs = "h_transfer_encoding_chunked" -> {"F_CHUNKED"}
    [] OTHER -> {}

\* What an URL is made of: IS_URL_CHAR.
UrlChars == TokenBytes \cup DOMAIN Versions \cup {"/", ":", "@", ";"}
InServer == {"s_req_server_start", "s_req_server", "s_req_server_with_at"}
InQuery  == {"s_req_query_string_start", "s_req_query_string"}
parse_url_char(s, ch) ==
  CASE s = "s_req_spaces_before_url" /\ ch = "/"         -> "s_req_path"
    [] s = "s_req_spaces_before_url" /\ ch \in Letters   -> "s_req_schema"
    [] s = "s_req_schema" /\ ch \in Letters              -> s
    [] s = "s_req_schema" /\ ch = ":"                    -> "s_req_schema_slash"
    [] s = "s_req_schema_slash" /\ ch = "/"              -> "s_req_schema_slash_slash"
    [] s = "s_req_schema_slash_slash" /\ ch = "/"        -> "s_req_server_start"
    [] s \in InServer /\ ch \in {"/"} \cup DOMAIN Versions -> "s_req_path"
    [] s \in InServer /\ ch = "?"                        -> "s_req_query_string_start"
    [] s \in InServer \ {"s_req_server_with_at"} /\ ch = "@" -> "s_req_server_with_at"
    [] s \in InServer /\ ch \in TokenBytes \cup {":", ";"} -> "s_req_server"
    [] s = "s_req_path" /\ ch \in UrlChars               -> s
    [] s = "s_req_path" /\ ch = "?"                      -> "s_req_query_string_start"
    [] s \in InQuery /\ ch \in UrlChars \cup {"?"}       -> "s_req_query_string"
    [] s \in InQuery \cup {"s_req_path"} /\ ch = "#"     -> "s_req_fragment_start"
    [] s = "s_req_fragment_start" /\ ch = "#"            -> s
    [] s = "s_req_fragment_start" /\ ch \in UrlChars \cup {"?"} -> "s_req_fragment"
    [] s = "s_req_fragment" /\ ch \in UrlChars \cup {"?", "#"} -> s
    [] OTHER -> "s_dead"

\* URL states in which the line may end; the others insist on more.
UrlMayEnd == {"s_req_server", "s_req_server_with_at", "s_req_path", "s_req_query_string_start",
              "s_req_query_string", "s_req_fragment_start", "s_req_fragment"}
UrlStates == UrlMayEnd \cup {"s_req_schema", "s_req_schema_slash", "s_req_schema_slash_slash",
                            "s_req_server_start"}

\* States after the headers: PARSING_HEADER is false there.
BodyStates == {"s_chunk_data", "s_chunk_data_almost_done", "s_chunk_data_done",
               "s_body_identity", "s_message_done"}

States ==
  UrlStates \cup BodyStates \cup
    {"s_dead", "s_start_req", "s_req_spaces_before_url", "s_req_http_start", "s_req_http_minor",
     "s_req_line_almost_done", "s_header_field_start", "s_header_field", "s_header_value_start",
     "s_header_value", "s_header_value_lws", "s_header_almost_done", "s_headers_almost_done",
     "s_chunk_size_start", "s_chunk_size", "s_chunk_parameters", "s_chunk_size_almost_done"}

-----------------------------------------------------------------------------
(***************************************************************************)
(* A parser s: the struct http_parser; the locals of http_parser_execute   *)
(* (pos, mark, from: the byte it is at, what has been marked and where;    *)
(* resumed: the mark continues one of the call before); out, the callbacks *)
(* it has made; and returned, that an upgrade was met: the rest of the     *)
(* connection belongs to another protocol, and the caller does not go on.  *)
(***************************************************************************)
http_parser_init ==
  [state |-> "s_start_req", header_state |-> "h_general", flags |-> {},
   content_length |-> 0, nread |-> 0, http |-> <<0, 0>>, method |-> "none",
   upgrade |-> FALSE, errno |-> "OK", returned |-> FALSE,
   pos |-> 1, mark |-> "none", from |-> 1, resumed |-> FALSE, out |-> <<>>]

To(s, state)     == [s EXCEPT !.state = state]
SET_ERRNO(s, e)  == [s EXCEPT !.errno = e]
Notify(s, kind)  == [s EXCEPT !.out = Append(@, [kind |-> kind, bytes |-> <<>>])]

MARK(s, kind) ==
  IF s.mark = "none" THEN [s EXCEPT !.mark = kind, !.from = s.pos, !.resumed = FALSE] ELSE s

\* What the callbacks have been given, and a piece of data more: those of one
\* URL, name, value or body are kept as one.
Delivered(out, kind, bytes, continues) ==
  IF continues /\ out # <<>> /\ out[Len(out)].kind = kind
  THEN [out EXCEPT ![Len(out)].bytes = @ \o bytes]
  ELSE Append(out, [kind |-> kind, bytes |-> bytes])

\* What has been marked, up to position end of the buffer, goes to its callback.
CALLBACK_DATA(s, data, kind, end) ==
  IF s.mark # kind THEN s
  ELSE [s EXCEPT !.mark = "none", !.resumed = FALSE,
                 !.out = Delivered(@, kind, SubSeq(data, s.from, end), s.resumed \/ kind = "body")]

http_should_keep_alive(s) ==
  IF s.http[1] > 0 /\ s.http[2] > 0
  THEN "F_CONNECTION_CLOSE" \notin s.flags
  ELSE "F_CONNECTION_KEEP_ALIVE" \in s.flags

NEW_MESSAGE(s) == IF http_should_keep_alive(s) THEN "s_start_req" ELSE "s_dead"

MessageComplete(s) == Notify(To(s, NEW_MESSAGE(s)), "message_complete")

\* A digit more of a number, in base 10 or 16; e when it has become too large.
Grow(s, base, digit, e) ==
  LET t == (s.content_length * base + digit) % Width
  IN  IF t < s.content_length \/ t = ULLONG_MAX
      THEN SET_ERRNO(s, e) ELSE [s EXCEPT !.content_length = t]

-----------------------------------------------------------------------------
(***************************************************************************)
(* The request line.                                                       *)
(***************************************************************************)
StartReq(s, ch) ==
  LET fresh == [s EXCEPT !.flags = {}, !.content_length = ULLONG_MAX, !.method = ch]
  IN  IF ch \in EndOfLine THEN s
      ELSE IF ch \in Methods THEN To(fresh, "s_req_spaces_before_url")
      ELSE SET_ERRNO(s, "INVALID_METHOD")

UrlChar(s, ch) ==
  LET r == To(s, parse_url_char(s.state, ch))
  IN  IF r.state = "s_dead" THEN SET_ERRNO(r, "INVALID_URL") ELSE r

BeforeUrl(s, ch) ==
  IF ch = " " THEN s
  ELSE UrlChar(To(MARK(s, "url"),
                  IF s.method = "CONNECT" THEN "s_req_server_start" ELSE s.state), ch)

InUrl(s, data, ch) ==
  LET ended == CALLBACK_DATA(s, data, "url", s.pos - 1)
  IN  CASE s.state \in UrlMayEnd /\ ch = " " -> To(ended, "s_req_http_start")
        [] s.state \in UrlMayEnd /\ ch \in EndOfLine ->
             [ended EXCEPT !.http = <<0, 9>>,
                           !.state = IF ch = "CR" THEN "s_req_line_almost_done"
                                     ELSE "s_header_field_start"]
        [] OTHER -> UrlChar(s, ch)

\* A version with a digit more.
Longer(http, digit) == <<http[1], http[2] * 10 + Value[digit]>>

HttpVersion(s, ch) ==
  CASE s.state = "s_req_http_start" /\ ch = " " -> s
    [] s.state = "s_req_http_start" /\ ch \in DOMAIN Versions ->
         [s EXCEPT !.http = Versions[ch], !.state = "s_req_http_minor"]
    [] s.state = "s_req_http_minor" /\ ch \in Digits /\ Longer(s.http, ch)[2] <= 999 ->
         [s EXCEPT !.http = Longer(s.http, ch)]
    [] s.state = "s_req_http_minor" /\ ch = "CR" -> To(s, "s_req_line_almost_done")
    [] s.state = "s_req_http_minor" /\ ch = "LF" -> To(s, "s_header_field_start")
    [] s.state = "s_req_line_almost_done" /\ ch = "LF" -> To(s, "s_header_field_start")
    [] OTHER -> SET_ERRNO(s, [s_req_http_start |-> "INVALID_CONSTANT",
                              s_req_http_minor |-> "INVALID_VERSION",
                              s_req_line_almost_done |-> "LF_EXPECTED"][s.state])

(***************************************************************************)
(* The headers.  A state that looks at its byte again uses the operator of *)
(* the next one.                                                           *)
(***************************************************************************)
\* Mutant of HeadersDone: a Content-Length comes before the chunks.
HeadersDoneByLength(s, ch) ==
  LET r == [s EXCEPT !.nread = 0]
  IN  IF ch # "LF" THEN SET_ERRNO(s, "STRICT")
      ELSE IF s.upgrade THEN [MessageComplete(r) EXCEPT !.returned = TRUE]
      ELSE IF s.content_length \notin {0, ULLONG_MAX} THEN To(r, "s_body_identity")
      ELSE IF "F_CHUNKED" \in s.flags THEN To(r, "s_chunk_size_start")
      ELSE MessageComplete(r)

HeadersDone(s, ch) ==
  LET r == [s EXCEPT !.nread = 0]
  IN  IF ch # "LF" THEN SET_ERRNO(s, "STRICT")
      ELSE IF s.upgrade THEN [MessageComplete(r) EXCEPT !.returned = TRUE]
      ELSE IF "F_CHUNKED" \in s.flags THEN To(r, "s_chunk_size_start")
      ELSE IF s.content_length \in {0, ULLONG_MAX} THEN MessageComplete(r)
      ELSE To(r, "s_body_identity")

HeadersAlmostDone(s, ch) ==
  IF ch # "LF" THEN SET_ERRNO(s, "STRICT")
  ELSE IF "F_TRAILING" \in s.flags THEN MessageComplete(s)
  ELSE HeadersDone([Notify(s, "headers_complete") EXCEPT
                      !.upgrade = "F_UPGRADE" \in s.flags \/ s.method = "CONNECT"], ch)

HeaderFieldStart(s, ch) ==
  CASE ch = "CR" -> To(s, "s_headers_almost_done")
    [] ch = "LF" -> HeadersAlmostDone(s, ch)
    [] ch \in TokenBytes ->
         [MARK(s, "header_field") EXCEPT !.state = "s_header_field",
                                         !.header_state = HeaderState(ch)]
    [] OTHER -> SET_ERRNO(s, "INVALID_HEADER_TOKEN")

HeaderField(s, data, ch) ==
  LET ended == CALLBACK_DATA(s, data, "header_field", s.pos - 1)
  IN  CASE ch \in TokenBytes -> [s EXCEPT !.header_state = "h_general"]
        [] ch = ":"  -> To(ended, "s_header_value_start")
        [] ch = "CR" -> To(ended, "s_header_almost_done")
        [] ch = "LF" -> To(ended, "s_header_field_start")
        [] OTHER -> SET_ERRNO(s, "INVALID_HEADER_TOKEN")

HeaderValueStart(s, data, ch) ==
  LET m    == To(MARK(s, "header_value"), "s_header_value")
      none == CALLBACK_DATA(m, data, "header_value", s.pos - 1)
      hs   == s.header_state
  IN  CASE ch = " "  -> s
        [] ch = "CR" -> [none EXCEPT !.header_state = "h_general", !.state = "s_header_almost_done"]
        [] ch = "LF" -> To(none, "s_header_field_start")
        [] OTHER ->
             IF hs = "h_content_length"
             THEN IF ch \in Digits THEN [m EXCEPT !.content_length = Value[ch]]
                  ELSE SET_ERRNO(m, "INVALID_CONTENT_LENGTH")
             ELSE [m EXCEPT !.header_state = ValueState(hs, ch),
                            !.flags = IF hs = "h_upgrade" THEN @ \cup {"F_UPGRADE"} ELSE @]

HeaderAlmostDone(s, ch) ==
  IF ch # "LF" THEN SET_ERRNO(s, "STRICT")
  ELSE [s EXCEPT !.state = "s_header_value_lws", !.flags = @ \cup HeaderFlags(s.header_state)]

HeaderValue(s, data, ch) ==
  LET ended == To(CALLBACK_DATA(s, data, "header_value", s.pos - 1), "s_header_almost_done")
  IN  CASE ch = "CR" -> ended
        [] ch = "LF" -> HeaderAlmostDone(ended, ch)
        [] ch = " "  -> s
        [] OTHER ->
             IF s.header_state # "h_content_length" THEN [s EXCEPT !.header_state = "h_general"]
             ELSE IF ch \in Digits THEN Grow(s, 10, Value[ch], "INVALID_CONTENT_LENGTH")
             ELSE SET_ERRNO(s, "INVALID_CONTENT_LENGTH")

\* A line that begins with a blank continues the value before it.
HeaderValueLws(s, ch) ==
  IF ch = " " THEN To(s, "s_header_value_start")
  ELSE HeaderFieldStart(To(s, "s_header_field_start"), ch)

(***************************************************************************)
(* The body: as much of it as the buffer has is taken at once.             *)
(***************************************************************************)
ReadBody(s, data) ==
  LET to_read == Min({s.content_length, Len(data) - s.pos + 1})
  IN  [MARK(s, "body") EXCEPT !.content_length = @ - to_read, !.pos = @ + to_read - 1]

BodyIdentity(s, data) ==
  LET r == ReadBody(s, data)
  IN  IF r.content_length = 0
      THEN MessageComplete(CALLBACK_DATA(r, data, "body", r.pos)) ELSE r

ChunkSizeStart(s, ch) ==
  IF ch \in HexDigits
  THEN [s EXCEPT !.content_length = Value[ch], !.state = "s_chunk_size"]
  ELSE SET_ERRNO(s, "INVALID_CHUNK_SIZE")

ChunkSize(s, ch) ==
  CASE ch = "CR" -> To(s, "s_chunk_size_almost_done")
    [] ch \in HexDigits -> Grow(s, 16, Value[ch], "INVALID_CONTENT_LENGTH")
    [] ch \in {" ", ";"} -> To(s, "s_chunk_parameters")
    [] OTHER -> SET_ERRNO(s, "INVALID_CHUNK_SIZE")

ChunkSizeAlmostDone(s, ch) ==
  LET r == [s EXCEPT !.nread = 0]
  IN  IF ch # "LF" THEN SET_ERRNO(s, "STRICT")
      ELSE IF s.content_length = 0
      THEN [r EXCEPT !.flags = @ \cup {"F_TRAILING"}, !.state = "s_header_field_start"]
      ELSE To(r, "s_chunk_data")

ChunkData(s, data) ==
  LET r == ReadBody(s, data)
  IN  IF r.content_length = 0 THEN To(r, "s_chunk_data_almost_done") ELSE r

ChunkDataAlmostDone(s, data, ch) ==
  IF ch # "CR" THEN SET_ERRNO(s, "STRICT")
  ELSE CALLBACK_DATA(To(s, "s_chunk_data_done"), data, "body", s.pos - 1)

ChunkDataDone(s, ch) ==
  IF ch # "LF" THEN SET_ERRNO(s, "STRICT")
  ELSE [s EXCEPT !.nread = 0, !.state = "s_chunk_size_start"]

-----------------------------------------------------------------------------
Dispatch(s, data, ch) ==
  CASE s.state = "s_start_req"              -> StartReq(s, ch)
    [] s.state = "s_req_spaces_before_url"  -> BeforeUrl(s, ch)
    [] s.state \in UrlStates                -> InUrl(s, data, ch)
    [] s.state \in {"s_req_http_start", "s_req_http_minor", "s_req_line_almost_done"}
                                            -> HttpVersion(s, ch)
    [] s.state = "s_header_field_start"     -> HeaderFieldStart(s, ch)
    [] s.state = "s_header_field"           -> HeaderField(s, data, ch)
    [] s.state = "s_header_value_start"     -> HeaderValueStart(s, data, ch)
    [] s.state = "s_header_value"           -> HeaderValue(s, data, ch)
    [] s.state = "s_header_value_lws"       -> HeaderValueLws(s, ch)
    [] s.state = "s_header_almost_done"     -> HeaderAlmostDone(s, ch)
    [] s.state = "s_headers_almost_done"    -> HeadersAlmostDone(s, ch)
    [] s.state = "s_body_identity"          -> BodyIdentity(s, data)
    [] s.state = "s_chunk_size_start"       -> ChunkSizeStart(s, ch)
    [] s.state = "s_chunk_size"             -> ChunkSize(s, ch)
    [] s.state = "s_chunk_parameters"       -> IF ch = "CR" THEN To(s, "s_chunk_size_almost_done") ELSE s
    [] s.state = "s_chunk_size_almost_done" -> ChunkSizeAlmostDone(s, ch)
    [] s.state = "s_chunk_data"             -> ChunkData(s, data)
    [] s.state = "s_chunk_data_almost_done" -> ChunkDataAlmostDone(s, data, ch)
    [] s.state = "s_chunk_data_done"        -> ChunkDataDone(s, ch)
    [] OTHER -> IF ch \in EndOfLine THEN s ELSE SET_ERRNO(s, "CLOSED_CONNECTION")

Halted(s) == s.errno # "OK" \/ s.returned

Onward(r) == IF Halted(r) THEN r ELSE [r EXCEPT !.pos = @ + 1]

\* Mutant of Round: the bytes of a header are not counted.
RoundUnlimited(s, data) ==
  LET n == IF s.state \in BodyStates THEN s ELSE [s EXCEPT !.nread = @ + 1]
  IN  Onward(Dispatch(n, data, data[s.pos]))

\* One round of the loop of http_parser_execute.
Round(s, data) ==
  LET n == IF s.state \in BodyStates THEN s ELSE [s EXCEPT !.nread = @ + 1]
  IN  Onward(IF n.nread > HTTP_MAX_HEADER_SIZE THEN SET_ERRNO(n, "HEADER_OVERFLOW")
             ELSE Dispatch(n, data, data[s.pos]))

\* Mutant of Resume: an URL that is not at an end yet is forgotten.
ResumeAtPath(s) ==
  CASE s.state = "s_header_field" -> "header_field"
    [] s.state = "s_header_value" -> "header_value"
    [] s.state = "s_req_path"     -> "url"
    [] OTHER -> "none"

\* What continues a mark of the call before.
Resume(s) ==
  CASE s.state = "s_header_field" -> "header_field"
    [] s.state = "s_header_value" -> "header_value"
    [] s.state \in UrlStates      -> "url"
    [] OTHER -> "none"

\* At the end of the buffer, what is marked goes to its callback.
http_parser_execute(s, data) ==
  LET start == [s EXCEPT !.pos = 1, !.mark = Resume(s), !.from = 1, !.resumed = TRUE]
      after[n \in 0 .. Len(data)] ==
        IF n = 0 THEN start
        ELSE LET prev == after[n - 1]
             IN  IF Halted(prev) \/ prev.pos > Len(data) THEN prev ELSE Round(prev, data)
      end == after[Len(data)]
      all == IF end.mark = "none" \/ Halted(end) THEN end
             ELSE CALLBACK_DATA(end, data, end.mark, Len(data))
  IN  IF Halted(s) THEN s ELSE [all EXCEPT !.pos = 1, !.mark = "none", !.from = 1, !.resumed = FALSE]

-----------------------------------------------------------------------------
(***************************************************************************)
(* CHttpParserWrapper.  Of the six headers it keeps, two stand for all.    *)
(***************************************************************************)
Kept == {"host", "content-length"}

Cleared ==
  [read_all |-> FALSE, url |-> <<>>, body |-> <<>>, read |-> {}, value |-> [f \in Kept |-> <<>>]]

\* A field has been read when its text is not empty; Content-Length, when atoi,
\* which stops at what is no digit, does not make 0 of it.
HasRead(w, f) ==
  IF f = "content-length"
  THEN \E i \in DOMAIN w.value[f] :
         w.value[f][i] # "0" /\ \A j \in 1 .. i : w.value[f][j] \in Digits
  ELSE w.value[f] # <<>>

\* A name that begins like a field's announces the field.
OnHeaderField(w, name) ==
  [w EXCEPT !.read = @ \cup {f \in Kept : ~HasRead(w, f) /\ name # <<>> /\ name[1] = f}]

\* Mutant of OnHeaderValue: the flag is left set.
OnHeaderValueAgain(w, text) ==
  [w EXCEPT !.value = [f \in Kept |-> IF f \in w.read THEN text ELSE @[f]]]

OnHeaderValue(w, text) ==
  [w EXCEPT !.value = [f \in Kept |-> IF f \in w.read THEN text ELSE @[f]], !.read = {}]

Callback(w, e) ==
  CASE e.kind = "url"              -> [w EXCEPT !.url = @ \o e.bytes]
    [] e.kind = "header_field"     -> OnHeaderField(w, e.bytes)
    [] e.kind = "header_value"     -> OnHeaderValue(w, e.bytes)
    [] e.kind = "body"             -> [w EXCEPT !.body = @ \o e.bytes]
    [] e.kind = "message_complete" -> [w EXCEPT !.read_all = TRUE]
    [] OTHER -> w

\* The wrapper that has had the callbacks of out.
CallbacksOf(out) ==
  LET after[n \in 0 .. Len(out)] == IF n = 0 THEN Cleared ELSE Callback(after[n - 1], out[n])
  IN  after[Len(out)]

ParseHttpContent(data) == CallbacksOf(http_parser_execute(http_parser_init, data).out)

-----------------------------------------------------------------------------
VARIABLES
  stream,     \* what the client sends
  got,        \* how many of its bytes have come
  parser      \* a parser that has been given each segment once

vars == <<stream, got, parser>>

Init == stream \in Streams /\ got = 0 /\ parser = http_parser_init

\* A segment of n bytes.
Feed(n) ==
  /\ got + n <= Len(stream.bytes) /\ ~Halted(parser)
  /\ parser' = http_parser_execute(parser, SubSeq(stream.bytes, got + 1, got + n))
  /\ got' = got + n
  /\ UNCHANGED stream

Next == \E n \in 1 .. Len(stream.bytes) : Feed(n)

Spec == Init /\ [][Next]_vars

-----------------------------------------------------------------------------
Buffer == SubSeq(stream.bytes, 1, got)

TypeOK ==
  /\ stream \in Streams /\ got \in 0 .. Len(stream.bytes)
  /\ parser.content_length \in 0 .. ULLONG_MAX
  /\ parser.nread \in 0 .. HTTP_MAX_HEADER_SIZE + 1
  /\ parser.state \in States

\* http_parser.h:71, data may come in pieces: wherever the segments are cut,
\* a parser that goes on with the next one ends where a parser of the whole
\* buffer does, and has told its caller the same.
SameHoweverCut ==
  LET whole == http_parser_execute(http_parser_init, Buffer)
  IN  /\ parser.errno = whole.errno
      /\ parser.errno = "OK" => parser = whole

\* The tokens whose last byte has come.
Tokens == SelectSeq(stream.tokens, LAMBDA k : k.at <= got)

Text(urls) == FlattenSeq([i \in DOMAIN urls |-> urls[i].text])

\* What the handlers see is what Framing says: a request is complete with its
\* last byte and not earlier, its URL and its body are all of it and nothing else.
ImplementsFraming ==
  LET w == ParseHttpContent(Buffer)
      f == ParseTokens(Tokens)
  IN  stream.tokens # <<>> =>
        /\ w.read_all = f.read_all
        /\ w.body = [i \in DOMAIN f.body |-> f.body[i].text]
        /\ IsPrefix(Text(f.url), w.url)
        /\ f.phase # "url" => w.url = Text(f.url)

\* A header that is kept is, as far as it has come, what follows a name that
\* begins like its own, and never what follows another one; but a name on a line
\* without a colon is still waiting for a value when another line has one.
BelongsTo(f, text) ==
  \E i, c \in 1 .. got :
    /\ i < c /\ Buffer[i] = f
    /\ \A k \in i .. c - 1 : Buffer[k] \notin EndOfLine \cup {":"}
    /\ \E j \in c + 1 .. got :
         /\ IsPrefix(text, SubSeq(Buffer, j, got))
         /\ \/ Buffer[c] \in EndOfLine
            \/ Buffer[c] = ":" /\ \A k \in c + 1 .. j - 1 : Buffer[k] = " "

FieldsBelongToTheirNames ==
  LET Belong(value) == \A f \in Kept : value[f] # <<>> => BelongsTo(f, value[f])
  IN  Belong(ParseHttpContent(Buffer).value)

\* http_parser.cc:1677 asks "Overflow?" of each digit more: a body has the
\* length its header states, or the header is an error.
LengthIsStated ==
  parser.state = "s_body_identity" =>
    parser.content_length + Len(ParseHttpContent(Buffer).body) = stream.length
=============================================================================
