---------------------------- MODULE MCHttpParser ----------------------------
(***************************************************************************)
(* Instances of HttpParser for TLC: streams, with the tokens of Framing    *)
(* they are made of and the position of the last byte of each.             *)
(***************************************************************************)
EXTENDS HttpParser

EOL     == <<"CR", "LF">>
Http11  == <<" ", "1.1", "CR", "LF">>
Piece(bytes, tokens) == [bytes |-> bytes, tokens |-> tokens]
Cat(p, q) ==
  Piece(p.bytes \o q.bytes,
        p.tokens \o [i \in DOMAIN q.tokens |-> [q.tokens[i] EXCEPT !.at = @ + Len(p.bytes)]])

\* The parts of a request.
Line(url, rest) ==
  Piece(<<"POST">> \o url \o rest,
        <<[kind |-> "method", at |-> 1], [kind |-> "url", at |-> 1 + Len(url), text |-> url]>>)
Headers(bytes, len, chunked, keep) ==
  Piece(bytes \o EOL,
        <<[kind |-> "end", at |-> Len(bytes) + 2, len |-> len, chunked |-> chunked, keep |-> keep]>>)
Units(bytes) ==
  Piece(bytes, [i \in DOMAIN bytes |-> [kind |-> "unit", at |-> i, text |-> bytes[i]]])
Chunk(size, bytes) == Cat(Cat(Piece(size \o EOL, <<>>), Units(bytes)), Piece(EOL, <<>>))
LastChunk(trailer) ==
  Piece(<<"0">> \o EOL \o trailer \o EOL, <<[kind |-> "last", at |-> 5 + Len(trailer)]>>)

Header(name, value) == <<name, ":">> \o value \o EOL
Length2   == Header("content-length", <<" ", "0", "2">>)
InChunks  == Header("transfer-encoding", <<"chunked">>)
HostV     == Header("host", <<"v">>)

Plain     == Cat(Cat(Line(<<"/", "a">>, Http11), Headers(Length2, 2, FALSE, TRUE)), Units(<<"CR", "POST">>))
NoLength  == Cat(Line(<<"/", "?", "a">>, Http11), Headers(HostV, 0, FALSE, TRUE))
Length0   == Cat(Line(<<"/">>, Http11), Headers(Header("content-length", <<"0">>), 0, FALSE, TRUE))
InTwo     == Cat(Cat(Cat(Cat(Line(<<"/">>, Http11), Headers(InChunks \o Length2, 0, TRUE, TRUE)),
                         Chunk(<<"0", "2">>, <<"LF", "0">>)),
                     Chunk(<<"1", ";", "a">>, <<"a">>)),
                 LastChunk(HostV))
Close     == Cat(Line(<<"a", ":", "/", "/", "a", "@", "a", "/">>, Http11),
                 Headers(Header("connection", <<"close">>), 0, FALSE, FALSE))
Old       == Cat(Cat(Line(<<"/">>, <<" ", "1.0", "LF">>), Headers(Length2, 2, FALSE, FALSE)), Units(<<"a", "LF">>))
OldKeeps  == Cat(Line(<<"/">>, <<" ", "1.0", "CR", "LF">>),
                 Headers(Header("connection", <<"keep-alive">>), 0, FALSE, TRUE))
Oldest    == Cat(Line(<<"/">>, EOL), Headers(<<>>, 0, FALSE, FALSE))
TwoHosts  == Cat(Line(<<"/", "#", "a">>, Http11),
                 Headers(Header("host", <<>>) \o HostV \o Header("host", <<"a">>) \o Header("a", <<"a", "CR", "LF", " ", "a">>),
                         0, FALSE, TRUE))
Upgrading == Cat(Cat(Line(<<"/">>, Http11), Headers(Header("upgrade", <<"a">>) \o Length2, 0, FALSE, FALSE)), Units(<<"a">>))

Requests == {Plain, NoLength, Length0, InTwo, Close, Old, OldKeeps, Oldest, TwoHosts, Upgrading}

\* Everything that is no request: what a prefix can be followed by.
Bytes == {"POST", "CONNECT", "/", "a", ":", "?", "#", "@", " ", "CR", "LF", "1.1", "content-length",
          "transfer-encoding", "host", "chunked", "3", "A", ";"}
Few == {"POST", "/", "a", ":", " ", "CR", "LF", "3"}
Start == <<"POST", "/">> \o Http11
Beginnings ==
  {<<>>, <<"POST">>, <<"CONNECT", "a">>, <<"POST", "/", " ", "1.0">>, <<"POST", "a", ":", "/", "/">>, <<"POST", "/", " ">>, Start,
   Start \o <<"host">>, Start \o <<"host", "CR", "LF">>, Start \o <<"host", "CR", "LF", "a">>,
   Start \o <<"content-length", ":">>, Start \o <<"host", ":", "v">>,
   Start \o InChunks \o EOL, Start \o InChunks \o EOL \o <<"1", "CR", "LF">>,
   Start \o Length2 \o EOL, Start \o Header("a", [i \in 1 .. 30 |-> "a"])}
Garbage == {p \o <<b1, b2>> : p \in Beginnings, b1 \in Bytes, b2 \in Few}

\* One or two requests, and what is none.
AllStreams ==
  Requests \cup {Cat(p, q) : p, q \in Requests} \cup {Piece(g, <<>>) : g \in Garbage}

\* A length of three digits.
LongBody ==
  {[bytes |-> Start \o Header("content-length", <<d1, d2, "0">>) \o EOL \o <<"a", "a">>,
    tokens |-> <<>>, length |-> 100 * Value[d1] + 10 * Value[d2]] : d1, d2 \in {"1", "2", "3", "9"}}
=============================================================================
