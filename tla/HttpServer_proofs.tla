-------------------------- MODULE HttpServer_proofs --------------------------
(***************************************************************************)
(* Theorems about the HTTP server, for any connections and requests and    *)
(* however the network cuts them up.                                       *)
(*                                                                         *)
(* First what clients send, then what the parser has made of each prefix   *)
(* of one request (Read), and then the server: every connection finds its  *)
(* own HttpConnection under its uuid, and answers when it has everything.  *)
(***************************************************************************)
EXTENDS HttpServer, Lemmas

-----------------------------------------------------------------------------
(***************************************************************************)
(* Streams                                                                 *)
(***************************************************************************)
Tokens ==
  [kind : {"method", "url", "end", "unit", "last"}, conn : Conn, req : Nat, len : Nat, chunked : BOOLEAN, keep : BOOLEAN]

\* What is known of the requests of a client.
LEMMA Scripts ==
  ASSUME script \in [Conn -> Script], NEW c \in Conn
  PROVE  /\ Len(script[c]) \in Nat /\ DOMAIN script[c] = 1 .. Len(script[c])
         /\ \A i \in DOMAIN script[c] :
              /\ i \in Nat /\ script[c][i].len \in Nat
              /\ script[c][i].chunked \in BOOLEAN /\ script[c][i].keep \in BOOLEAN
  BY HttpServerAssumption

\* w is s with t behind it.
Behind(w, s, t) ==
  /\ Len(w) = Len(s) + Len(t)
  /\ \A n \in 1 .. Len(s) : w[n] = s[n]
  /\ \A n \in 1 .. Len(t) : w[Len(s) + n] = t[n]

\* One sequence behind another.
LEMMA ConcatFacts ==
  ASSUME NEW S, NEW s \in Seq(S), NEW t \in Seq(S)
  PROVE  s \o t \in Seq(S) /\ Behind(s \o t, s, t)
  BY DEF Behind

\* A sequence of one element.
LEMMA SingletonFacts ==
  ASSUME NEW S, NEW x \in S
  PROVE  <<x>> \in Seq(S) /\ Len(<<x>>) = 1 /\ <<x>>[1] = x
  OBVIOUS

\* w is three elements and two sequences behind them.
Made(w, m, u, e, b, l) ==
  /\ w = <<m>> \o <<u>> \o <<e>> \o b \o l
  /\ Len(w) = 3 + Len(b) + Len(l)
  /\ w[1] = m /\ w[2] = u /\ w[3] = e
  /\ \A n \in 1 .. Len(b) : w[3 + n] = b[n]
  /\ \A n \in 1 .. Len(l) : w[3 + Len(b) + n] = l[n]

\* There is such a sequence.
LEMMA MadeFacts ==
  ASSUME NEW S, NEW m \in S, NEW u \in S, NEW e \in S, NEW b \in Seq(S), NEW l \in Seq(S)
  PROVE  \E w \in Seq(S) : Made(w, m, u, e, b, l)
  <1>a. PICK m1 \in Seq(S) : m1 = <<m>> /\ Len(m1) = 1 /\ m1[1] = m
    BY SingletonFacts
  <1>b. PICK u1 \in Seq(S) : u1 = <<u>> /\ Len(u1) = 1 /\ u1[1] = u
    BY SingletonFacts
  <1>c. PICK e1 \in Seq(S) : e1 = <<e>> /\ Len(e1) = 1 /\ e1[1] = e
    BY SingletonFacts
  <1>1. PICK f \in Seq(S) : f = m1 \o u1 /\ Behind(f, m1, u1)
    BY ConcatFacts
  <1>2. Len(f) = 2 /\ f[1] = m /\ f[2] = u
    BY <1>a, <1>b, <1>c, <1>1 DEF Behind
  <1>3. PICK h \in Seq(S) : h = f \o e1 /\ Behind(h, f, e1)
    BY ConcatFacts
  <1>4. Len(h) = 3 /\ h[1] = m /\ h[2] = u /\ h[3] = e
    BY <1>a, <1>b, <1>c, <1>2, <1>3 DEF Behind
  <1>5. PICK g \in Seq(S) : g = h \o b /\ Behind(g, h, b)
    BY ConcatFacts
  <1>6. /\ Len(g) = 3 + Len(b)
        /\ \A n \in 1 .. 3 : g[n] = h[n]
        /\ \A n \in 1 .. Len(b) : g[3 + n] = b[n]
    BY <1>4, <1>5 DEF Behind
  <1>7. PICK w \in Seq(S) : w = g \o l /\ Behind(w, g, l)
    BY ConcatFacts
  <1>8. /\ Len(w) = 3 + Len(b) + Len(l)
        /\ \A n \in 1 .. 3 + Len(b) : w[n] = g[n]
        /\ \A n \in 1 .. Len(l) : w[3 + Len(b) + n] = l[n]
    BY <1>6, <1>7 DEF Behind
  <1>9. Len(b) \in Nat
    OBVIOUS
  <1>10. w[1] = m /\ w[2] = u /\ w[3] = e
    BY <1>4, <1>6, <1>8, <1>9
  <1>11. ASSUME NEW n \in 1 .. Len(b)
         PROVE  w[3 + n] = b[n]
    <2>1. 3 + n \in 1 .. 3 + Len(b)
      BY <1>9
    <2> QED
      BY <1>6, <1>8, <2>1
  <1>12. w = <<m>> \o <<u>> \o <<e>> \o b \o l
    BY <1>a, <1>b, <1>c, <1>1, <1>3, <1>5, <1>7
  <1> QED
    BY <1>8, <1>10, <1>11, <1>12 DEF Made

\* The tokens of a request, one by one.
LEMMA WireFacts ==
  ASSUME script \in [Conn -> Script], NEW c \in Conn, NEW i \in DOMAIN script[c]
  PROVE  LET w == Wire(c, i)
             r == script[c][i]
         IN  /\ w \in Seq(Tokens)
             /\ Len(w) = IF r.chunked THEN r.len + 4 ELSE r.len + 3
             /\ w[1] = Token("method", c, i) /\ w[2] = Token("url", c, i) /\ w[3] = Token("end", c, i)
             /\ \A n \in 1 .. r.len : w[3 + n] = Token("unit", c, i)
             /\ r.chunked => w[r.len + 4] = Token("last", c, i)
  <1> DEFINE r == script[c][i]
             T(k) == Token(k, c, i)
  <1>1. i \in Nat /\ r.len \in Nat /\ r.chunked \in BOOLEAN /\ r.keep \in BOOLEAN
    BY Scripts
  <1>2. \A k \in {"method", "url", "end", "unit", "last"} : T(k) \in Tokens
    BY <1>1 DEF Token, Tokens
  <1>3. PICK len \in Nat, more \in {0, 1} : len = r.len /\ (more = 1 <=> r.chunked)
    <2>1. CASE r.chunked
      BY <1>1, <2>1
    <2>2. CASE ~r.chunked
      BY <1>1, <2>2
    <2> QED
      BY <2>1, <2>2
  <1> DEFINE tail == IF more = 1 THEN <<T("last")>> ELSE <<>>
  <1>4. Wire(c, i) = <<T("method")>> \o <<T("url")>> \o <<T("end")>> \o Body(c, i) \o tail
    BY <1>3 DEF Wire, Url
  <1>5. Body(c, i) = [n \in 1 .. len |-> T("unit")]
    BY <1>3 DEF Body
  <1> HIDE DEF T, r
  <1>6. /\ T("method") \in Tokens /\ T("url") \in Tokens /\ T("end") \in Tokens
        /\ T("unit") \in Tokens /\ T("last") \in Tokens
    <2> HIDE DEF tail
    <2> QED
      BY <1>2
  <1>7. PICK b \in Seq(Tokens) :
          b = Body(c, i) /\ Len(b) = len /\ \A n \in 1 .. len : b[n] = T("unit")
    <2>1. /\ Body(c, i) \in Seq(Tokens) /\ Len(Body(c, i)) = len
          /\ \A n \in 1 .. len : Body(c, i)[n] = T("unit")
      BY <1>5, <1>6
    <2> QED
      BY <2>1
  <1>8. PICK l \in Seq(Tokens) :
          l = tail /\ Len(l) = more /\ (more = 1 => l[1] = T("last"))
    <2>1. CASE more = 1
      <3>1. tail = <<T("last")>>
        BY <2>1
      <3> QED
        BY <1>6, <2>1, <3>1, SingletonFacts
    <2>2. CASE more = 0
      <3>1. tail = <<>>
        BY <2>2
      <3> HIDE DEF tail
      <3>2. tail \in Seq(Tokens) /\ Len(tail) = 0
        BY <3>1
      <3>3. ~(more = 1) /\ Len(tail) = more
        BY <2>2, <3>2
      <3> QED
        BY <3>2, <3>3
    <2> QED
      BY <2>1, <2>2
  <1> HIDE DEF tail
  <1>9. PICK w \in Seq(Tokens) : Made(w, T("method"), T("url"), T("end"), b, l)
    BY <1>6, MadeFacts
  <1>10. w = Wire(c, i)
    BY <1>4, <1>7, <1>8, <1>9 DEF Made
  <1>11. more = 1 => w[len + 4] = T("last")
    <2> SUFFICES ASSUME more = 1 PROVE w[len + 4] = T("last")
      OBVIOUS
    <2>1. 1 \in 1 .. Len(l) /\ l[1] = T("last")
      BY <1>8
    <2>2. 3 + Len(b) + 1 = len + 4
      BY <1>7
    <2> QED
      BY <1>9, <2>1, <2>2 DEF Made
  <1>12. Len(w) = len + 3 + more
    BY <1>7, <1>8, <1>9 DEF Made
  <1>13. \A n \in 1 .. len : w[3 + n] = T("unit")
    BY <1>7, <1>9 DEF Made
  <1>14. w[1] = T("method") /\ w[2] = T("url") /\ w[3] = T("end")
    BY <1>9 DEF Made
  <1> QED
    <2>1. CASE r.chunked
      BY <1>3, <1>10, <1>11, <1>12, <1>13, <1>14, <2>1 DEF r, T
    <2>2. CASE ~r.chunked
      <3>1. Len(w) = len + 3
        BY <1>3, <1>12, <2>2
      <3> QED
        BY <1>3, <1>10, <1>13, <1>14, <2>2, <3>1 DEF r, T
    <2> QED
      BY <2>1, <2>2

\* A stream is one request behind the other.
LEMMA StreamFacts ==
  ASSUME script \in [Conn -> Script], NEW c \in Conn
  PROVE  /\ Stream(c) \in Seq(Tokens)
         /\ Len(script[c]) = 1 => Stream(c) = Wire(c, 1)
         /\ Len(script[c]) = 0 => Stream(c) = <<>>
  <1>1. PICK n \in Nat : n = Len(script[c]) /\ DOMAIN script[c] = 1 .. n
    BY Scripts
  <1>2. PICK S : S = Seq(Tokens)
    OBVIOUS
  <1>3. PICK W : W = [i \in 1 .. n |-> Wire(c, i)]
    OBVIOUS
  <1>4. \A i \in 1 .. n : W[i] = Wire(c, i) /\ W[i] \in S
    BY <1>1, <1>2, <1>3, WireFacts
  <1> DEFINE none == <<>>
             G == [i \in 1 .. n |-> [s \in S |-> s \o W[i]]]
             upto == CHOOSE f : f = [i \in 0 .. n |-> IF i = 0 THEN <<>> ELSE f[i - 1] \o Wire(c, i)]
  <1>5. Stream(c) = upto[n]
    BY <1>1 DEF Stream
  <1>6. G \in [1 .. n -> [S -> S]] /\ none \in S
    BY <1>2, <1>4
  <1>7. PICK f \in [0 .. n -> S] : Unfolds(f, n, none, G)
    <2> HIDE DEF G, none, upto
    <2> QED
      BY <1>6, RecursiveFunction
  <1>8. f[0] = <<>> /\ \A i \in 1 .. n : f[i] = f[i - 1] \o W[i]
    <2>1. \A i \in 1 .. n : f[i - 1] \in S
      BY <1>7
    <2> QED
      BY <1>7, <2>1 DEF Unfolds
  <1>9. f = [i \in 0 .. n |-> IF i = 0 THEN <<>> ELSE f[i - 1] \o Wire(c, i)]
    <2> HIDE DEF upto, G
    <2>1. ASSUME NEW i \in 0 .. n
          PROVE  f[i] = IF i = 0 THEN <<>> ELSE f[i - 1] \o Wire(c, i)
      <3>1. i = 0 \/ i \in 1 .. n
        OBVIOUS
      <3> QED
        BY <1>4, <1>8, <3>1
    <2>2. f = [i \in 0 .. n |-> f[i]]
      OBVIOUS
    <2> QED
      BY <2>1, <2>2
  <1>10. upto = [i \in 0 .. n |-> IF i = 0 THEN <<>> ELSE upto[i - 1] \o Wire(c, i)]
    BY <1>9
  <1>11. PICK g : g = upto
    OBVIOUS
  <1> HIDE DEF upto, G
  <1>12. g[0] = <<>> /\ \A i \in 1 .. n : g[i] = g[i - 1] \o W[i]
    <2>1. \A i \in 0 .. n : g[i] = IF i = 0 THEN <<>> ELSE g[i - 1] \o Wire(c, i)
      BY <1>10, <1>11
    <2>2. \A i \in 1 .. n : i \in 0 .. n /\ i # 0
      OBVIOUS
    <2>3. 0 \in 0 .. n
      OBVIOUS
    <2> QED
      BY <1>4, <2>1, <2>2, <2>3
  <1> DEFINE T == {i \in 0 .. n : g[i] \in S}
  <1>13. T = 0 .. n
    <2>1. 0 \in T
      BY <1>6, <1>12
    <2>2. ASSUME NEW i \in T, i < n
          PROVE  i + 1 \in T
      <3>1. i + 1 \in 1 .. n /\ (i + 1) - 1 = i /\ g[i] \in S
        BY <2>2
      <3>2. g[i + 1] = g[i] \o W[i + 1] /\ W[i + 1] \in S
        BY <1>4, <1>12, <3>1
      <3>3. g[i + 1] \in S
        BY <1>2, <3>1, <3>2
      <3> QED
        BY <3>1, <3>3
    <2>3. T \in SUBSET (0 .. n)
      OBVIOUS
    <2> HIDE DEF T
    <2> QED
      BY <2>1, <2>2, <2>3, BoundedInduction
  <1>14. g[n] \in S
    BY <1>13
  <1>15. ASSUME n = 1
         PROVE  g[n] = Wire(c, 1)
    <2>1. g[1] = g[0] \o W[1] /\ W[1] = Wire(c, 1) /\ W[1] \in S
      <3>1. 1 \in 1 .. n /\ 1 - 1 = 0
        BY <1>15
      <3> QED
        BY <1>4, <1>12, <3>1
    <2> QED
      BY <1>2, <1>12, <1>15, <2>1
  <1> QED
    BY <1>1, <1>2, <1>5, <1>11, <1>12, <1>14, <1>15

-----------------------------------------------------------------------------
(***************************************************************************)
(* What the parser has made of each prefix of a request whose tokens are a *)
(* method, the url u, the end e of the headers, the units x of the body,   *)
(* and, when it comes in chunks, the last one.                             *)
(***************************************************************************)
IsRequest(w, e, u, x) ==
  /\ Len(w) = IF e.chunked THEN e.len + 4 ELSE e.len + 3
  /\ w[1].kind = "method" /\ w[2] = u /\ w[3] = e
  /\ u.kind = "url" /\ e.kind = "end" /\ x.kind = "unit"
  /\ e.len \in Nat
  /\ \A n \in 1 .. e.len : w[3 + n] = x
  /\ e.chunked => w[e.len + 4].kind = "last"

\* k units of a body.
Units(x, k) == [j \in 1 .. k |-> x]

\* A message that is not complete; one whose headers have been read, with k units
\* of its body; and one that is complete.
Fields == {"phase", "need", "chunked", "keep", "url", "body", "read_all"}
Open(p, phase, url, body) ==
  /\ DOMAIN p = Fields
  /\ p.phase = phase /\ p.url = url /\ p.body = body /\ ~p.read_all
InBody(p, e, u, x, k) ==
  Open(p, "body", <<u>>, Units(x, k)) /\ p.need = e.len - k /\ (p.chunked <=> e.chunked)
Whole(p, u, x, k) == p.url = <<u>> /\ p.body = Units(x, k) /\ p.read_all

\* p is what the first n tokens of the request make of an empty message.
Read(w, e, u, x, n, p) ==
  /\ n = 0 => Open(p, "start", <<>>, <<>>)
  /\ n = 1 => Open(p, "url", <<>>, <<>>)
  /\ n = 2 => Open(p, "headers", <<u>>, <<>>)
  /\ n \in 3 .. Len(w) - 1 => InBody(p, e, u, x, n - 3)
  /\ n = Len(w) => Whole(p, u, x, e.len)

\* One unit more.
LEMMA UnitsFacts ==
  ASSUME NEW x, NEW k \in Nat
  PROVE  Units(x, 0) = <<>> /\ Append(Units(x, k), x) = Units(x, k + 1)
  <1>1. Units(x, k) \in Seq({x}) /\ Len(Units(x, k)) = k
    BY DEF Units
  <1>2. Append(Units(x, k), x) \in Seq({x}) /\ Len(Append(Units(x, k), x)) = k + 1
    BY <1>1
  <1>3. Units(x, k + 1) \in Seq({x}) /\ Len(Units(x, k + 1)) = k + 1
    BY DEF Units
  <1>4. \A j \in 1 .. k + 1 : Append(Units(x, k), x)[j] = x /\ Units(x, k + 1)[j] = x
    BY <1>1 DEF Units
  <1>5. Units(x, 0) = <<>>
    BY DEF Units
  <1> QED
    BY <1>2, <1>3, <1>4, <1>5

\* A parser that has read nothing is at the start of a message.
LEMMA NothingRead == Open(NoMessage, "start", <<>>, <<>>)
  BY DEF Open, NoMessage, Fields

\* After the method comes the URL.
LEMMA ConsumeMethod ==
  ASSUME NEW p, Open(p, "start", <<>>, <<>>), NEW t, t.kind = "method"
  PROVE  Open(Consume(p, t), "url", <<>>, <<>>)
  BY DEF Open, Fields, Consume

\* After the URL come the headers, and the URL is kept.
LEMMA ConsumeUrl ==
  ASSUME NEW p, Open(p, "url", <<>>, <<>>), NEW t, t.kind = "url"
  PROVE  Open(Consume(p, t), "headers", <<t>>, <<>>)
  <1> DEFINE q == [OnUrl(p, t) EXCEPT !.phase = "headers"]
  <1>1. Consume(p, t) = q
    BY DEF Open, Consume
  <1>2. OnUrl(p, t) = [p EXCEPT !.url = Append(p.url, t)] /\ p.url = <<>> /\ Append(<<>>, t) = <<t>>
    BY DEF OnUrl, Open
  <1>3. OnUrl(p, t) = [p EXCEPT !.url = <<t>>]
    BY <1>2
  <1>4. Open(q, "headers", <<t>>, <<>>)
    BY <1>3 DEF Open, Fields
  <1> QED
    BY <1>1, <1>4

\* Whatever has been read is the message when it is declared complete.
LEMMA CompleteFacts ==
  ASSUME NEW p, NEW u, NEW x, NEW k, DOMAIN p = Fields, p.url = <<u>>, p.body = Units(x, k)
  PROVE  Whole(Complete(p), u, x, k)
  BY DEF Whole, Fields, Complete, OnMessageComplete

\* A body that is complete when it has all its units and does not come in chunks.
LEMMA BodyFacts ==
  ASSUME NEW e, e.len \in Nat, NEW u, NEW x, NEW k \in Nat, NEW q, InBody(q, e, u, x, k),
         NEW r, r = IF q.need = 0 /\ ~q.chunked THEN Complete(q) ELSE q
  PROVE  IF k = e.len /\ ~e.chunked THEN Whole(r, u, x, k) ELSE InBody(r, e, u, x, k)
  <1>1. (q.need = 0 <=> k = e.len) /\ (q.chunked <=> e.chunked)
    BY DEF InBody
  <1>2. DOMAIN q = Fields /\ q.url = <<u>> /\ q.body = Units(x, k)
    BY DEF InBody, Open
  <1>3. Whole(Complete(q), u, x, k)
    BY <1>2, CompleteFacts
  <1>4. CASE k = e.len /\ ~e.chunked
    <2>1. r = Complete(q)
      BY <1>1, <1>4
    <2> QED
      BY <1>3, <1>4, <2>1
  <1>5. CASE ~(k = e.len /\ ~e.chunked)
    <2>1. r = q
      BY <1>1, <1>5
    <2> QED
      BY <1>5, <2>1
  <1> QED
    BY <1>4, <1>5

\* The end of the headers is the end of a message that has no body.
LEMMA ConsumeEnd ==
  ASSUME NEW p, NEW u, Open(p, "headers", <<u>>, <<>>), NEW e, e.kind = "end", e.len \in Nat, NEW x
  PROVE  IF 0 = e.len /\ ~e.chunked THEN Whole(Consume(p, e), u, x, 0) ELSE InBody(Consume(p, e), e, u, x, 0)
  <1> DEFINE q == [p EXCEPT !.phase = "body", !.need = e.len, !.chunked = e.chunked, !.keep = e.keep]
  <1>1. Consume(p, e) = IF q.need = 0 /\ ~q.chunked THEN Complete(q) ELSE q
    BY DEF Open, Consume
  <1>2. Units(x, 0) = <<>> /\ e.len - 0 = e.len
    BY UnitsFacts
  <1>3. DOMAIN q = Fields /\ q.phase = "body" /\ q.url = <<u>> /\ q.body = <<>> /\ ~q.read_all
    BY DEF Open, Fields
  <1>4. q.need = e.len
    BY DEF Open, Fields
  <1>5. q.chunked <=> e.chunked
    BY DEF Open, Fields
  <1> HIDE DEF q
  <1>6. InBody(q, e, u, x, 0)
    BY <1>2, <1>3, <1>4, <1>5 DEF InBody, Open
  <1> QED
    BY <1>1, <1>6, BodyFacts

\* A unit of the body is the end of the message when it is the last one the
\* headers announced.
LEMMA ConsumeUnit ==
  ASSUME NEW p, NEW e, e.len \in Nat, NEW u, NEW x, x.kind = "unit", NEW k \in Nat, InBody(p, e, u, x, k)
  PROVE  IF k + 1 = e.len /\ ~e.chunked THEN Whole(Consume(p, x), u, x, k + 1)
         ELSE InBody(Consume(p, x), e, u, x, k + 1)
  <1> DEFINE b == [OnBody(p, x) EXCEPT !.need = @ - 1]
  <1>1. Consume(p, x) = IF b.need = 0 /\ ~b.chunked THEN Complete(b) ELSE b
    BY DEF InBody, Open, Consume
  <1>2. Append(p.body, x) = Units(x, k + 1)
    BY UnitsFacts DEF InBody, Open
  <1>a. OnBody(p, x) = [p EXCEPT !.body = Append(p.body, x)]
    BY DEF OnBody
  <1>c. OnBody(p, x) = [p EXCEPT !.body = Units(x, k + 1)]
    BY <1>2, <1>a
  <1>3. DOMAIN b = Fields /\ b.phase = "body" /\ b.url = <<u>> /\ b.body = Units(x, k + 1) /\ ~b.read_all
    BY <1>c DEF InBody, Open, Fields
  <1>4. b.need = p.need - 1
    BY <1>c DEF InBody, Open, Fields
  <1>5. b.chunked <=> p.chunked
    BY <1>c DEF InBody, Open, Fields
  <1> HIDE DEF b
  <1>6. InBody(b, e, u, x, k + 1)
    BY <1>3, <1>4, <1>5 DEF InBody, Open
  <1> QED
    BY <1>1, <1>6, BodyFacts

\* The last chunk is the end of a message in chunks.
LEMMA ConsumeLast ==
  ASSUME NEW p, NEW e, e.chunked, NEW u, NEW x, NEW k, InBody(p, e, u, x, k), NEW t, t.kind = "last"
  PROVE  Whole(Consume(p, t), u, x, k)
  <1>1. DOMAIN p = Fields /\ p.url = <<u>> /\ p.body = Units(x, k)
    BY DEF InBody, Open
  <1>2. Consume(p, t) = Complete(p)
    BY DEF InBody, Open, Consume
  <1> QED
    BY <1>1, <1>2, CompleteFacts

\* f is what the parser makes of w, token by token.
Parses(f, w) ==
  /\ f[0] = NoMessage /\ \A n \in 1 .. Len(w) : f[n] = Consume(f[n - 1], w[n])
  /\ ParseTokens(w) = f[Len(w)]

\* The parser's recursion is there, whatever the tokens.
LEMMA ParseUnfolds ==
  ASSUME NEW w, Len(w) \in Nat
  PROVE  \E f : Parses(f, w)
  <1>1. PICK n \in Nat : n = Len(w)
    OBVIOUS
  <1> DEFINE Good(k, f) == f = [j \in 0 .. k |-> IF j = 0 THEN NoMessage ELSE Consume(f[j - 1], w[j])]
             T == {k \in 0 .. n : \E f : Good(k, f)}
             after == CHOOSE f : Good(n, f)
  <1>2. 0 \in T
    <2>1. Good(0, [j \in 0 .. 0 |-> NoMessage])
      OBVIOUS
    <2>2. 0 \in 0 .. n
      OBVIOUS
    <2> HIDE DEF Good
    <2> QED
      BY <2>1, <2>2
  <1>3. ASSUME NEW k \in T, k < n
        PROVE  k + 1 \in T
    <2>1. PICK f : Good(k, f)
      OBVIOUS
    <2>2. k + 1 \in 1 .. n /\ k \in 0 .. k /\ k \in Nat
      BY <1>3
    <2> DEFINE g == [j \in 0 .. k + 1 |-> IF j = k + 1 THEN Consume(f[k], w[k + 1]) ELSE f[j]]
    <2>4. \A j \in 0 .. k + 1 : g[j] = IF j = 0 THEN NoMessage ELSE Consume(g[j - 1], w[j])
      <3> SUFFICES ASSUME NEW j \in 0 .. k + 1
                   PROVE  g[j] = IF j = 0 THEN NoMessage ELSE Consume(g[j - 1], w[j])
        OBVIOUS
      <3>1. CASE j = k + 1
        <4>1. j # 0 /\ j - 1 = k /\ k \in 0 .. k + 1 /\ k # k + 1
          BY <2>2, <3>1
        <4>2. g[k] = f[k] /\ g[j] = Consume(f[k], w[k + 1])
          BY <3>1, <4>1
        <4> QED
          BY <3>1, <4>1, <4>2
      <3>2. CASE j # k + 1
        <4>1. j \in 0 .. k
          BY <2>2, <3>2
        <4>2. f[j] = IF j = 0 THEN NoMessage ELSE Consume(f[j - 1], w[j])
          BY <2>1, <4>1
        <4>3. j # 0 => j - 1 \in 0 .. k + 1 /\ j - 1 # k + 1
          BY <2>2, <4>1
        <4> QED
          BY <3>2, <4>2, <4>3
      <3> QED
        BY <3>1, <3>2
    <2>5. Good(k + 1, g)
      <3>1. g = [j \in 0 .. k + 1 |-> g[j]]
        OBVIOUS
      <3> HIDE DEF g
      <3> QED
        BY <2>4, <3>1
    <2>6. k + 1 \in 0 .. n
      BY <2>2
    <2> HIDE DEF Good, g
    <2> QED
      BY <2>5, <2>6
  <1>4. T = 0 .. n
    <2>1. T \in SUBSET (0 .. n)
      OBVIOUS
    <2> HIDE DEF T
    <2> QED
      BY <1>2, <1>3, <2>1, BoundedInduction
  <1>5. \E f : Good(n, f)
    <2>1. n \in T
      BY <1>4
    <2> HIDE DEF Good
    <2> QED
      BY <2>1
  <1>6. Good(n, after)
    <2> HIDE DEF Good
    <2> QED
      BY <1>5
  <1>7. ParseTokens(w) = after[n]
    BY <1>1 DEF ParseTokens
  <1>8. PICK f : f = after
    OBVIOUS
  <1> HIDE DEF after
  <1>9. f[0] = NoMessage /\ \A j \in 1 .. n : f[j] = Consume(f[j - 1], w[j])
    <2>1. \A j \in 0 .. n : f[j] = IF j = 0 THEN NoMessage ELSE Consume(f[j - 1], w[j])
      BY <1>6, <1>8
    <2>2. 0 \in 0 .. n /\ \A j \in 1 .. n : j \in 0 .. n /\ j # 0
      OBVIOUS
    <2> QED
      BY <2>1, <2>2
  <1> QED
    BY <1>1, <1>7, <1>8, <1>9 DEF Parses

\* Each token brings the parser from what Read says of those before it to what it
\* says of them all.
LEMMA ReadStep ==
  ASSUME NEW w, NEW e, NEW u, NEW x, IsRequest(w, e, u, x),
         NEW n \in 1 .. Len(w), NEW i \in 0 .. Len(w) - 1, n = i + 1,
         NEW p, Read(w, e, u, x, i, p)
  PROVE  Read(w, e, u, x, n, Consume(p, w[n]))
  <1>1. Len(w) \in Nat /\ Len(w) >= 3 /\ e.len \in Nat
    BY DEF IsRequest
  <1>2. CASE n = 1
    <2>1. Open(p, "start", <<>>, <<>>) /\ w[1].kind = "method"
      BY <1>2 DEF Read, IsRequest
    <2>2. Open(Consume(p, w[n]), "url", <<>>, <<>>)
      BY <1>2, <2>1, ConsumeMethod
    <2> QED
      BY <1>1, <1>2, <2>2 DEF Read
  <1>3. CASE n = 2
    <2>1. Open(p, "url", <<>>, <<>>) /\ w[n] = u /\ u.kind = "url"
      BY <1>3 DEF Read, IsRequest
    <2>2. Open(Consume(p, w[n]), "headers", <<u>>, <<>>)
      BY <2>1, ConsumeUrl
    <2> QED
      BY <1>1, <1>3, <2>2 DEF Read
  <1>4. CASE n = 3
    <2>1. Open(p, "headers", <<u>>, <<>>) /\ w[n] = e /\ e.kind = "end"
      BY <1>4 DEF Read, IsRequest
    <2>2. IF 0 = e.len /\ ~e.chunked THEN Whole(Consume(p, w[n]), u, x, 0)
          ELSE InBody(Consume(p, w[n]), e, u, x, 0)
      BY <1>1, <2>1, ConsumeEnd
    <2>3. n = Len(w) <=> 0 = e.len /\ ~e.chunked
      BY <1>1, <1>4 DEF IsRequest
    <2>4. n - 3 = 0
      BY <1>4
    <2> QED
      <3>1. CASE 0 = e.len /\ ~e.chunked
        <4>1. Whole(Consume(p, w[n]), u, x, e.len)
          BY <2>2, <3>1
        <4> QED
          BY <1>4, <2>3, <3>1, <4>1 DEF Read
      <3>2. CASE ~(0 = e.len /\ ~e.chunked)
        <4>1. InBody(Consume(p, w[n]), e, u, x, n - 3)
          BY <2>2, <2>4, <3>2
        <4> QED
          BY <1>4, <2>3, <3>2, <4>1 DEF Read
      <3> QED
        BY <3>1, <3>2
  <1>5. CASE n \in 4 .. e.len + 3
    <2>1. PICK k \in Nat : i = k + 3 /\ k + 1 \in 1 .. e.len
      <3>1. i - 3 \in Nat /\ i = (i - 3) + 3 /\ (i - 3) + 1 \in 1 .. e.len
        BY <1>1, <1>5
      <3> QED
        BY <3>1
    <2>2. 3 + (k + 1) = n /\ i - 3 = k /\ n - 3 = k + 1 /\ i \in 3 .. Len(w) - 1
      BY <1>1, <1>5, <2>1
    <2>3. w[n] = x /\ x.kind = "unit"
      BY <2>1, <2>2 DEF IsRequest
    <2>4. InBody(p, e, u, x, k)
      BY <2>2 DEF Read
    <2>5. IF k + 1 = e.len /\ ~e.chunked THEN Whole(Consume(p, w[n]), u, x, k + 1)
          ELSE InBody(Consume(p, w[n]), e, u, x, k + 1)
      BY <1>1, <2>3, <2>4, ConsumeUnit
    <2>6. n = Len(w) <=> k + 1 = e.len /\ ~e.chunked
      BY <1>1, <1>5, <2>1, <2>2 DEF IsRequest
    <2>7. n \notin {0, 1, 2}
      BY <1>5
    <2> QED
      BY <2>2, <2>5, <2>6, <2>7 DEF Read
  <1>6. CASE n = e.len + 4
    <2>1. e.chunked /\ n = Len(w) /\ i - 3 = e.len /\ i \in 3 .. Len(w) - 1
      BY <1>1, <1>6 DEF IsRequest
    <2>2. InBody(p, e, u, x, e.len)
      BY <2>1 DEF Read
    <2>3. w[n].kind = "last"
      BY <1>6, <2>1 DEF IsRequest
    <2>4. Whole(Consume(p, w[n]), u, x, e.len)
      BY <2>1, <2>2, <2>3, ConsumeLast
    <2>5. n \notin {0, 1, 2} /\ n \notin 3 .. Len(w) - 1
      BY <1>1, <2>1
    <2> QED
      BY <2>4, <2>5 DEF Read
  <1>7. n \in 1 .. 3 \/ n \in 4 .. e.len + 3 \/ n = e.len + 4
    BY <1>1 DEF IsRequest
  <1> QED
    BY <1>2, <1>3, <1>4, <1>5, <1>6, <1>7

\* A prefix of a request is a whole message just when it is all of it.
LEMMA ParsePrefix ==
  ASSUME NEW S, NEW w \in Seq(S), NEW e, NEW u, NEW x, IsRequest(w, e, u, x),
         NEW n \in 0 .. Len(w)
  PROVE  LET p == ParseTokens(SubSeq(w, 1, n))
         IN  /\ p.read_all <=> n = Len(w)
             /\ n = Len(w) => p.url = <<u>> /\ p.body = Units(x, e.len)
  <1>1. PICK v \in Seq(S) : v = SubSeq(w, 1, n) /\ Len(v) = n /\ \A k \in 1 .. n : v[k] = w[k]
    <2>1. /\ SubSeq(w, 1, n) \in Seq(S) /\ Len(SubSeq(w, 1, n)) = n
          /\ \A k \in 1 .. n : SubSeq(w, 1, n)[k] = w[k]
      OBVIOUS
    <2> QED
      BY <2>1
  <1>a. PICK f : Parses(f, v)
    <2>1. Len(v) \in Nat
      BY <1>1
    <2> QED
      BY <2>1, ParseUnfolds
  <1>2. /\ f[0] = NoMessage /\ \A k \in 1 .. n : f[k] = Consume(f[k - 1], v[k])
        /\ ParseTokens(v) = f[n]
    BY <1>1, <1>a DEF Parses
  <1> DEFINE T == {k \in 0 .. n : Read(w, e, u, x, k, f[k])}
  <1>3. Len(w) \in Nat /\ Len(w) >= 3 /\ e.len \in Nat
    BY DEF IsRequest
  <1>4. 0 \in T
    <2>1. Read(w, e, u, x, 0, f[0])
      BY <1>2, <1>3, NothingRead DEF Read
    <2> QED
      BY <2>1
  <1>5. ASSUME NEW k \in T, k < n
        PROVE  k + 1 \in T
    <2>1. k + 1 \in 1 .. n /\ (k + 1) - 1 = k /\ k \in 0 .. Len(w) - 1 /\ k + 1 \in 1 .. Len(w)
      BY <1>3, <1>5
    <2>2. f[k + 1] = Consume(f[k], w[k + 1])
      BY <1>1, <1>2, <2>1
    <2>3. Read(w, e, u, x, k + 1, Consume(f[k], w[k + 1]))
      BY <2>1, ReadStep
    <2> QED
      BY <2>1, <2>2, <2>3
  <1>6. T = 0 .. n
    <2>1. T \in SUBSET (0 .. n)
      OBVIOUS
    <2> HIDE DEF T
    <2> QED
      BY <1>4, <1>5, <2>1, BoundedInduction
  <1>7. Read(w, e, u, x, n, f[n])
    BY <1>6
  <1>8. n = Len(w) => Whole(f[n], u, x, e.len)
    BY <1>7 DEF Read
  <1>9. n # Len(w) => ~f[n].read_all
    <2>1. n = 0 \/ n = 1 \/ n = 2 \/ n \in 3 .. Len(w) - 1 \/ n = Len(w)
      BY <1>3
    <2> QED
      BY <1>7, <2>1 DEF Read, InBody, Open
  <1> QED
    BY <1>1, <1>2, <1>8, <1>9 DEF Whole

\* A client that sends one request: the parser has a whole message when all of it
\* has arrived, and the message is the request.
LEMMA OneRequestFacts ==
  ASSUME script \in [Conn -> Script], NEW c \in Conn, Len(script[c]) = 1,
         NEW n \in 0 .. Len(Stream(c))
  PROVE  LET p == ParseTokens(SubSeq(Stream(c), 1, n))
         IN  /\ p.read_all <=> n = Len(Stream(c))
             /\ n = Len(Stream(c)) => p.url = Url(c, 1) /\ p.body = Body(c, 1)
  <1>1. 1 \in DOMAIN script[c]
    BY Scripts
  <1>2. PICK w \in Seq(Tokens) : w = Wire(c, 1) /\ w = Stream(c)
    BY StreamFacts
  <1>3. PICK u : u = Token("url", c, 1)
    OBVIOUS
  <1>4. PICK e : e = Token("end", c, 1)
    OBVIOUS
  <1>5. PICK x : x = Token("unit", c, 1)
    OBVIOUS
  <1>6. PICK l : l = Token("last", c, 1)
    OBVIOUS
  <1>7. PICK len \in Nat : len = script[c][1].len
    BY <1>1, Scripts
  <1>8. /\ u.kind = "url" /\ e.kind = "end" /\ x.kind = "unit" /\ l.kind = "last"
        /\ e.len = len /\ Token("method", c, 1).kind = "method"
    BY <1>3, <1>4, <1>5, <1>6, <1>7 DEF Token
  <1>9. e.chunked <=> script[c][1].chunked
    BY <1>4 DEF Token
  <1>10. IsRequest(w, e, u, x)
    <2>1. /\ Len(w) = IF script[c][1].chunked THEN len + 4 ELSE len + 3
          /\ w[1] = Token("method", c, 1) /\ w[2] = u /\ w[3] = e
          /\ \A k \in 1 .. len : w[3 + k] = x
          /\ script[c][1].chunked => w[len + 4] = l
      BY <1>1, <1>2, <1>3, <1>4, <1>5, <1>6, <1>7, WireFacts
    <2> QED
      BY <1>8, <1>9, <2>1 DEF IsRequest
  <1>11. Url(c, 1) = <<u>>
    BY <1>3 DEF Url
  <1>12. Body(c, 1) = Units(x, e.len)
    BY <1>5, <1>7, <1>8 DEF Body, Units
  <1> QED
    BY <1>2, <1>10, <1>11, <1>12, ParsePrefix

-----------------------------------------------------------------------------
(***************************************************************************)
(* The server                                                              *)
(***************************************************************************)
\* What the clients send does not change.
LEMMA SameStream ==
  ASSUME UNCHANGED script, NEW c
  PROVE  /\ Stream(c)' = Stream(c)
         /\ Url(c, 1)' = Url(c, 1) /\ Body(c, 1)' = Body(c, 1)
  BY DEF Stream, Wire, Url, Body, Token

\* TypeOK, saying of each buffer which prefix it is.
Received ==
  /\ DOMAIN buf = Conn
  /\ \A c \in Conn : Len(buf[c]) \in 0 .. Len(Stream(c)) /\ buf[c] = SubSeq(Stream(c), 1, Len(buf[c]))

ServerTypes ==
  /\ state \in [Conn -> {"new", "open", "closed"}]
  /\ script \in [Conn -> Script]
  /\ m_conn_uuid_generator \in 0 .. UuidMod - 1
  /\ context \in [Conn -> 0 .. UuidMod - 1]
  /\ DOMAIN sm_httpMap \subseteq 0 .. UuidMod - 1
  /\ \A u \in DOMAIN sm_httpMap : sm_httpMap[u] \in Conn
  /\ DOMAIN replies = Conn

\* What has been received after n more tokens.
LEMMA SegmentFacts ==
  ASSUME script \in [Conn -> Script], NEW c \in Conn, NEW m \in Nat, m <= Len(Stream(c))
  PROVE  /\ Len(Stream(c)) \in Nat
         /\ Len(SubSeq(Stream(c), 1, m)) = m
         /\ IsPrefix(SubSeq(Stream(c), 1, m), Stream(c))
  <1>1. PICK s \in Seq(Tokens) : s = Stream(c)
    BY StreamFacts
  <1>2. Len(s) \in Nat /\ Len(SubSeq(s, 1, m)) = m
    BY <1>1
  <1>3. SubSeq(SubSeq(s, 1, m), 1, m) = SubSeq(s, 1, m)
    BY <1>1, <1>2
  <1>4. IsPrefix(SubSeq(s, 1, m), s)
    BY <1>1, <1>2, <1>3 DEF IsPrefix
  <1> QED
    BY <1>1, <1>2, <1>4

\* Nothing has come when the server starts.
LEMMA InitReceived == Init => Received
  <1> SUFFICES ASSUME Init PROVE Received
    OBVIOUS
  <1>1. script \in [Conn -> Script] /\ buf = [c \in Conn |-> <<>>]
    BY DEF Init
  <1>2. ASSUME NEW c \in Conn
        PROVE  Len(buf[c]) \in 0 .. Len(Stream(c)) /\ buf[c] = SubSeq(Stream(c), 1, Len(buf[c]))
    <2>1. PICK s \in Seq(Tokens) : s = Stream(c)
      BY <1>1, StreamFacts
    <2>2. SubSeq(s, 1, 0) = <<>> /\ Len(s) \in Nat
      BY <2>1
    <2>3. buf[c] = <<>> /\ Len(<<>>) = 0
      BY <1>1
    <2>4. Len(buf[c]) = 0
      BY <2>3
    <2> QED
      BY <2>1, <2>2, <2>3, <2>4
  <1> QED
    BY <1>1, <1>2 DEF Received

\* A step of a connection: what arrives on it goes behind what its buffer holds.
LEMMA ReceivedStep ==
  ASSUME Received, script \in [Conn -> Script], [Next]_vars
  PROVE  Received'
  <1>1. UNCHANGED script
    BY DEF Next, Connect, Disconnect, Deliver, Message, vars
  <1>2. \A c : Stream(c)' = Stream(c)
    BY <1>1, SameStream
  <1>3. CASE UNCHANGED buf
    BY <1>2, <1>3 DEF Received
  <1>4. ASSUME NEW c \in Conn, NEW n \in 1 .. Len(Stream(c)), Message(c, n)
        PROVE  Received'
    <2>1. PICK m \in Nat : /\ m = Len(buf[c]) + n /\ m <= Len(Stream(c))
                           /\ buf' = [buf EXCEPT ![c] = SubSeq(Stream(c), 1, m)]
      <3>1. Len(buf[c]) \in Nat /\ n \in Nat
        BY <1>4 DEF Received
      <3>2. /\ Len(buf[c]) + n <= Len(Stream(c))
            /\ buf' = [buf EXCEPT ![c] = SubSeq(Stream(c), 1, Len(buf[c]) + n)]
        BY <1>4 DEF Message, Arrive
      <3>3. Len(buf[c]) + n \in Nat
        BY <3>1
      <3> QED
        BY <3>2, <3>3
    <2>2. Len(Stream(c)) \in Nat /\ Len(SubSeq(Stream(c), 1, m)) = m
      BY <2>1, SegmentFacts
    <2>3. DOMAIN buf' = Conn
      BY <2>1 DEF Received
    <2>4. ASSUME NEW d \in Conn
          PROVE  Len(buf'[d]) \in 0 .. Len(Stream(d)) /\ buf'[d] = SubSeq(Stream(d), 1, Len(buf'[d]))
      <3>1. CASE d = c
        <4>1. buf'[d] = SubSeq(Stream(d), 1, m)
          BY <2>1, <3>1 DEF Received
        <4> QED
          BY <2>1, <2>2, <3>1, <4>1
      <3>2. CASE d # c
        BY <2>1, <3>2 DEF Received
      <3> QED
        BY <3>1, <3>2
    <2> QED
      BY <1>2, <2>3, <2>4 DEF Received
  <1> QED
    BY <1>3, <1>4 DEF Next, Connect, Disconnect, Deliver, vars

\* The generator wraps and stays a uuid.
LEMMA UuidFacts ==
  ASSUME NEW g \in 0 .. UuidMod - 1
  PROVE  /\ (g + 1) % UuidMod \in 0 .. UuidMod - 1
         /\ g + 1 < UuidMod => (g + 1) % UuidMod = g + 1
  BY HttpServerAssumption

\* The variables have their types when the server starts,
LEMMA InitServerTypes == Init => ServerTypes
  BY HttpServerAssumption DEF Init, ServerTypes

\* and keep them.
LEMMA ServerTypesStep ==
  ASSUME ServerTypes, [Next]_vars
  PROVE  ServerTypes'
  <1>1. ASSUME NEW c \in Conn, Connect(c)
        PROVE  ServerTypes'
    <2>1. m_conn_uuid_generator' \in 0 .. UuidMod - 1
      BY <1>1, UuidFacts DEF ServerTypes, Connect
    <2> QED
      BY <1>1, <2>1 DEF ServerTypes, Connect
  <1>2. ASSUME NEW c \in Conn, Disconnect(c)
        PROVE  ServerTypes'
    BY <1>2 DEF ServerTypes, Disconnect
  <1>3. ASSUME NEW c \in Conn, NEW n \in 1 .. Len(Stream(c)), Message(c, n)
        PROVE  ServerTypes'
    <2>1. DOMAIN replies' = Conn
      BY <1>3 DEF ServerTypes, Message, OnRead
    <2> QED
      BY <1>3, <2>1 DEF ServerTypes, Message
  <1>4. CASE UNCHANGED vars
    BY <1>4 DEF ServerTypes, vars
  <1> QED
    BY <1>1, <1>2, <1>3, <1>4 DEF Next, Deliver

\* The server's variables keep their types, and a buffer holds what the client
\* has sent so far, from its first byte: HttpServer.cc:40 never retrieves from it.
THEOREM ServerTypeCorrect == Spec => []TypeOK
  <1>1. Init => Received /\ ServerTypes
    BY InitReceived, InitServerTypes
  <1>2. Received /\ ServerTypes /\ [Next]_vars => (Received /\ ServerTypes)'
    BY ReceivedStep, ServerTypesStep DEF ServerTypes
  <1>3. Received /\ ServerTypes => TypeOK
    <2> SUFFICES ASSUME Received, ServerTypes PROVE TypeOK
      OBVIOUS
    <2>1. ASSUME NEW c \in Conn
          PROVE  IsPrefix(buf[c], Stream(c))
      <3>1. PICK m \in Nat : m = Len(buf[c]) /\ m <= Len(Stream(c)) /\ buf[c] = SubSeq(Stream(c), 1, m)
        BY DEF Received
      <3> QED
        BY <3>1, SegmentFacts DEF ServerTypes
    <2> QED
      BY <2>1 DEF TypeOK, ServerTypes
  <1> QED
    BY <1>1, <1>2, <1>3, PTL DEF Spec

-----------------------------------------------------------------------------
(***************************************************************************)
(* One request per connection, and no more connections than uuids          *)
(***************************************************************************)
Accepted == {c \in Conn : state[c] # "new"}

\* The uuids given out are those below the number of connections accepted, and
\* under its own a connection finds the HttpConnection made for it.
OwnContext ==
  /\ Cardinality(Accepted) < UuidMod => m_conn_uuid_generator = Cardinality(Accepted)
  /\ \A c \in Accepted :
       /\ context[c] < Cardinality(Accepted)
       /\ context[c] \in DOMAIN sm_httpMap /\ sm_httpMap[context[c]] = c

\* What is sent on a connection is one answer, when all of its request is there.
AnsweredWhenWhole ==
  \A c \in Conn :
    \/ replies[c] = <<>>
    \/ /\ replies[c] = <<replies[c][1]>>
       /\ Len(buf[c]) = Len(Stream(c)) /\ Len(script[c]) = 1
       /\ replies[c][1].url = Url(c, 1) /\ replies[c][1].body = Body(c, 1)

\* One connection more is accepted: it gets a uuid that nobody has.
LEMMA AcceptStep ==
  ASSUME IsFiniteSet(Conn), Cardinality(Conn) <= UuidMod, ServerTypes, OwnContext,
         NEW c \in Conn, Connect(c)
  PROVE  OwnContext'
  <1>1. Accepted \subseteq Conn /\ c \notin Accepted /\ Accepted' = Accepted \cup {c}
    BY DEF Accepted, Connect, ServerTypes
  <1>2. PICK k \in Nat : k = Cardinality(Accepted) /\ IsFiniteSet(Accepted)
    BY <1>1, FS_Subset, FS_CardinalityType
  <1>3. Cardinality(Accepted \cup {c}) = k + 1
    BY <1>1, <1>2, FS_AddElement
  <1>4. k + 1 <= UuidMod
    <2>1. Accepted \cup {c} \in SUBSET Conn
      BY <1>1
    <2>2. Cardinality(Accepted \cup {c}) <= Cardinality(Conn) /\ Cardinality(Conn) \in Nat
      BY <2>1, SubsetCount
    <2> QED
      BY <1>3, <2>2, HttpServerAssumption
  <1>5. UuidMod \in Nat
    BY HttpServerAssumption
  <1>6. m_conn_uuid_generator = k /\ k \in 0 .. UuidMod - 1
    BY <1>2, <1>4, <1>5 DEF OwnContext, ServerTypes
  <1>7. k + 1 < UuidMod => m_conn_uuid_generator' = k + 1
    BY <1>6, UuidFacts DEF Connect
  <1>8. ASSUME NEW d \in Accepted'
        PROVE  context'[d] < k + 1 /\ context'[d] \in DOMAIN sm_httpMap' /\ sm_httpMap'[context'[d]] = d
    <2>1. CASE d = c
      <3>1. context'[c] = k
        BY <1>6 DEF Connect, ServerTypes
      <3> QED
        BY <1>2, <1>6, <2>1, <3>1 DEF Connect
    <2>2. CASE d # c
      <3>1. d \in Accepted /\ d \in Conn
        BY <1>1, <2>2
      <3>2. context'[d] = context[d] /\ context[d] \in Nat
        BY <2>2, <3>1 DEF Connect, ServerTypes
      <3>3. context[d] < k /\ context[d] \in DOMAIN sm_httpMap /\ sm_httpMap[context[d]] = d
        BY <1>2, <3>1 DEF OwnContext
      <3>4. context[d] # k /\ context[d] < k + 1
        BY <1>2, <3>2, <3>3
      <3> QED
        BY <1>6, <3>2, <3>3, <3>4 DEF Connect
    <2> QED
      BY <2>1, <2>2
  <1>9. Cardinality(Accepted') = k + 1
    BY <1>1, <1>3
  <1> QED
    BY <1>7, <1>8, <1>9 DEF OwnContext

\* Each step leaves an open connection its own HttpConnection, as long as no uuid
\* comes back.
LEMMA OwnContextStep ==
  ASSUME IsFiniteSet(Conn), Cardinality(Conn) <= UuidMod, ServerTypes, OwnContext, [Next]_vars
  PROVE  OwnContext'
  <1>1. ASSUME NEW c \in Conn, Disconnect(c)
        PROVE  OwnContext'
    <2>1. Accepted' = Accepted
      BY <1>1 DEF Accepted, Disconnect, ServerTypes
    <2> QED
      BY <1>1, <2>1 DEF OwnContext, Disconnect
  <1>2. ASSUME UNCHANGED <<state, context, sm_httpMap, m_conn_uuid_generator>>
        PROVE  OwnContext'
    <2>1. Accepted' = Accepted
      BY <1>2 DEF Accepted
    <2> QED
      BY <1>2, <2>1 DEF OwnContext
  <1> QED
    BY <1>1, <1>2, AcceptStep DEF Next, Deliver, Message, vars

\* A segment is answered, if at all, on the connection it arrived on, and only
\* when it brings the last token of the stream.
LEMMA AnswerStep ==
  ASSUME \A s \in Script : Len(s) <= 1, ServerTypes, Received, OwnContext, AnsweredWhenWhole,
         NEW c \in Conn, NEW n \in 1 .. Len(Stream(c)), Message(c, n)
  PROVE  AnsweredWhenWhole'
  <1>1. UNCHANGED script
    BY DEF Message
  <1>2. \A d : Stream(d)' = Stream(d) /\ Url(d, 1)' = Url(d, 1) /\ Body(d, 1)' = Body(d, 1)
    BY <1>1, SameStream
  <1>3. PICK m \in Nat : /\ m = Len(buf[c]) + n /\ m <= Len(Stream(c))
                         /\ buf' = [buf EXCEPT ![c] = SubSeq(Stream(c), 1, m)]
    <2>1. Len(buf[c]) \in Nat /\ n \in Nat
      BY DEF Received
    <2>2. /\ Len(buf[c]) + n <= Len(Stream(c))
          /\ buf' = [buf EXCEPT ![c] = SubSeq(Stream(c), 1, Len(buf[c]) + n)]
      BY DEF Message, Arrive
    <2>3. Len(buf[c]) + n \in Nat
      BY <2>1
    <2> QED
      BY <2>2, <2>3
  <1>4. Len(Stream(c)) \in Nat /\ buf'[c] = SubSeq(Stream(c), 1, m) /\ Len(buf'[c]) = m
    BY <1>3, SegmentFacts DEF ServerTypes, Received
  <1>5. Len(script[c]) = 1
    <2>1. PICK k \in Nat : k = Len(script[c]) /\ k <= 1
      BY Scripts DEF ServerTypes
    <2>2. Len(script[c]) # 0
      <3> SUFFICES ASSUME Len(script[c]) = 0 PROVE FALSE
        OBVIOUS
      <3>1. Stream(c) = <<>>
        BY StreamFacts DEF ServerTypes
      <3>2. Len(Stream(c)) = 0
        BY <3>1
      <3> QED
        BY <3>2
    <2>3. k # 0
      BY <2>1, <2>2
    <2>4. \A j \in Nat : j <= 1 /\ j # 0 => j = 1
      OBVIOUS
    <2>5. k = 1
      BY <2>1, <2>3, <2>4
    <2> QED
      BY <2>1, <2>5
  <1>6. sm_httpMap[context[c]] = c
    BY DEF Message, Arrive, Accepted, OwnContext
  <1>7. PICK p : p = ParseTokens(buf'[c])
    OBVIOUS
  <1>8. PICK r : r = [route |-> Route(p), url |-> p.url, body |-> p.body]
    OBVIOUS
  <1>9. replies' = IF p.read_all THEN [replies EXCEPT ![c] = Append(replies[c], r)] ELSE replies
    BY <1>6, <1>7, <1>8 DEF Message, OnRead
  <1>10. /\ p.read_all <=> m = Len(Stream(c))
         /\ m = Len(Stream(c)) => p.url = Url(c, 1) /\ p.body = Body(c, 1)
    BY <1>3, <1>4, <1>5, <1>7, OneRequestFacts DEF ServerTypes
  <1>11. replies[c] = <<>>
    <2>1. Len(buf[c]) # Len(Stream(c))
      BY <1>3, <1>4 DEF Received
    <2> QED
      BY <2>1 DEF AnsweredWhenWhole
  <1>12. ASSUME NEW d \in Conn
         PROVE  \/ replies'[d] = <<>>
                \/ /\ replies'[d] = <<replies'[d][1]>>
                   /\ Len(buf'[d]) = Len(Stream(d)) /\ Len(script'[d]) = 1
                   /\ replies'[d][1].url = Url(d, 1) /\ replies'[d][1].body = Body(d, 1)
    <2>1. CASE d # c
      <3>1. replies'[d] = replies[d] /\ buf'[d] = buf[d]
        BY <1>3, <1>9, <2>1 DEF ServerTypes, Received
      <3> QED
        BY <1>1, <3>1 DEF AnsweredWhenWhole
    <2>2. CASE d = c /\ ~p.read_all
      BY <1>9, <1>11, <2>2
    <2>3. CASE d = c /\ p.read_all
      <3>1. replies'[d] = Append(<<>>, r)
        BY <1>9, <1>11, <2>3 DEF ServerTypes
      <3>2. Append(<<>>, r) = <<r>>
        OBVIOUS
      <3>3. replies'[d] = <<r>> /\ replies'[d][1] = r
        BY <3>1, <3>2
      <3>4. r.url = Url(d, 1) /\ r.body = Body(d, 1)
        BY <1>8, <1>10, <2>3
      <3> QED
        BY <1>1, <1>4, <1>5, <1>10, <2>3, <3>3, <3>4
    <2> QED
      BY <2>1, <2>2, <2>3
  <1> QED
    BY <1>2, <1>12 DEF AnsweredWhenWhole

\* Each step keeps it that a client has one answer at most, and only to a whole
\* request.
LEMMA AnsweredStep ==
  ASSUME \A s \in Script : Len(s) <= 1, ServerTypes, Received, OwnContext, AnsweredWhenWhole,
         [Next]_vars
  PROVE  AnsweredWhenWhole'
  <1>1. ASSUME UNCHANGED <<script, buf, replies>>
        PROVE  AnsweredWhenWhole'
    <2>1. \A d : Stream(d)' = Stream(d) /\ Url(d, 1)' = Url(d, 1) /\ Body(d, 1)' = Body(d, 1)
      BY <1>1, SameStream
    <2> QED
      BY <1>1, <2>1 DEF AnsweredWhenWhole
  <1> QED
    BY <1>1, AnswerStep DEF Next, Connect, Disconnect, Deliver, vars

\* The invariant of a server whose clients send one request each.
LEMMA ServerInv ==
  ASSUME IsFiniteSet(Conn), Cardinality(Conn) <= UuidMod, \A s \in Script : Len(s) <= 1
  PROVE  Spec => [](ServerTypes /\ AnsweredWhenWhole)
  <1>1. Init => Received /\ ServerTypes
    BY InitReceived, InitServerTypes
  <1>2. Init => OwnContext /\ AnsweredWhenWhole
    <2> SUFFICES ASSUME Init PROVE OwnContext /\ AnsweredWhenWhole
      OBVIOUS
    <2>1. Accepted = {}
      BY DEF Init, Accepted
    <2>2. OwnContext
      BY <2>1, FS_EmptySet DEF Init, OwnContext
    <2>3. AnsweredWhenWhole
      BY DEF Init, AnsweredWhenWhole
    <2> QED
      BY <2>2, <2>3
  <1>3. Received /\ ServerTypes /\ OwnContext /\ AnsweredWhenWhole /\ [Next]_vars
          => (Received /\ ServerTypes /\ OwnContext /\ AnsweredWhenWhole)'
    BY ReceivedStep, ServerTypesStep, OwnContextStep, AnsweredStep DEF ServerTypes
  <1> QED
    BY <1>1, <1>2, <1>3, PTL DEF Spec

\* However its bytes are cut up, the request of a client that sends one is handled
\* at most once, although onMessage parses the whole buffer for each segment: it is
\* a whole message for the last segment only.
THEOREM RequestsHandledOnce ==
  ASSUME IsFiniteSet(Conn), Cardinality(Conn) <= UuidMod, \A s \in Script : Len(s) <= 1
  PROVE  Spec => []HandledAtMostOnce
  <1>1. ServerTypes /\ AnsweredWhenWhole => HandledAtMostOnce
    <2> SUFFICES ASSUME ServerTypes, AnsweredWhenWhole, NEW c \in Conn
                 PROVE  Len(replies[c]) <= Len(script[c])
      BY DEF HandledAtMostOnce
    <2>1. CASE replies[c] = <<>>
      <3>1. Len(replies[c]) = 0
        BY <2>1
      <3> QED
        BY <3>1, Scripts DEF ServerTypes
    <2>2. CASE replies[c] # <<>>
      <3>1. replies[c] = <<replies[c][1]>> /\ Len(script[c]) = 1
        BY <2>2 DEF AnsweredWhenWhole
      <3>2. Len(<<replies[c][1]>>) = 1
        OBVIOUS
      <3>3. Len(replies[c]) = 1
        BY <3>1, <3>2
      <3> QED
        BY <3>1, <3>3
    <2> QED
      BY <2>1, <2>2
  <1> QED
    BY <1>1, ServerInv, PTL

\* What a handler is given, to answer on a connection, is the request of that
\* connection's client, whole and unmixed: HttpConnection is found in sm_httpMap
\* under a uuid no other connection was given before m_conn_uuid_generator wraps.
THEOREM OneRequestExtracted ==
  ASSUME IsFiniteSet(Conn), Cardinality(Conn) <= UuidMod, \A s \in Script : Len(s) <= 1
  PROVE  Spec => []ExtractsOneRequest
  <1>1. ServerTypes /\ AnsweredWhenWhole => ExtractsOneRequest
    <2> SUFFICES ASSUME ServerTypes, AnsweredWhenWhole, NEW c \in Conn, NEW k \in DOMAIN replies[c]
                 PROVE  \E i \in DOMAIN script[c] :
                          replies[c][k].url = Url(c, i) /\ replies[c][k].body = Body(c, i)
      BY DEF ExtractsOneRequest
    <2>1. replies[c] # <<>>
      <3> SUFFICES ASSUME replies[c] = <<>> PROVE FALSE
        OBVIOUS
      <3>1. DOMAIN <<>> = {}
        OBVIOUS
      <3> QED
        BY <3>1
    <2>2. /\ replies[c] = <<replies[c][1]>> /\ Len(script[c]) = 1
          /\ replies[c][1].url = Url(c, 1) /\ replies[c][1].body = Body(c, 1)
      BY <2>1 DEF AnsweredWhenWhole
    <2>3. DOMAIN <<replies[c][1]>> = {1}
      OBVIOUS
    <2>4. k = 1
      BY <2>2, <2>3
    <2>5. 1 \in DOMAIN script[c]
      BY <2>2, Scripts DEF ServerTypes
    <2> QED
      BY <2>2, <2>4, <2>5
  <1> QED
    BY <1>1, ServerInv, PTL
=============================================================================
