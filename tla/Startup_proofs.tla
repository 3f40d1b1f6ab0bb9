--------------------------- MODULE Startup_proofs ---------------------------
(***************************************************************************)
(* Theorems about main's way to a serving process, for any configuration   *)
(* file and any servers.                                                   *)
(*                                                                         *)
(* First what the reader makes of a line, and of a file; then what         *)
(* CStrExplode makes of a list; and then main and its two managers.        *)
(***************************************************************************)
EXTENDS Startup, Lemmas

-----------------------------------------------------------------------------
(***************************************************************************)
(* One line                                                                *)
(***************************************************************************)
\* A piece of a sequence, which may be empty.
LEMMA PieceFacts ==
  ASSUME NEW S, NEW s \in Seq(S), NEW a \in 1 .. Len(s) + 2, NEW b \in 0 .. Len(s)
  PROVE  /\ SubSeq(s, a, b) \in Seq(S)
         /\ a <= b => Len(SubSeq(s, a, b)) = b - a + 1
         /\ b < a => SubSeq(s, a, b) = <<>>
         /\ \A k \in 1 .. b - a + 1 : SubSeq(s, a, b)[k] = s[a + k - 1]
  OBVIOUS

\* There is a first place, inside the sequence or just behind it.
LEMMA FirstFacts ==
  ASSUME NEW S, NEW s \in Seq(S), NEW c
  PROVE  FirstOf(s, c) \in 1 .. Len(s) + 1
  <1> DEFINE places == {i \in 1 .. Len(s) + 1 : i = Len(s) + 1 \/ s[i] = c}
  <1>1. Len(s) \in Nat
    OBVIOUS
  <1>2. places \in SUBSET Nat /\ places # {}
    BY <1>1
  <1>3. PICK x \in places : \A y \in places : x <= y
    <2> HIDE DEF places
    <2> QED
      BY <1>2, LeastElement
  <1>4. x \in 1 .. Len(s) + 1 /\ (x = Len(s) + 1 \/ s[x] = c)
    OBVIOUS
  <1>5. \A j \in 1 .. x - 1 : s[j] # c
    <2> SUFFICES ASSUME NEW j \in 1 .. x - 1, s[j] = c PROVE FALSE
      OBVIOUS
    <2>1. j \in places /\ j < x
      BY <1>1, <1>4
    <2> HIDE DEF places
    <2> QED
      BY <1>1, <1>3, <1>4, <2>1
  <1> QED
    BY <1>4, <1>5 DEF FirstOf

\* A finite set of numbers has a least and a greatest element.
LEMMA Extremes ==
  ASSUME NEW n \in Nat, NEW T \in SUBSET (1 .. n), T # {}
  PROVE  /\ Min(T) \in T /\ \A y \in T : Min(T) <= y
         /\ Max(T) \in T /\ \A y \in T : y <= Max(T)
  <1>1. T \in SUBSET Nat
    OBVIOUS
  <1>2. PICK x \in T : \A y \in T : x <= y
    BY <1>1, LeastElement
  <1> DEFINE U == {n - y : y \in T}
  <1>3. U \in SUBSET Nat /\ U # {}
    OBVIOUS
  <1>4. PICK m \in U : \A y \in U : m <= y
    <2> HIDE DEF U
    <2> QED
      BY <1>3, LeastElement
  <1>5. PICK z \in T : m = n - z
    OBVIOUS
  <1>6. \A y \in T : y <= z
    <2> SUFFICES ASSUME NEW y \in T PROVE y <= z
      OBVIOUS
    <2>1. n - z <= n - y /\ y \in 1 .. n /\ z \in 1 .. n
      BY <1>4, <1>5
    <2> HIDE DEF U
    <2> QED
      BY <2>1
  <1> QED
    BY <1>2, <1>6 DEF Min, Max

\* Trimming leaves what stands between the spaces, if anything does.
LEMMA TrimFacts ==
  ASSUME NEW S, NEW s \in Seq(S)
  PROVE  /\ TrimSpace(s) \in Seq(S)
         /\ TrimSpace(s) = <<>> => Core(s) = {}
         /\ TrimSpace(s) # <<>> => Core(s) = {TrimSpace(s)}
  <1>1. PICK n \in Nat : n = Len(s) /\ DOMAIN s = 1 .. n
    OBVIOUS
  <1>2. PICK ink \in SUBSET (1 .. n) : ink = {i \in DOMAIN s : s[i] # " "}
    BY <1>1
  <1>3. \A i \in 1 .. n : i \in ink <=> s[i] # " "
    BY <1>1, <1>2
  <1>4. CASE ink = {}
    <2>1. TrimSpace(s) = <<>>
      BY <1>2, <1>4 DEF TrimSpace
    <2>2. Core(s) = {}
      BY <1>2, <1>4 DEF Core
    <2> QED
      BY <2>1, <2>2
  <1>5. CASE ink # {}
    <2>1. PICK lo \in 1 .. n, hi \in 1 .. n :
            /\ lo = Min(ink) /\ hi = Max(ink) /\ lo \in ink /\ hi \in ink
            /\ \A y \in ink : lo <= y /\ y <= hi
      <3>1. /\ Min(ink) \in ink /\ Max(ink) \in ink
            /\ \A y \in ink : Min(ink) <= y /\ y <= Max(ink)
        BY <1>5, Extremes
      <3> QED
        BY <3>1
    <2>2. TrimSpace(s) = SubSeq(s, lo, hi)
      BY <1>2, <1>5, <2>1 DEF TrimSpace
    <2>3. lo <= hi
      BY <2>1
    <2>4. SubSeq(s, lo, hi) \in Seq(S) /\ SubSeq(s, lo, hi) # <<>>
      <3>1. SubSeq(s, lo, hi) \in Seq(S) /\ Len(SubSeq(s, lo, hi)) = hi - lo + 1
        BY <1>1, <2>3, PieceFacts
      <3>2. Len(SubSeq(s, lo, hi)) # 0
        BY <2>3, <3>1
      <3>3. SubSeq(s, lo, hi) # <<>>
        <4> SUFFICES ASSUME SubSeq(s, lo, hi) = <<>> PROVE FALSE
          OBVIOUS
        <4>1. Len(<<>>) = 0
          OBVIOUS
        <4> QED
          BY <3>2, <4>1
      <3> QED
        BY <3>1, <3>3
    <2>5. (\A k \in 1 .. lo - 1 : s[k] = " ") /\ (\A k \in hi + 1 .. n : s[k] = " ")
      <3>1. ASSUME NEW k \in 1 .. lo - 1 PROVE s[k] = " "
        <4>1. k \in 1 .. n /\ ~(lo <= k)
          BY <2>1
        <4> QED
          BY <1>3, <2>1, <4>1
      <3>2. ASSUME NEW k \in hi + 1 .. n PROVE s[k] = " "
        <4>1. k \in 1 .. n /\ ~(k <= hi)
          BY <2>1
        <4> QED
          BY <1>3, <2>1, <4>1
      <3> QED
        BY <3>1, <3>2
    <2> DEFINE spans == {v \in (DOMAIN s) \X (DOMAIN s) :
                  /\ v[1] <= v[2] /\ s[v[1]] # " " /\ s[v[2]] # " "
                  /\ (\A k \in 1 .. v[1] - 1 : s[k] = " ") /\ (\A k \in v[2] + 1 .. Len(s) : s[k] = " ")}
    <2>6. Core(s) = {SubSeq(s, w[1], w[2]) : w \in spans}
      BY DEF Core
    <2>7. <<lo, hi>> \in spans
      BY <1>1, <1>3, <2>1, <2>3, <2>5
    <2>8. ASSUME NEW w \in spans
          PROVE  w[1] = lo /\ w[2] = hi
      <3>1. PICK a \in 1 .. n, b \in 1 .. n : w[1] = a /\ w[2] = b
        BY <1>1
      <3>2. s[a] # " " /\ s[b] # " " /\ (\A k \in 1 .. a - 1 : s[k] = " ") /\ (\A k \in b + 1 .. n : s[k] = " ")
        BY <1>1, <3>1
      <3> HIDE DEF spans
      <3>3. lo <= a /\ b <= hi
        BY <1>3, <2>1, <3>2
      <3>4. lo \notin 1 .. a - 1 /\ hi \notin b + 1 .. n
        BY <1>3, <2>1, <3>2
      <3>5. a = lo /\ b = hi
        BY <3>3, <3>4
      <3> QED
        BY <3>1, <3>5
    <2>9. Core(s) = {SubSeq(s, lo, hi)}
      <3> HIDE DEF spans
      <3>1. SubSeq(s, lo, hi) \in Core(s)
        <4>1. <<lo, hi>>[1] = lo /\ <<lo, hi>>[2] = hi
          OBVIOUS
        <4> QED
          BY <2>6, <2>7, <4>1
      <3>2. \A v \in Core(s) : v = SubSeq(s, lo, hi)
        BY <2>6, <2>8
      <3> QED
        BY <3>1, <3>2
    <2> QED
      BY <2>2, <2>4, <2>9
  <1> QED
    BY <1>4, <1>5

\* What a line says of a key is what _ParseLine makes of the line without comment.
LEMMA LineFacts ==
  ASSUME NEW S, NEW line \in Seq(S)
  PROVE  LET p == Pair(StripComment(line))
         IN  /\ p.key \in Seq(S) /\ p.value \in Seq(S)
             /\ \A key : Said(line, key) =
                  IF key = p.key /\ p.key # <<>> /\ p.value # <<>> THEN {p.value} ELSE {}
  <1>1. PICK body \in Seq(S) : body = StripComment(line) /\ body = SubSeq(line, 1, FirstOf(line, "#") - 1)
    <2>1. FirstOf(line, "#") \in 1 .. Len(line) + 1
      BY FirstFacts
    <2>2. FirstOf(line, "#") - 1 \in 0 .. Len(line) /\ 1 \in 1 .. Len(line) + 2
      BY <2>1
    <2>3. SubSeq(line, 1, FirstOf(line, "#") - 1) \in Seq(S)
      BY <2>2, PieceFacts
    <2> QED
      BY <2>3 DEF StripComment
  <1>2. PICK eq \in 1 .. Len(body) + 1 : eq = FirstOf(body, "=")
    BY FirstFacts
  <1>3. PICK k \in Seq(S), v \in Seq(S) : /\ k = SubSeq(body, 1, eq - 1)
                                         /\ v = SubSeq(body, eq + 1, Len(body))
    <2>1. /\ Len(body) \in Nat /\ eq - 1 \in 0 .. Len(body) /\ eq + 1 \in 1 .. Len(body) + 2
          /\ Len(body) \in 0 .. Len(body) /\ 1 \in 1 .. Len(body) + 2
      OBVIOUS
    <2>2. SubSeq(body, 1, eq - 1) \in Seq(S)
      BY <2>1, PieceFacts
    <2>3. SubSeq(body, eq + 1, Len(body)) \in Seq(S)
      BY <2>1, PieceFacts
    <2> QED
      BY <2>2, <2>3
  <1>4. Pair(body) = [key |-> TrimSpace(k), value |-> TrimSpace(v)]
    BY <1>2, <1>3 DEF Pair
  <1>5. ASSUME NEW key
        PROVE  Said(line, key) = IF key \in Core(k) THEN Core(v) ELSE {}
    BY <1>1, <1>2, <1>3 DEF Said
  <1>6. TrimSpace(k) \in Seq(S) /\ TrimSpace(v) \in Seq(S)
    BY TrimFacts
  <1>7. /\ TrimSpace(k) = <<>> => Core(k) = {}
        /\ TrimSpace(k) # <<>> => Core(k) = {TrimSpace(k)}
    BY TrimFacts
  <1>8. /\ TrimSpace(v) = <<>> => Core(v) = {}
        /\ TrimSpace(v) # <<>> => Core(v) = {TrimSpace(v)}
    BY TrimFacts
  <1>9. \A key : Said(line, key) =
          IF key = TrimSpace(k) /\ TrimSpace(k) # <<>> /\ TrimSpace(v) # <<>> THEN {TrimSpace(v)} ELSE {}
    BY <1>5, <1>7, <1>8
  <1> QED
    BY <1>1, <1>4, <1>6, <1>9

-----------------------------------------------------------------------------
(***************************************************************************)
(* A file                                                                  *)
(***************************************************************************)
\* What the reader's map may be.
Maps == UNION {[D -> Text] : D \in SUBSET Text}

\* What a file says of a key under the reader's map.
Found(map, key) == IF key \in DOMAIN map THEN map[key] ELSE NULL

\* A pair with a key and a value is added when the key is new; nothing is changed.
LEMMA InsertFacts ==
  ASSUME NEW map \in Maps, NEW p, p.key \in Text, p.value \in Text
  PROVE  /\ Insert(map, p) \in Maps
         /\ \A key : key \in DOMAIN Insert(map, p) <=>
              key \in DOMAIN map \/ (key = p.key /\ p.key # <<>> /\ p.value # <<>>)
         /\ \A key \in DOMAIN map : Insert(map, p)[key] = map[key]
         /\ p.key # <<>> /\ p.value # <<>> /\ p.key \notin DOMAIN map => Insert(map, p)[p.key] = p.value
  <1>1. PICK D \in SUBSET Text : map \in [D -> Text]
    BY DEF Maps
  <1>2. CASE p.key = <<>> \/ p.value = <<>>
    BY <1>2 DEF Insert
  <1>3. CASE ~(p.key = <<>> \/ p.value = <<>>)
    <2>1. Insert(map, p) = [k \in D \cup {p.key} |-> IF k \in D THEN map[k] ELSE p.value]
      BY <1>1, <1>3 DEF Insert, Inserted
    <2>2. Insert(map, p) \in [D \cup {p.key} -> Text] /\ D \cup {p.key} \in SUBSET Text
      BY <1>1, <2>1
    <2>3. Insert(map, p) \in Maps
      BY <2>2 DEF Maps
    <2> QED
      BY <1>1, <1>3, <2>1, <2>3
  <1> QED
    BY <1>2, <1>3

\* An empty line.
LEMMA EmptyFacts ==
  ASSUME NEW S, NEW s \in Seq(S), Len(s) = 0
  PROVE  s = <<>>
  OBVIOUS

\* An empty line has no key.
LEMMA NothingFacts == Pair(StripComment(<<>>)).key = <<>>
  <1>1. <<>> \in Seq({}) /\ Len(<<>>) = 0 /\ SubSeq(<<>>, 1, 0) = <<>>
    OBVIOUS
  <1>2. ASSUME NEW c PROVE FirstOf(<<>>, c) = 1
    <2>1. FirstOf(<<>>, c) \in 1 .. Len(<<>>) + 1
      BY <1>1, FirstFacts
    <2> QED
      BY <1>1, <2>1
  <1>3. StripComment(<<>>) = <<>>
    <2>1. FirstOf(<<>>, "#") - 1 = 0
      BY <1>2
    <2> QED
      BY <1>1, <2>1 DEF StripComment
  <1>4. TrimSpace(<<>>) = <<>>
    BY DEF TrimSpace
  <1>5. FirstOf(<<>>, "=") - 1 = 0
    BY <1>2
  <1> QED
    BY <1>1, <1>3, <1>4, <1>5 DEF Pair

\* One line that fgets reads at once.
LEMMA ReadLineFacts ==
  ASSUME NEW map \in Maps, NEW line \in Text
  PROVE  /\ ReadLine(map, line) \in Maps
         /\ Len(line) <= LineMax => ReadLine(map, line) = Insert(map, Pair(StripComment(line)))
  <1>1. PICK L \in Nat, M \in Nat \ {0} : L = Len(line) /\ M = LineMax
    BY StartupAssumption DEF Text
  <1>2. PICK n \in Nat : /\ n = (L + M - 1) \div M
                         /\ L = 0 => n = 0
                         /\ L \in 1 .. M => n = 1
                         /\ \A i \in 1 .. n : (i - 1) * M + 1 \in 1 .. L
    <2>1. (L + M - 1) \div M \in Nat
      BY <1>1
    <2>2. L = 0 => (L + M - 1) \div M = 0
      BY <1>1
    <2>3. L \in 1 .. M => (L + M - 1) \div M = 1
      BY <1>1
    <2>4. \A i \in 1 .. (L + M - 1) \div M : (i - 1) * M + 1 \in 1 .. L
      BY <1>1
    <2> QED
      BY <2>1, <2>2, <2>3, <2>4
  <1>3. PICK parts \in Seq(Text) :
          parts = Chunks(line) /\ Len(parts) = n /\ (L \in 1 .. M => parts[1] = line)
    <2>1. ASSUME NEW i \in 1 .. n
          PROVE  SubSeq(line, (i - 1) * M + 1, IF i * M < L THEN i * M ELSE L) \in Text
      <3>1. (i - 1) * M + 1 \in 1 .. Len(line) + 2
        BY <1>1, <1>2
      <3>2. (IF i * M < L THEN i * M ELSE L) \in 0 .. Len(line)
        BY <1>1
      <3> HIDE DEF Text
      <3> QED
        BY <3>1, <3>2, PieceFacts DEF Text
    <2>2. Chunks(line) = [i \in 1 .. n |-> SubSeq(line, (i - 1) * M + 1, IF i * M < L THEN i * M ELSE L)]
      BY <1>1, <1>2 DEF Chunks
    <2>3. Chunks(line) \in Seq(Text) /\ Len(Chunks(line)) = n
      BY <2>1, <2>2
    <2>4. L \in 1 .. M => Chunks(line)[1] = line
      <3> SUFFICES ASSUME L \in 1 .. M PROVE Chunks(line)[1] = line
        OBVIOUS
      <3>1. n = 1 /\ (1 - 1) * M + 1 = 1 /\ (IF 1 * M < L THEN 1 * M ELSE L) = L
        BY <1>2
      <3>2. Chunks(line)[1] = SubSeq(line, 1, L)
        BY <2>2, <3>1
      <3>3. SubSeq(line, 1, L) = line
        BY <1>1 DEF Text
      <3> QED
        BY <3>2, <3>3
    <2> QED
      BY <2>3, <2>4
  <1>4. PICK P : P = [j \in 1 .. n |-> Pair(StripComment(parts[j]))]
    OBVIOUS
  <1>5. \A j \in 1 .. n : P[j] = Pair(StripComment(parts[j])) /\ P[j].key \in Text /\ P[j].value \in Text
    <2> SUFFICES ASSUME NEW j \in 1 .. n
                 PROVE  P[j] = Pair(StripComment(parts[j])) /\ P[j].key \in Text /\ P[j].value \in Text
      OBVIOUS
    <2>1. parts[j] \in Text /\ P[j] = Pair(StripComment(parts[j]))
      BY <1>3, <1>4
    <2> QED
      BY <2>1, LineFacts DEF Text
  <1> DEFINE G == [j \in 1 .. n |-> [q \in Maps |-> Insert(q, P[j])]]
             after == CHOOSE f : f = [j \in 0 .. n |->
                        IF j = 0 THEN map ELSE Insert(f[j - 1], Pair(StripComment(parts[j])))]
  <1>6. ReadLine(map, line) = after[n]
    BY <1>3 DEF ReadLine
  <1>7. G \in [1 .. n -> [Maps -> Maps]]
    <2>1. \A j \in 1 .. n : \A q \in Maps : Insert(q, P[j]) \in Maps
      BY <1>5, InsertFacts
    <2> QED
      BY <2>1
  <1>8. PICK f \in [0 .. n -> Maps] : Unfolds(f, n, map, G)
    <2> HIDE DEF G, after
    <2> QED
      BY <1>7, RecursiveFunction
  <1>9. f[0] = map /\ \A j \in 1 .. n : f[j] = Insert(f[j - 1], P[j])
    <2>1. \A j \in 1 .. n : f[j - 1] \in Maps
      BY <1>8
    <2> QED
      BY <1>8, <2>1 DEF Unfolds
  <1>10. f = [j \in 0 .. n |-> IF j = 0 THEN map ELSE Insert(f[j - 1], Pair(StripComment(parts[j])))]
    <2> HIDE DEF after, G
    <2>1. ASSUME NEW j \in 0 .. n
          PROVE  f[j] = IF j = 0 THEN map ELSE Insert(f[j - 1], Pair(StripComment(parts[j])))
      <3>1. j = 0 \/ j \in 1 .. n
        OBVIOUS
      <3> QED
        BY <1>5, <1>9, <3>1
    <2>2. f = [j \in 0 .. n |-> f[j]]
      OBVIOUS
    <2> QED
      BY <2>1, <2>2
  <1>11. after = [j \in 0 .. n |-> IF j = 0 THEN map ELSE Insert(after[j - 1], Pair(StripComment(parts[j])))]
    BY <1>10
  <1>12. PICK g : g = after
    OBVIOUS
  <1> HIDE DEF after, G
  <1>13. g[0] = map /\ \A j \in 1 .. n : g[j] = Insert(g[j - 1], P[j])
    <2>1. \A j \in 0 .. n : g[j] = IF j = 0 THEN map ELSE Insert(g[j - 1], Pair(StripComment(parts[j])))
      BY <1>11, <1>12
    <2>2. 0 \in 0 .. n /\ \A j \in 1 .. n : j \in 0 .. n /\ j # 0
      OBVIOUS
    <2> QED
      BY <1>5, <2>1, <2>2
  <1> DEFINE T == {j \in 0 .. n : g[j] \in Maps}
  <1>14. T = 0 .. n
    <2>1. 0 \in T
      BY <1>13
    <2>2. ASSUME NEW j \in T, j < n
          PROVE  j + 1 \in T
      <3>1. j + 1 \in 1 .. n /\ (j + 1) - 1 = j /\ g[j] \in Maps
        BY <2>2
      <3>2. g[j + 1] = Insert(g[j], P[j + 1])
        BY <1>13, <3>1
      <3>3. g[j + 1] \in Maps
        BY <1>5, <3>1, <3>2, InsertFacts
      <3> QED
        BY <3>1, <3>3
    <2>3. T \in SUBSET (0 .. n)
      OBVIOUS
    <2> HIDE DEF T
    <2> QED
      BY <2>1, <2>2, <2>3, BoundedInduction
  <1>15. g[n] \in Maps
    BY <1>14
  <1>16. ASSUME L <= M
         PROVE  g[n] = Insert(map, Pair(StripComment(line)))
    <2>1. CASE L = 0
      <3>1. line = <<>>
        BY <1>1, <2>1, EmptyFacts DEF Text
      <3>3. Pair(StripComment(line)).key = <<>>
        BY <3>1, NothingFacts
      <3>4. Insert(map, Pair(StripComment(line))) = map
        BY <3>3 DEF Insert
      <3> QED
        BY <1>2, <1>13, <2>1, <3>4
    <2>2. CASE L # 0
      <3>1. n = 1 /\ parts[1] = line
        BY <1>2, <1>3, <1>16, <2>2
      <3>2. 1 \in 1 .. n /\ 1 - 1 = 0
        BY <3>1
      <3>3. g[1] = Insert(g[0], P[1]) /\ P[1] = Pair(StripComment(line))
        BY <1>5, <1>13, <3>1, <3>2
      <3> QED
        BY <1>13, <3>1, <3>3
    <2> QED
      BY <2>1, <2>2
  <1> QED
    BY <1>1, <1>6, <1>12, <1>15, <1>16

\* How the map says what the first k lines say of a key.
Tells(map, f, k, key) ==
  /\ key \in DOMAIN map <=> \E i \in 1 .. k : Said(f[i], key) # {}
  /\ \A i \in 1 .. k : Said(f[i], key) # {} /\ (\A j \in 1 .. i - 1 : Said(f[j], key) = {})
                         => Said(f[i], key) = {map[key]}

\* One line more.
LEMMA TellsStep ==
  ASSUME NEW map \in Maps, NEW f, NEW k \in Nat, NEW key, Tells(map, f, k, key), f[k + 1] \in Text
  PROVE  Tells(Insert(map, Pair(StripComment(f[k + 1]))), f, k + 1, key)
  <1>1. PICK p : p = Pair(StripComment(f[k + 1]))
    OBVIOUS
  <1>2. /\ p.key \in Text /\ p.value \in Text
        /\ Said(f[k + 1], key) = IF key = p.key /\ p.key # <<>> /\ p.value # <<>> THEN {p.value} ELSE {}
    BY <1>1, LineFacts DEF Text
  <1>3. PICK new \in Maps :
          /\ new = Insert(map, p)
          /\ key \in DOMAIN new <=> key \in DOMAIN map \/ Said(f[k + 1], key) # {}
          /\ key \in DOMAIN map => new[key] = map[key]
          /\ Said(f[k + 1], key) # {} /\ key \notin DOMAIN map => Said(f[k + 1], key) = {new[key]}
    <2>1. /\ Insert(map, p) \in Maps
          /\ key \in DOMAIN Insert(map, p) <=>
               key \in DOMAIN map \/ (key = p.key /\ p.key # <<>> /\ p.value # <<>>)
          /\ key \in DOMAIN map => Insert(map, p)[key] = map[key]
          /\ p.key # <<>> /\ p.value # <<>> /\ p.key \notin DOMAIN map => Insert(map, p)[p.key] = p.value
      BY <1>2, InsertFacts
    <2> QED
      BY <1>2, <2>1
  <1>4. \A i \in 1 .. k + 1 : i \in 1 .. k \/ i = k + 1
    OBVIOUS
  <1>5. k + 1 \in 1 .. k + 1 /\ (\A i \in 1 .. k : i \in 1 .. k + 1) /\ (k + 1) - 1 = k
    OBVIOUS
  <1>6. key \in DOMAIN new <=> \E i \in 1 .. k + 1 : Said(f[i], key) # {}
    BY <1>3, <1>4, <1>5 DEF Tells
  <1>7. ASSUME NEW i \in 1 .. k + 1, Said(f[i], key) # {}, \A j \in 1 .. i - 1 : Said(f[j], key) = {}
        PROVE  Said(f[i], key) = {new[key]}
    <2>1. CASE i \in 1 .. k
      BY <1>3, <1>7, <2>1 DEF Tells
    <2>2. CASE i = k + 1
      <3>1. key \notin DOMAIN map
        BY <1>5, <1>7, <2>2 DEF Tells
      <3> QED
        BY <1>3, <1>7, <2>2, <3>1
    <2> QED
      BY <1>4, <2>1, <2>2
  <1> QED
    BY <1>1, <1>3, <1>6, <1>7 DEF Tells

\* The reader's map of a file is well-formed; when no line is too long for fgets,
\* it says of every key what the file says.
LEMMA ConfigFacts ==
  ASSUME NEW f \in Files \ {Missing}
  PROVE  /\ ConfigMap(f) \in Maps
         /\ Fits(f) => \A key : Found(ConfigMap(f), key) = Setting(f, key)
  <1>1. PICK n \in Nat : n = Len(f) /\ DOMAIN f = 1 .. n /\ \A i \in 1 .. n : f[i] \in Text
    BY StartupAssumption
  <1> DEFINE none  == <<>>
             G     == [i \in 1 .. n |-> [q \in Maps |-> ReadLine(q, f[i])]]
             after == CHOOSE a : a = [i \in 0 .. n |-> IF i = 0 THEN <<>> ELSE ReadLine(a[i - 1], f[i])]
  <1>2. ConfigMap(f) = after[n]
    BY <1>1 DEF ConfigMap
  <1>3. none \in Maps
    <2>1. none \in [{} -> Text]
      OBVIOUS
    <2> QED
      BY <2>1 DEF Maps
  <1>4. G \in [1 .. n -> [Maps -> Maps]]
    <2>1. \A i \in 1 .. n : \A q \in Maps : ReadLine(q, f[i]) \in Maps
      BY <1>1, ReadLineFacts
    <2> QED
      BY <2>1
  <1>5. PICK h \in [0 .. n -> Maps] : Unfolds(h, n, none, G)
    <2> HIDE DEF G, after, none
    <2> QED
      BY <1>3, <1>4, RecursiveFunction
  <1>6. h[0] = <<>> /\ \A i \in 1 .. n : h[i] = ReadLine(h[i - 1], f[i])
    <2>1. \A i \in 1 .. n : h[i - 1] \in Maps
      BY <1>5
    <2> QED
      BY <1>5, <2>1 DEF Unfolds
  <1>7. h = [i \in 0 .. n |-> IF i = 0 THEN <<>> ELSE ReadLine(h[i - 1], f[i])]
    <2> HIDE DEF after, G
    <2>1. ASSUME NEW i \in 0 .. n
          PROVE  h[i] = IF i = 0 THEN <<>> ELSE ReadLine(h[i - 1], f[i])
      <3>1. i = 0 \/ i \in 1 .. n
        OBVIOUS
      <3> QED
        BY <1>6, <3>1
    <2>2. h = [i \in 0 .. n |-> h[i]]
      OBVIOUS
    <2> QED
      BY <2>1, <2>2
  <1>8. after = [i \in 0 .. n |-> IF i = 0 THEN <<>> ELSE ReadLine(after[i - 1], f[i])]
    BY <1>7
  <1>9. PICK g : g = after
    OBVIOUS
  <1> HIDE DEF after, G
  <1>10. g[0] = none /\ \A i \in 1 .. n : g[i] = ReadLine(g[i - 1], f[i])
    <2>1. \A i \in 0 .. n : g[i] = IF i = 0 THEN <<>> ELSE ReadLine(g[i - 1], f[i])
      BY <1>8, <1>9
    <2>2. 0 \in 0 .. n /\ \A i \in 1 .. n : i \in 0 .. n /\ i # 0
      OBVIOUS
    <2> QED
      BY <2>1, <2>2
  <1> DEFINE T == {i \in 0 .. n : g[i] \in Maps}
  <1>11. T = 0 .. n
    <2>1. 0 \in T
      BY <1>3, <1>10
    <2>2. ASSUME NEW i \in T, i < n
          PROVE  i + 1 \in T
      <3>1. i + 1 \in 1 .. n /\ (i + 1) - 1 = i /\ g[i] \in Maps
        BY <2>2
      <3>2. g[i + 1] = ReadLine(g[i], f[i + 1])
        BY <1>10, <3>1
      <3>3. g[i + 1] \in Maps
        BY <1>1, <3>1, <3>2, ReadLineFacts
      <3> QED
        BY <3>1, <3>3
    <2>3. T \in SUBSET (0 .. n)
      OBVIOUS
    <2> HIDE DEF T
    <2> QED
      BY <2>1, <2>2, <2>3, BoundedInduction
  <1>12. \A i \in 0 .. n : g[i] \in Maps
    BY <1>11
  <1> HIDE DEF T
  <1>13. ASSUME Fits(f), NEW key
         PROVE  Found(g[n], key) = Setting(f, key)
    <2> DEFINE U == {i \in 0 .. n : Tells(g[i], f, i, key)}
    <2>1. 0 \in U
      <3>1. Tells(none, f, 0, key)
        BY DEF Tells
      <3> QED
        BY <1>10, <3>1
    <2>2. ASSUME NEW i \in U, i < n
          PROVE  i + 1 \in U
      <3>1. i \in Nat /\ i \in 0 .. n /\ i + 1 \in 1 .. n /\ (i + 1) - 1 = i /\ Tells(g[i], f, i, key)
        BY <2>2
      <3>2. g[i + 1] = ReadLine(g[i], f[i + 1]) /\ f[i + 1] \in Text /\ g[i] \in Maps
        BY <1>1, <1>10, <1>12, <3>1
      <3>3. Len(f[i + 1]) <= LineMax
        BY <1>1, <1>13, <3>1 DEF Fits
      <3>4. g[i + 1] = Insert(g[i], Pair(StripComment(f[i + 1])))
        BY <3>2, <3>3, ReadLineFacts
      <3>5. Tells(g[i + 1], f, i + 1, key)
        BY <3>1, <3>2, <3>4, TellsStep
      <3> QED
        BY <3>1, <3>5
    <2>3. U = 0 .. n
      <3>1. U \in SUBSET (0 .. n)
        OBVIOUS
      <3> HIDE DEF U
      <3> QED
        BY <2>1, <2>2, <3>1, BoundedInduction
    <2>4. Tells(g[n], f, n, key)
      BY <2>3
    <2> HIDE DEF U
    <2>5. PICK at \in SUBSET (1 .. n) : at = {i \in DOMAIN f : Said(f[i], key) # {}}
      BY <1>1
    <2>6. \A i \in 1 .. n : i \in at <=> Said(f[i], key) # {}
      BY <1>1, <2>5
    <2>7. Setting(f, key) = IF at = {} THEN NULL ELSE CHOOSE v \in Said(f[Min(at)], key) : TRUE
      BY <2>5 DEF Setting
    <2>8. CASE at = {}
      <3>1. key \notin DOMAIN g[n]
        BY <2>4, <2>6, <2>8 DEF Tells
      <3> QED
        BY <2>7, <2>8, <3>1 DEF Found
    <2>9. CASE at # {}
      <3>1. PICK m \in 1 .. n : m = Min(at) /\ m \in at /\ \A y \in at : m <= y
        <4>1. Min(at) \in at /\ \A y \in at : Min(at) <= y
          BY <2>9, Extremes
        <4> QED
          BY <4>1
      <3>2. \A j \in 1 .. m - 1 : Said(f[j], key) = {}
        <4> SUFFICES ASSUME NEW j \in 1 .. m - 1 PROVE Said(f[j], key) = {}
          OBVIOUS
        <4>1. ~(m <= j) /\ j \in 1 .. n
          OBVIOUS
        <4> QED
          BY <2>6, <3>1, <4>1
      <3>3. Said(f[m], key) = {g[n][key]} /\ key \in DOMAIN g[n]
        BY <2>4, <2>6, <3>1, <3>2 DEF Tells
      <3>4. (CHOOSE v \in {g[n][key]} : TRUE) = g[n][key]
        OBVIOUS
      <3> QED
        BY <2>7, <2>9, <3>1, <3>3, <3>4 DEF Found
    <2> QED
      BY <2>8, <2>9
  <1>14. n \in 0 .. n
    OBVIOUS
  <1> QED
    BY <1>2, <1>9, <1>12, <1>13, <1>14

-----------------------------------------------------------------------------
(***************************************************************************)
(* A list of instances                                                     *)
(***************************************************************************)
\* The separators among the first k characters, and the places items start behind.
IsCut(s, i) == s[i] = ","
Cuts(s, k)  == {i \in 1 .. k : IsCut(s, i)}
Marks(s, k) == {0} \cup Cuts(s, k)

\* No separator among them stands where an item would start.
Clean(s, k) == \A i \in Marks(s, k) : i + 1 \notin Marks(s, k)

\* Neighbours in a set of numbers.
Gaps(C) == {c \in C \X C : c[1] < c[2] /\ ~ \E k \in C : c[1] < k /\ k < c[2]}

Item(s, c)  == SubSeq(s, c[1] + 1, c[2] - 1)
Parts(s, C) == {Item(s, c) : c \in Gaps(C)}
Elements(t) == {t[j] : j \in 1 .. Len(t)}

\* Neighbours are pairs.
LEMMA PairFacts ==
  ASSUME NEW C, NEW c \in Gaps(C)
  PROVE  \E x \in C : \E y \in C : c = <<x, y>>
  <1>1. c \in C \X C
    BY DEF Gaps
  <1> QED
    BY <1>1

\* A number above all the others has the greatest of them as its neighbour.
LEMMA GapsStep ==
  ASSUME NEW C \in SUBSET Nat, NEW a \in C, \A i \in C : i <= a, NEW z \in Nat, a < z
  PROVE  Gaps(C \cup {z}) = Gaps(C) \cup {<<a, z>>}
  <1>1. ASSUME NEW x \in C, NEW y \in C
        PROVE  <<x, y>> \in Gaps(C) <=> <<x, y>> \in Gaps(C \cup {z})
    <2>1. <<x, y>> \in Gaps(C) <=> x < y /\ ~ \E k \in C : x < k /\ k < y
      BY DEF Gaps
    <2>2. <<x, y>> \in Gaps(C \cup {z}) <=> x < y /\ ~ \E k \in C \cup {z} : x < k /\ k < y
      BY DEF Gaps
    <2>3. ~ (z < y)
      <3>1. y \in Nat /\ a \in Nat /\ y <= a
        OBVIOUS
      <3> QED
        BY <3>1
    <2> QED
      BY <2>1, <2>2, <2>3
  <1>2. ASSUME NEW x \in C
        PROVE  <<x, z>> \in Gaps(C \cup {z}) <=> x = a
    <2>1. <<x, z>> \in Gaps(C \cup {z}) <=> x < z /\ ~ \E k \in C \cup {z} : x < k /\ k < z
      BY DEF Gaps
    <2>2. x \in Nat /\ a \in Nat /\ x <= a /\ \A k \in C \cup {z} : k \in Nat /\ (k = z \/ k <= a)
      OBVIOUS
    <2>3. CASE x = a
      <3>1. x < z /\ \A k \in C \cup {z} : ~ (x < k /\ k < z)
        BY <2>2, <2>3
      <3> QED
        BY <2>1, <2>3, <3>1
    <2>4. CASE x # a
      <3>1. x < a /\ a < z
        BY <2>2, <2>4
      <3> QED
        BY <2>1, <2>4, <3>1
    <2> QED
      BY <2>3, <2>4
  <1>3. ASSUME NEW y \in C \cup {z}
        PROVE  <<z, y>> \notin Gaps(C \cup {z})
    <2>1. y \in Nat /\ a \in Nat /\ (y = z \/ y <= a)
      OBVIOUS
    <2>2. ~ (z < y)
      BY <2>1
    <2> QED
      BY <2>2 DEF Gaps
  <1>4. ASSUME NEW c \in Gaps(C \cup {z})
        PROVE  c \in Gaps(C) \cup {<<a, z>>}
    <2>1. PICK x \in C \cup {z}, y \in C \cup {z} : c = <<x, y>>
      BY PairFacts
    <2>2. x \in C
      BY <1>3, <1>4, <2>1
    <2>3. CASE y = z
      BY <1>2, <1>4, <2>1, <2>2, <2>3
    <2>4. CASE y \in C
      BY <1>1, <1>4, <2>1, <2>2, <2>4
    <2> QED
      BY <2>3, <2>4
  <1>5. ASSUME NEW c \in Gaps(C)
        PROVE  c \in Gaps(C \cup {z})
    <2>1. PICK x \in C, y \in C : c = <<x, y>>
      BY PairFacts
    <2> QED
      BY <1>1, <1>5, <2>1
  <1>6. <<a, z>> \in Gaps(C \cup {z})
    BY <1>2
  <1> QED
    BY <1>4, <1>5, <1>6

\* So there is one more part.
LEMMA PartsStep ==
  ASSUME NEW s, NEW C \in SUBSET Nat, NEW a \in C, \A i \in C : i <= a, NEW z \in Nat, a < z
  PROVE  Parts(s, C \cup {z}) = Parts(s, C) \cup {SubSeq(s, a + 1, z - 1)}
  <1>1. Gaps(C \cup {z}) = Gaps(C) \cup {<<a, z>>}
    BY GapsStep
  <1>2. Item(s, <<a, z>>) = SubSeq(s, a + 1, z - 1)
    BY DEF Item
  <1>3. PICK G : G = Gaps(C)
    OBVIOUS
  <1>4. PICK d, v : d = <<a, z>> /\ v = SubSeq(s, a + 1, z - 1)
    OBVIOUS
  <1>5. {Item(s, c) : c \in G \cup {d}} = {Item(s, c) : c \in G} \cup {v}
    BY <1>2, <1>4
  <1> QED
    BY <1>1, <1>3, <1>4, <1>5 DEF Parts

\* The separators up to the next character.
LEMMA CutsFacts ==
  ASSUME NEW s, NEW k \in Nat
  PROVE  /\ Cuts(s, k) \in SUBSET (1 .. k) /\ Cardinality(Cuts(s, k)) \in Nat
         /\ ~IsCut(s, k + 1) => Cuts(s, k + 1) = Cuts(s, k)
         /\ IsCut(s, k + 1) => /\ Cuts(s, k + 1) = Cuts(s, k) \cup {k + 1}
                              /\ Cardinality(Cuts(s, k + 1)) = Cardinality(Cuts(s, k)) + 1
  <1>1. PICK z \in Nat : z = k + 1
    OBVIOUS
  <1>2. IsFiniteSet(1 .. k)
    BY FS_Interval
  <1>3. Cuts(s, k) \in SUBSET (1 .. k)
    BY DEF Cuts
  <1>4. IsFiniteSet(Cuts(s, k)) /\ Cardinality(Cuts(s, k)) \in Nat
    BY <1>2, <1>3, SubsetCount
  <1>5. \A i : i \in 1 .. z <=> i \in 1 .. k \/ i = z
    BY <1>1
  <1>6. \A i : i \in Cuts(s, z) <=> i \in Cuts(s, k) \/ (i = z /\ IsCut(s, z))
    BY <1>5, Zenon DEF Cuts
  <1>7. z \notin Cuts(s, k)
    BY <1>1, <1>3
  <1>8. Cardinality(Cuts(s, k) \cup {z}) = Cardinality(Cuts(s, k)) + 1
    BY <1>4, <1>7, FS_AddElement
  <1>9. ~IsCut(s, z) => Cuts(s, z) = Cuts(s, k)
    BY <1>6, Zenon
  <1>10. IsCut(s, z) => Cuts(s, z) = Cuts(s, k) \cup {z}
    BY <1>6, Zenon
  <1> QED
    BY <1>1, <1>3, <1>4, <1>8, <1>9, <1>10

\* An item more.
LEMMA AppendFacts ==
  ASSUME NEW S, NEW t \in Seq(S), NEW x \in S
  PROVE  /\ Append(t, x) \in Seq(S) /\ Len(Append(t, x)) = Len(t) + 1
         /\ Elements(Append(t, x)) = Elements(t) \cup {x}
  <1>1. PICK m \in Nat : m = Len(t)
    OBVIOUS
  <1>2. /\ Append(t, x) \in Seq(S) /\ Len(Append(t, x)) = m + 1
        /\ (\A j \in 1 .. m : Append(t, x)[j] = t[j]) /\ Append(t, x)[m + 1] = x
    BY <1>1
  <1>3. \A j \in 1 .. m + 1 : j \in 1 .. m \/ j = m + 1
    OBVIOUS
  <1>4. (\A j \in 1 .. m : j \in 1 .. m + 1) /\ m + 1 \in 1 .. m + 1
    OBVIOUS
  <1>5. PICK w : w = Append(t, x)
    OBVIOUS
  <1>6. {w[j] : j \in 1 .. m + 1} = {t[j] : j \in 1 .. m} \cup {x}
    BY <1>2, <1>3, <1>4, <1>5
  <1> QED
    BY <1>1, <1>2, <1>5, <1>6 DEF Elements

\* What the scan has made of the first k characters: the items it, and one to come
\* that starts behind a.
ScannedTo(s, k, a, it) ==
  /\ Clean(s, k) =>
       /\ Len(it) = Cardinality(Cuts(s, k)) /\ Elements(it) = Parts(s, Marks(s, k))
       /\ a \in Marks(s, k) /\ \A i \in Marks(s, k) : i <= a
  /\ ~Clean(s, k) => Len(it) < Cardinality(Cuts(s, k))
Scanned(s, k, r) ==
  \E a \in 0 .. k : \E it \in Seq(Text) :
    r = [start |-> a + 1, items |-> it] /\ ScannedTo(s, k, a, it)

\* A character that does not end an item leaves the separators as they are.
LEMMA PlainStep ==
  ASSUME NEW s, NEW k \in Nat, ~IsCut(s, k + 1), NEW a, NEW it, ScannedTo(s, k, a, it)
  PROVE  ScannedTo(s, k + 1, a, it)
  <1>1. Cuts(s, k + 1) = Cuts(s, k)
    BY CutsFacts
  <1>2. Marks(s, k + 1) = Marks(s, k)
    BY <1>1 DEF Marks
  <1> QED
    BY <1>1, <1>2 DEF ScannedTo, Clean

\* A separator where an item would start: one item is missing from now on.
LEMMA LostStep ==
  ASSUME NEW s, NEW k \in Nat, IsCut(s, k + 1), NEW it \in Seq(Text), ScannedTo(s, k, k, it)
  PROVE  ScannedTo(s, k + 1, k, it)
  <1>1. /\ Cuts(s, k + 1) = Cuts(s, k) \cup {k + 1}
        /\ Cardinality(Cuts(s, k + 1)) = Cardinality(Cuts(s, k)) + 1
        /\ Cardinality(Cuts(s, k)) \in Nat
    BY CutsFacts
  <1>2. Marks(s, k + 1) = Marks(s, k) \cup {k + 1}
    BY <1>1 DEF Marks
  <1>3. ~Clean(s, k + 1)
    <2> SUFFICES ASSUME Clean(s, k + 1) PROVE FALSE
      OBVIOUS
    <2>1. Clean(s, k)
      BY <1>2 DEF Clean
    <2>2. k \in Marks(s, k)
      BY <2>1 DEF ScannedTo
    <2> QED
      BY <1>2, <2>2 DEF Clean
  <1>4. PICK n \in Nat, m \in Nat : n = Cardinality(Cuts(s, k)) /\ m = Len(it)
    BY <1>1
  <1>5. m <= n
    BY <1>4 DEF ScannedTo
  <1>6. Len(it) < Cardinality(Cuts(s, k + 1))
    BY <1>1, <1>4, <1>5
  <1> QED
    BY <1>3, <1>6 DEF ScannedTo

\* A separator behind an item.
LEMMA ItemStep ==
  ASSUME NEW s \in Text, NEW k \in Nat, k < Len(s), IsCut(s, k + 1), NEW a \in 0 .. k, a # k,
         NEW it \in Seq(Text), ScannedTo(s, k, a, it)
  PROVE  ScannedTo(s, k + 1, k + 1, Append(it, SubSeq(s, a + 1, k)))
  <1>1. PICK C \in SUBSET (1 .. k), n \in Nat : C = Cuts(s, k) /\ n = Cardinality(C)
    BY CutsFacts
  <1>2. Cuts(s, k + 1) = C \cup {k + 1} /\ Cardinality(Cuts(s, k + 1)) = n + 1
    BY <1>1, CutsFacts
  <1>3. PICK M \in SUBSET (0 .. k) : M = Marks(s, k)
    <2>1. {0} \cup C \in SUBSET (0 .. k)
      OBVIOUS
    <2>2. Marks(s, k) = {0} \cup C
      BY <1>1 DEF Marks
    <2> QED
      BY <2>1, <2>2
  <1>4. Marks(s, k + 1) = M \cup {k + 1}
    BY <1>1, <1>2, <1>3 DEF Marks
  <1>5. PICK item \in Text : item = SubSeq(s, a + 1, k)
    <2>1. k \in 0 .. Len(s) /\ a + 1 \in 1 .. Len(s) + 2
      BY DEF Text
    <2> QED
      BY <2>1, PieceFacts DEF Text
  <1>6. PICK new \in Seq(Text) : /\ new = Append(it, item) /\ Len(new) = Len(it) + 1
                                 /\ Elements(new) = Elements(it) \cup {item}
    <2>1. /\ Append(it, item) \in Seq(Text) /\ Len(Append(it, item)) = Len(it) + 1
          /\ Elements(Append(it, item)) = Elements(it) \cup {item}
      BY AppendFacts
    <2> QED
      BY <2>1
  <1>7. k + 1 \in M \cup {k + 1} /\ \A i \in M \cup {k + 1} : i <= k + 1
    <2>1. \A i \in M : i \in 0 .. k
      OBVIOUS
    <2> QED
      BY <2>1
  <1>8. ASSUME Clean(s, k)
        PROVE  Clean(s, k + 1)
    <2>1. \A i \in M : i <= a
      BY <1>3, <1>8 DEF ScannedTo
    <2>2. k \notin M
      BY <2>1
    <2>3. ASSUME NEW i \in M \cup {k + 1} PROVE i + 1 \notin M \cup {k + 1}
      <3>1. CASE i = k + 1
        <4>1. i + 1 \notin 0 .. k /\ i + 1 # k + 1
          BY <3>1
        <4> QED
          BY <4>1
      <3>2. CASE i \in M
        <4>1. i \in 0 .. k /\ i # k /\ i + 1 \notin M
          BY <1>3, <1>8, <2>2, <3>2 DEF Clean
        <4> QED
          BY <4>1
      <3> QED
        BY <3>1, <3>2
    <2> QED
      BY <1>4, <2>3 DEF Clean
  <1>9. ASSUME Clean(s, k)
        PROVE  Len(new) = n + 1 /\ Elements(new) = Parts(s, M \cup {k + 1})
    <2>1. Len(it) = n /\ Elements(it) = Parts(s, M) /\ a \in M /\ \A i \in M : i <= a
      BY <1>1, <1>3, <1>9 DEF ScannedTo
    <2>2. Parts(s, M \cup {k + 1}) = Parts(s, M) \cup {SubSeq(s, a + 1, (k + 1) - 1)}
      <3>1. M \in SUBSET Nat /\ k + 1 \in Nat /\ a < k + 1
        OBVIOUS
      <3> QED
        BY <2>1, <3>1, PartsStep
    <2>3. (k + 1) - 1 = k
      OBVIOUS
    <2> QED
      BY <1>5, <1>6, <2>1, <2>2, <2>3
  <1>10. ASSUME ~Clean(s, k)
         PROVE  ~Clean(s, k + 1) /\ Len(new) < n + 1
    <2>1. Len(it) < n /\ Len(it) \in Nat
      BY <1>1, <1>10 DEF ScannedTo
    <2>2. ~Clean(s, k + 1)
      BY <1>3, <1>4, <1>10 DEF Clean
    <2> QED
      BY <1>6, <2>1, <2>2
  <1> QED
    BY <1>2, <1>4, <1>5, <1>6, <1>7, <1>8, <1>9, <1>10 DEF ScannedTo

\* A character more.
LEMMA ScanStep ==
  ASSUME NEW s \in Text, NEW k \in Nat, k < Len(s), NEW r, Scanned(s, k, r)
  PROVE  Scanned(s, k + 1, Scan(s, k + 1, r))
  <1>1. PICK a \in 0 .. k, it \in Seq(Text) :
          r = [start |-> a + 1, items |-> it] /\ ScannedTo(s, k, a, it)
    BY DEF Scanned
  <1>2. r.start = a + 1 /\ r.items = it
    BY <1>1
  <1>3. k \in 0 .. k + 1 /\ k + 1 \in 0 .. k + 1 /\ a \in 0 .. k + 1
    OBVIOUS
  <1>4. CASE ~IsCut(s, k + 1)
    <2>1. Scan(s, k + 1, r) = r
      BY <1>4 DEF Scan, IsCut
    <2>2. ScannedTo(s, k + 1, a, it)
      BY <1>1, <1>4, PlainStep
    <2> QED
      BY <1>1, <1>3, <2>1, <2>2 DEF Scanned
  <1>5. CASE IsCut(s, k + 1) /\ a = k
    <2>1. Scan(s, k + 1, r) = r
      BY <1>2, <1>5 DEF Scan, IsCut
    <2>2. ScannedTo(s, k + 1, k, it)
      BY <1>1, <1>5, LostStep
    <2> QED
      BY <1>1, <1>3, <1>5, <2>1, <2>2 DEF Scanned
  <1>6. CASE IsCut(s, k + 1) /\ a # k
    <2>1. k + 1 # a + 1 /\ (k + 1) - 1 = k
      BY <1>6
    <2>2. Scan(s, k + 1, r) = [start |-> (k + 1) + 1, items |-> Append(it, SubSeq(s, a + 1, k))]
      BY <1>2, <1>6, <2>1 DEF Scan, IsCut
    <2>3. ScannedTo(s, k + 1, k + 1, Append(it, SubSeq(s, a + 1, k)))
      BY <1>1, <1>6, ItemStep
    <2>4. Append(it, SubSeq(s, a + 1, k)) \in Seq(Text)
      <3>1. k \in 0 .. Len(s) /\ a + 1 \in 1 .. Len(s) + 2
        BY DEF Text
      <3>2. SubSeq(s, a + 1, k) \in Text
        BY <3>1, PieceFacts DEF Text
      <3> QED
        BY <3>2, AppendFacts
    <2> QED
      BY <1>3, <2>2, <2>3, <2>4 DEF Scanned
  <1> QED
    BY <1>4, <1>5, <1>6

\* What the scan may have in hand.
Scans(s) == [start : 1 .. Len(s) + 1, items : Seq(Text)]

\* It stays there.
LEMMA ScanType ==
  ASSUME NEW s \in Text, NEW i \in 1 .. Len(s), NEW r \in Scans(s)
  PROVE  Scan(s, i, r) \in Scans(s)
  <1>1. PICK st \in 1 .. Len(s) + 1, it \in Seq(Text) : st = r.start /\ it = r.items
    BY DEF Scans
  <1>2. CASE IsCut(s, i) /\ i # st
    <2>1. Scan(s, i, r) = [start |-> i + 1, items |-> Append(it, SubSeq(s, st, i - 1))]
      BY <1>1, <1>2 DEF Scan, IsCut
    <2>2. i + 1 \in 1 .. Len(s) + 1
      BY DEF Text
    <2>3. Append(it, SubSeq(s, st, i - 1)) \in Seq(Text)
      <3>1. i - 1 \in 0 .. Len(s) /\ st \in 1 .. Len(s) + 2
        BY DEF Text
      <3>2. SubSeq(s, st, i - 1) \in Text
        BY <3>1, PieceFacts DEF Text
      <3> QED
        BY <3>2, AppendFacts
    <2> QED
      BY <2>1, <2>2, <2>3 DEF Scans
  <1>3. CASE ~(IsCut(s, i) /\ i # st)
    BY <1>1, <1>3 DEF Scan, IsCut
  <1> QED
    BY <1>2, <1>3

\* The scan of the whole list, and the item behind the last separator.
LEMMA ItemsFacts ==
  ASSUME NEW s \in Text, NEW n \in Nat, n = Len(s)
  PROVE  \E r : /\ Scanned(s, n, r)
                /\ Items(s) = IF r.start <= n THEN Append(r.items, SubSeq(s, r.start, n)) ELSE r.items
  <1> DEFINE first == [start |-> 1, items |-> <<>>]
             G     == [i \in 1 .. n |-> [q \in Scans(s) |-> Scan(s, i, q)]]
             scan  == CHOOSE a : a = [i \in 0 .. n |-> IF i = 0 THEN [start |-> 1, items |-> <<>>]
                                                       ELSE Scan(s, i, a[i - 1])]
  <1>1. Items(s) = IF scan[n].start <= n THEN Append(scan[n].items, SubSeq(s, scan[n].start, n))
                                         ELSE scan[n].items
    BY DEF Items
  <1>2. first \in Scans(s)
    <2>1. 1 \in 1 .. Len(s) + 1 /\ <<>> \in Seq(Text)
      OBVIOUS
    <2> QED
      BY <2>1 DEF Scans
  <1>3. G \in [1 .. n -> [Scans(s) -> Scans(s)]]
    <2>1. \A i \in 1 .. n : \A q \in Scans(s) : Scan(s, i, q) \in Scans(s)
      BY ScanType
    <2> QED
      BY <2>1
  <1>4. PICK h \in [0 .. n -> Scans(s)] : Unfolds(h, n, first, G)
    <2> HIDE DEF G, scan, first
    <2> QED
      BY <1>2, <1>3, RecursiveFunction
  <1>5. h[0] = [start |-> 1, items |-> <<>>] /\ \A i \in 1 .. n : h[i] = Scan(s, i, h[i - 1])
    <2>1. \A i \in 1 .. n : h[i - 1] \in Scans(s)
      BY <1>4
    <2> QED
      BY <1>4, <2>1 DEF Unfolds
  <1>6. h = [i \in 0 .. n |-> IF i = 0 THEN [start |-> 1, items |-> <<>>] ELSE Scan(s, i, h[i - 1])]
    <2> HIDE DEF scan, G
    <2>1. ASSUME NEW i \in 0 .. n
          PROVE  h[i] = IF i = 0 THEN [start |-> 1, items |-> <<>>] ELSE Scan(s, i, h[i - 1])
      <3>1. i = 0 \/ i \in 1 .. n
        OBVIOUS
      <3> QED
        BY <1>5, <3>1
    <2>2. h = [i \in 0 .. n |-> h[i]]
      OBVIOUS
    <2> QED
      BY <2>1, <2>2
  <1>7. scan = [i \in 0 .. n |-> IF i = 0 THEN [start |-> 1, items |-> <<>>] ELSE Scan(s, i, scan[i - 1])]
    BY <1>6
  <1>8. PICK g : g = scan
    OBVIOUS
  <1> HIDE DEF scan, G
  <1>9. g[0] = first /\ \A i \in 1 .. n : g[i] = Scan(s, i, g[i - 1])
    <2>1. \A i \in 0 .. n : g[i] = IF i = 0 THEN [start |-> 1, items |-> <<>>] ELSE Scan(s, i, g[i - 1])
      BY <1>7, <1>8
    <2>2. 0 \in 0 .. n /\ \A i \in 1 .. n : i \in 0 .. n /\ i # 0
      OBVIOUS
    <2> QED
      BY <2>1, <2>2
  <1>10. Scanned(s, 0, first)
    <2>1. Cuts(s, 0) = {} /\ Cardinality({}) = 0
      BY FS_EmptySet DEF Cuts
    <2>2. Marks(s, 0) = {0}
      BY <2>1 DEF Marks
    <2>3. Clean(s, 0)
      BY <2>2 DEF Clean
    <2>4. Len(<<>>) = 0 /\ <<>> \in Seq(Text) /\ Elements(<<>>) = {}
      BY DEF Elements
    <2>5. Parts(s, {0}) = {}
      <3>1. Gaps({0}) = {}
        <4> SUFFICES ASSUME NEW c \in Gaps({0}) PROVE FALSE
          OBVIOUS
        <4>1. c[1] < c[2] /\ c[1] \in {0} /\ c[2] \in {0}
          BY DEF Gaps
        <4> QED
          BY <4>1
      <3> QED
        BY <3>1 DEF Parts
    <2>6. 0 \in Marks(s, 0) /\ \A i \in Marks(s, 0) : i <= 0
      BY <2>2
    <2>7. ScannedTo(s, 0, 0, <<>>)
      BY <2>1, <2>2, <2>3, <2>4, <2>5, <2>6 DEF ScannedTo
    <2>8. first = [start |-> 0 + 1, items |-> <<>>] /\ 0 \in 0 .. 0
      OBVIOUS
    <2> HIDE DEF first
    <2> QED
      BY <2>4, <2>7, <2>8 DEF Scanned
  <1> HIDE DEF first
  <1> DEFINE T == {i \in 0 .. n : Scanned(s, i, g[i])}
  <1>11. T = 0 .. n
    <2>1. 0 \in T
      BY <1>9, <1>10
    <2>2. ASSUME NEW i \in T, i < n
          PROVE  i + 1 \in T
      <3>1. i + 1 \in 1 .. n /\ (i + 1) - 1 = i /\ Scanned(s, i, g[i]) /\ i \in Nat
        BY <2>2
      <3>2. g[i + 1] = Scan(s, i + 1, g[i])
        BY <1>9, <3>1
      <3>3. Scanned(s, i + 1, g[i + 1])
        BY <2>2, <3>1, <3>2, ScanStep
      <3> QED
        BY <3>1, <3>3
    <2>3. T \in SUBSET (0 .. n)
      OBVIOUS
    <2> HIDE DEF T
    <2> QED
      BY <2>1, <2>2, <2>3, BoundedInduction
  <1>12. Scanned(s, n, g[n])
    <2>1. n \in T
      BY <1>11
    <2> QED
      BY <2>1
  <1> QED
    BY <1>1, <1>8, <1>12

\* What stands between the commas.
LEMMA BetweenFacts ==
  ASSUME NEW s \in Text, NEW n \in Nat, n = Len(s)
  PROVE  /\ Between(s) = Parts(s, Marks(s, n) \cup {n + 1})
         /\ Separators(s) = Cardinality(Cuts(s, n))
  <1>1. DOMAIN s = 1 .. n
    BY DEF Text
  <1>2. {i \in DOMAIN s : s[i] = ","} = Cuts(s, n)
    BY <1>1, Zenon DEF Cuts, IsCut
  <1>3. Separators(s) = Cardinality(Cuts(s, n))
    BY <1>2 DEF Separators
  <1>4. PICK C : C = Cuts(s, n)
    OBVIOUS
  <1>5. Between(s) = {Item(s, c) : c \in Gaps({0, n + 1} \cup C)}
    BY <1>2, <1>4 DEF Between, Gaps, Item
  <1>6. {0, n + 1} \cup C = ({0} \cup C) \cup {n + 1}
    OBVIOUS
  <1> QED
    BY <1>3, <1>4, <1>5, <1>6 DEF Parts, Marks

\* Every item is one between the commas, unless one of these is empty: then there
\* are too few of them.
LEMMA ItemsBetween ==
  ASSUME NEW s \in Text
  PROVE  /\ Items(s) \in Seq(Text) /\ Separators(s) \in Nat
         /\ Len(Items(s)) <= Separators(s) \/ Len(Items(s)) = Separators(s) + 1
         /\ Len(Items(s)) = Separators(s) + 1 => Elements(Items(s)) = Between(s)
         /\ Len(Items(s)) <= Separators(s) => <<>> \in Between(s)
  <1>1. PICK n \in Nat : n = Len(s)
    BY DEF Text
  <1>2. PICK r : /\ Scanned(s, n, r)
                 /\ Items(s) = IF r.start <= n THEN Append(r.items, SubSeq(s, r.start, n)) ELSE r.items
    BY <1>1, ItemsFacts
  <1>3. PICK a \in 0 .. n, it \in Seq(Text) :
          r = [start |-> a + 1, items |-> it] /\ ScannedTo(s, n, a, it)
    BY <1>2 DEF Scanned
  <1>4. Items(s) = IF a + 1 <= n THEN Append(it, SubSeq(s, a + 1, n)) ELSE it
    BY <1>2, <1>3
  <1>5. PICK c \in Nat : c = Cardinality(Cuts(s, n)) /\ c = Separators(s)
    BY <1>1, CutsFacts, BetweenFacts
  <1>6. PICK M \in SUBSET (0 .. n) : M = Marks(s, n)
    <2>1. {0} \cup Cuts(s, n) \in SUBSET (0 .. n)
      BY CutsFacts
    <2> QED
      BY <2>1 DEF Marks
  <1>7. Between(s) = Parts(s, M \cup {n + 1})
    BY <1>1, <1>6, BetweenFacts
  <1>8. ASSUME NEW i \in M \cup {n + 1}, i + 1 \in M \cup {n + 1}
        PROVE  <<>> \in Between(s)
    <2>1. \A j \in M \cup {n + 1} : j \in Nat
      OBVIOUS
    <2>2. i < i + 1 /\ \A j \in M \cup {n + 1} : ~ (i < j /\ j < i + 1)
      BY <2>1
    <2>3. <<i, i + 1>> \in Gaps(M \cup {n + 1})
      BY <1>8, <2>2 DEF Gaps
    <2>4. Item(s, <<i, i + 1>>) = SubSeq(s, i + 1, (i + 1) - 1)
      BY DEF Item
    <2>5. SubSeq(s, i + 1, (i + 1) - 1) = <<>>
      BY <1>1, <2>1 DEF Text
    <2> QED
      BY <1>7, <2>3, <2>4, <2>5 DEF Parts
  <1>9. CASE ~Clean(s, n)
    <2>1. Len(it) < c /\ Len(it) \in Nat
      BY <1>3, <1>5, <1>9 DEF ScannedTo
    <2>2. <<>> \in Between(s)
      <3>1. PICK i \in M : i + 1 \in M
        BY <1>6, <1>9 DEF Clean
      <3> QED
        BY <1>8, <3>1
    <2>3. Items(s) \in Seq(Text) /\ Len(Items(s)) <= c
      <3>1. CASE a + 1 <= n
        <4>1. a + 1 \in 1 .. Len(s) + 2 /\ n \in 0 .. Len(s)
          BY <1>1, <3>1
        <4>2. SubSeq(s, a + 1, n) \in Text
          BY <4>1, PieceFacts DEF Text
        <4>3. Items(s) = Append(it, SubSeq(s, a + 1, n))
          BY <1>4, <3>1
        <4>4. Items(s) \in Seq(Text) /\ Len(Items(s)) = Len(it) + 1
          BY <4>2, <4>3, AppendFacts
        <4> QED
          BY <2>1, <4>4
      <3>2. CASE ~(a + 1 <= n)
        BY <1>4, <2>1, <3>2
      <3> QED
        BY <3>1, <3>2
    <2> QED
      BY <1>5, <2>2, <2>3
  <1>10. CASE Clean(s, n) /\ ~(a + 1 <= n)
    <2>1. Items(s) = it /\ Len(it) = c /\ a \in M
      BY <1>3, <1>4, <1>5, <1>6, <1>10 DEF ScannedTo
    <2>2. a = n
      BY <1>10
    <2>3. <<>> \in Between(s)
      BY <1>8, <2>1, <2>2
    <2> QED
      BY <1>5, <2>1, <2>3
  <1>11. CASE Clean(s, n) /\ a + 1 <= n
    <2>1. Len(it) = c /\ Elements(it) = Parts(s, M) /\ a \in M /\ \A i \in M : i <= a
      BY <1>3, <1>5, <1>6, <1>11 DEF ScannedTo
    <2>2. a + 1 \in 1 .. Len(s) + 2 /\ n \in 0 .. Len(s)
      BY <1>1
    <2>3. PICK item \in Text : item = SubSeq(s, a + 1, n)
      BY <2>2, PieceFacts DEF Text
    <2>4. Items(s) = Append(it, item)
      BY <1>4, <1>11, <2>3
    <2>5. /\ Items(s) \in Seq(Text) /\ Len(Items(s)) = c + 1
          /\ Elements(Items(s)) = Elements(it) \cup {item}
      BY <2>1, <2>4, AppendFacts
    <2>6. Parts(s, M \cup {n + 1}) = Parts(s, M) \cup {SubSeq(s, a + 1, (n + 1) - 1)}
      <3>1. M \in SUBSET Nat /\ n + 1 \in Nat /\ a < n + 1
        OBVIOUS
      <3> QED
        BY <2>1, <3>1, PartsStep
    <2>7. (n + 1) - 1 = n /\ ~(c + 1 <= c)
      OBVIOUS
    <2> QED
      BY <1>5, <1>7, <2>1, <2>3, <2>5, <2>6, <2>7
  <1> QED
    BY <1>9, <1>10, <1>11

\* What the managers are given: the names between the commas, or something that
\* nobody has filled in where one of them is empty.
LEMMA ExplodeFacts ==
  ASSUME NEW s \in Text
  PROVE  /\ Explode(s) \in Seq(Text \cup {Junk})
         /\ Junk \notin Elements(Explode(s)) => Elements(Explode(s)) = Between(s)
         /\ Junk \in Elements(Explode(s)) => <<>> \in Between(s)
  <1>1. PICK c \in Nat, t \in Seq(Text), l \in Nat : c = Separators(s) /\ t = Items(s) /\ l = Len(t)
    BY ItemsBetween
  <1>2. PICK u \in Seq({Junk}) : u = Unfilled(s) /\ Len(u) = c + 1 /\ \A i \in 1 .. c + 1 : u[i] = Junk
    <2>1. Unfilled(s) = [i \in 1 .. c + 1 |-> Junk]
      BY <1>1 DEF Unfilled
    <2>2. PICK m \in Nat : m = c + 1
      OBVIOUS
    <2>3. [i \in 1 .. m |-> Junk] \in Seq({Junk}) /\ Len([i \in 1 .. m |-> Junk]) = m
      OBVIOUS
    <2> QED
      BY <2>1, <2>2, <2>3
  <1>3. PICK w \in Seq(Text \cup {Junk}) :
          /\ w = t \o u /\ Len(w) = l + (c + 1)
          /\ \A i \in 1 .. l : w[i] = t[i]
          /\ w[l + 1] = Junk
    <2>1. t \in Seq(Text \cup {Junk}) /\ u \in Seq(Text \cup {Junk})
      OBVIOUS
    <2>2. t \o u \in Seq(Text \cup {Junk}) /\ Len(t \o u) = l + (c + 1)
      BY <1>1, <1>2, <2>1
    <2>3. \A i \in 1 .. l : (t \o u)[i] = t[i]
      BY <1>1, <1>2, <2>1
    <2>4. (t \o u)[l + 1] = Junk
      <3>1. l + 1 \in 1 .. l + (c + 1) /\ l + 1 > l /\ (l + 1) - l = 1 /\ 1 \in 1 .. c + 1
        OBVIOUS
      <3>2. (t \o u)[l + 1] = u[(l + 1) - l]
        BY <1>1, <1>2, <2>1, <3>1
      <3> QED
        BY <1>2, <3>1, <3>2
    <2> QED
      BY <2>2, <2>3, <2>4
  <1>4. Explode(s) = SubSeq(w, 1, c + 1)
    BY <1>1, <1>2, <1>3 DEF Explode
  <1>5. /\ Explode(s) \in Seq(Text \cup {Junk}) /\ Len(Explode(s)) = c + 1
        /\ \A i \in 1 .. c + 1 : Explode(s)[i] = w[i]
    <2>1. 1 \in 1 .. Len(w) + 2 /\ c + 1 \in 0 .. Len(w) /\ 1 <= c + 1 /\ ((c + 1) - 1) + 1 = c + 1
      BY <1>3
    <2>2. /\ SubSeq(w, 1, c + 1) \in Seq(Text \cup {Junk})
          /\ Len(SubSeq(w, 1, c + 1)) = c + 1
      BY <2>1, PieceFacts
    <2>3. \A i \in 1 .. c + 1 : SubSeq(w, 1, c + 1)[i] = w[i]
      BY <1>3
    <2> QED
      BY <1>4, <2>2, <2>3
  <1>6. CASE l = c + 1
    <2>1. Elements(Explode(s)) = Elements(t)
      <3>1. PICK e : e = Explode(s)
        OBVIOUS
      <3>2. Len(e) = l /\ \A i \in 1 .. l : e[i] = t[i]
        BY <1>3, <1>5, <1>6, <3>1
      <3>3. {e[j] : j \in 1 .. l} = {t[j] : j \in 1 .. l}
        BY <3>2
      <3> QED
        BY <1>1, <3>1, <3>2, <3>3 DEF Elements
    <2>2. Elements(t) = Between(s)
      BY <1>1, <1>6, ItemsBetween
    <2>3. Junk \notin Elements(t)
      BY <1>1, StartupAssumption DEF Elements
    <2> QED
      BY <1>5, <2>1, <2>2, <2>3
  <1>7. CASE l <= c
    <2>1. l + 1 \in 1 .. c + 1
      BY <1>7
    <2>2. Explode(s)[l + 1] = Junk
      BY <1>3, <1>5, <2>1
    <2>3. Junk \in Elements(Explode(s))
      BY <1>5, <2>1, <2>2 DEF Elements
    <2>4. <<>> \in Between(s)
      BY <1>1, <1>7, ItemsBetween
    <2> QED
      BY <1>5, <2>3, <2>4
  <1> QED
    BY <1>1, <1>6, <1>7, ItemsBetween

-----------------------------------------------------------------------------
(***************************************************************************)
(* What main and the managers are told                                     *)
(***************************************************************************)
\* What GetConfigName gives a caller whose reader has read f.
Answer(f, x) == IF f = Missing THEN NULL ELSE Found(ConfigMap(f), x)

\* The names a manager works through, and what it asks for one of them.
Names(f, m)    == Explode(Answer(f, List(m)))
Asked(f, n, m) == [g \in Fields(m) |-> Answer(f, Key(n, g))]

\* An answer is a text, or there is none.
LEMMA AnswerFacts ==
  ASSUME NEW f \in Files, NEW x
  PROVE  Answer(f, x) = NULL \/ Answer(f, x) \in Text
  <1>1. CASE f = Missing
    BY <1>1 DEF Answer
  <1>2. CASE f # Missing
    <2>1. ConfigMap(f) \in Maps
      BY <1>2, ConfigFacts
    <2>2. PICK D \in SUBSET Text : ConfigMap(f) \in [D -> Text]
      BY <2>1 DEF Maps
    <2>3. Found(ConfigMap(f), x) = NULL \/ Found(ConfigMap(f), x) \in Text
      BY <2>2 DEF Found
    <2> QED
      BY <1>2, <2>3 DEF Answer
  <1> QED
    BY <1>1, <1>2

\* Any reader of the file gives that answer: one that could not open it has an
\* empty map, whatever its load_ok_.
LEMMA ReaderFacts ==
  ASSUME reader \in Readers(file), NEW x
  PROVE  GetConfigName(x) = Answer(file, x)
  <1>1. CASE file = Missing
    <2>1. reader.config_map_ = <<>> /\ DOMAIN <<>> = {}
      BY <1>1 DEF Readers
    <2> QED
      BY <1>1, <2>1 DEF GetConfigName, Answer
  <1>2. CASE file # Missing
    <2>1. reader.load_ok_ = TRUE /\ reader.config_map_ = ConfigMap(file)
      BY <1>2 DEF Readers
    <2> QED
      BY <1>2, <2>1 DEF GetConfigName, Answer, Found
  <1> QED
    BY <1>1, <1>2

\* Settings that are all there are not the null pointer.
LEMMA GivenFacts ==
  ASSUME NEW f \in Files, \A s \in UploadSettings : Answer(f, s) # NULL
  PROVE  [s \in UploadSettings |-> Answer(f, s)] # NULL
  <1>1. \A s \in UploadSettings : Answer(f, s) \in Text
    BY AnswerFacts
  <1>2. [s \in UploadSettings |-> Answer(f, s)] \in [UploadSettings -> Text]
    BY <1>1
  <1> QED
    BY <1>2, StartupAssumption

\* What a manager has done of its list: t is left, and p are the pools it opened.
PartlyOpen(t, p, f, m) ==
  /\ Answer(f, List(m)) # NULL
  /\ t \in Seq(Text \cup {Junk})
  /\ (DOMAIN p) \cup Elements(t) = Elements(Names(f, m))
  /\ Junk \notin DOMAIN p
  /\ \A n \in DOMAIN p : p[n] = Asked(f, n, m) /\ \A g \in Fields(m) : Answer(f, Key(n, g)) # NULL

\* The list, before its first instance.
LEMMA NothingOpen ==
  ASSUME NEW f \in Files, NEW m, Answer(f, List(m)) # NULL
  PROVE  /\ PartlyOpen(Names(f, m), <<>>, f, m)
         /\ Names(f, m) # NULL
  <1>1. Answer(f, List(m)) \in Text
    BY AnswerFacts
  <1>2. Names(f, m) \in Seq(Text \cup {Junk})
    BY <1>1, ExplodeFacts DEF Names
  <1>3. DOMAIN <<>> = {}
    OBVIOUS
  <1>4. PartlyOpen(Names(f, m), <<>>, f, m)
    BY <1>2, <1>3 DEF PartlyOpen
  <1> QED
    BY <1>2, <1>4, StartupAssumption

\* The first of a sequence and the rest.
LEMMA TailFacts ==
  ASSUME NEW S, NEW t \in Seq(S), t # <<>>
  PROVE  /\ Tail(t) \in Seq(S) /\ Head(t) \in S
         /\ Elements(t) = {Head(t)} \cup Elements(Tail(t))
  <1>1. PICK n \in Nat : n = Len(Tail(t)) /\ Len(t) = n + 1
    BY EmptyFacts
  <1>2. Tail(t) \in Seq(S) /\ Head(t) = t[1] /\ \A j \in 1 .. n : Tail(t)[j] = t[j + 1]
    BY <1>1
  <1>3. Head(t) \in S
    <2>1. 1 \in 1 .. Len(t)
      BY <1>1
    <2> QED
      BY <1>2, <2>1
  <1>4. PICK w : w = Tail(t)
    OBVIOUS
  <1>5. \A j \in 1 .. n + 1 : j = 1 \/ \E i \in 1 .. n : j = i + 1
    <2> SUFFICES ASSUME NEW j \in 1 .. n + 1, j # 1 PROVE \E i \in 1 .. n : j = i + 1
      OBVIOUS
    <2>1. j - 1 \in 1 .. n /\ j = (j - 1) + 1
      OBVIOUS
    <2> QED
      BY <2>1
  <1>6. 1 \in 1 .. n + 1 /\ \A i \in 1 .. n : i + 1 \in 1 .. n + 1
    OBVIOUS
  <1>7. {t[j] : j \in 1 .. n + 1} = {t[1]} \cup {w[i] : i \in 1 .. n}
    <2>1. ASSUME NEW j \in 1 .. n + 1 PROVE t[j] \in {t[1]} \cup {w[i] : i \in 1 .. n}
      BY <1>2, <1>4, <1>5
    <2>2. ASSUME NEW i \in 1 .. n PROVE w[i] \in {t[j] : j \in 1 .. n + 1}
      BY <1>2, <1>4, <1>6
    <2>3. t[1] \in {t[j] : j \in 1 .. n + 1}
      BY <1>6
    <2> QED
      BY <2>1, <2>2, <2>3
  <1> QED
    BY <1>1, <1>2, <1>3, <1>4, <1>7 DEF Elements

\* One instance more.
LEMMA OneMoreOpen ==
  ASSUME NEW f \in Files, NEW m, NEW t, NEW p, PartlyOpen(t, p, f, m), t # <<>>, Head(t) # Junk,
         \A g \in Fields(m) : Answer(f, Key(Head(t), g)) # NULL
  PROVE  /\ PartlyOpen(Tail(t), Inserted(p, Head(t), Asked(f, Head(t), m)), f, m)
         /\ Tail(t) # NULL
  <1>1. t \in Seq(Text \cup {Junk})
    BY DEF PartlyOpen
  <1>2. Tail(t) \in Seq(Text \cup {Junk}) /\ Elements(t) = {Head(t)} \cup Elements(Tail(t))
    BY <1>1, TailFacts
  <1>3. PICK q : q = Inserted(p, Head(t), Asked(f, Head(t), m))
    OBVIOUS
  <1>4. /\ DOMAIN q = (DOMAIN p) \cup {Head(t)}
        /\ \A n \in DOMAIN p : q[n] = p[n]
        /\ Head(t) \notin DOMAIN p => q[Head(t)] = Asked(f, Head(t), m)
    BY <1>3 DEF Inserted
  <1>5. (DOMAIN q) \cup Elements(Tail(t)) = Elements(Names(f, m))
    <2>1. (DOMAIN p) \cup Elements(t) = Elements(Names(f, m))
      BY DEF PartlyOpen
    <2> QED
      BY <1>2, <1>4, <2>1
  <1>6. Junk \notin DOMAIN q
    BY <1>4 DEF PartlyOpen
  <1>7. ASSUME NEW n \in DOMAIN q
        PROVE  q[n] = Asked(f, n, m) /\ \A g \in Fields(m) : Answer(f, Key(n, g)) # NULL
    <2>1. CASE n \in DOMAIN p
      BY <1>4, <2>1 DEF PartlyOpen
    <2>2. CASE n \notin DOMAIN p
      BY <1>4, <2>2
    <2> QED
      BY <2>1, <2>2
  <1>8. PartlyOpen(Tail(t), q, f, m)
    BY <1>2, <1>5, <1>6, <1>7 DEF PartlyOpen
  <1> QED
    BY <1>2, <1>3, <1>8, StartupAssumption

-----------------------------------------------------------------------------
(***************************************************************************)
(* Main and its managers                                                   *)
(***************************************************************************)
\* A reader has read the file the process was given.
ReaderInv ==
  /\ reader # NULL => reader \in Readers(file)
  /\ pools = [m \in Managers |-> pools[m]]

\* The settings main went on with are those it read, and none was missing.
SettingsInv ==
  pc \in Managers \cup {"serving"} =>
    /\ settings = [s \in UploadSettings |-> Answer(file, s)]
    /\ \A s \in UploadSettings : Answer(file, s) # NULL

\* Where main is when it has not come to a manager, or has left it.
Before(m) == IF m = "db" THEN {"load"} ELSE {"load", "db"}
Past(m)   == IF m = "db" THEN {"cache", "serving"} ELSE {"serving"}

\* The pools are those of the instances its list had up to here.
OpenInv ==
  \A m \in Managers :
    /\ pc \in Before(m) => pools[m] = <<>>
    /\ pc = m /\ todo = NULL => pools[m] = <<>>
    /\ pc = m /\ todo # NULL => PartlyOpen(todo, pools[m], file, m)
    /\ pc \in Past(m) => PartlyOpen(<<>>, pools[m], file, m)

\* Why a process may give up: something is not configured, a name is missing in a
\* list, or an account is not let in.
Lacks(f, u, m) ==
  \/ Answer(f, List(m)) = NULL
  \/ \E n \in Elements(Names(f, m)) :
       \/ n = Junk
       \/ \E g \in Fields(m) : Answer(f, Key(n, g)) = NULL
       \/ [g \in Login(m) |-> Answer(f, Key(n, g))] \notin u
ReasonInv ==
  pc \in {"stopped", "crashed"} =>
    \/ \E s \in UploadSettings : Answer(file, s) = NULL
    \/ \E m \in Managers : Lacks(file, up, m)

\* The invariant of all this.
StartupInv == TypeOK /\ ReaderInv /\ SettingsInv /\ OpenInv /\ ReasonInv

\* What a manager works on is on its list.
LEMMA WorkFacts ==
  ASSUME StartupInv, NEW m \in Managers, pc = m, todo \notin {NULL, <<>>}
  PROVE  /\ PartlyOpen(todo, pools[m], file, m) /\ Head(todo) \in Elements(Names(file, m))
         /\ reader \in Readers(file)
  <1>1. PartlyOpen(todo, pools[m], file, m)
    BY DEF StartupInv, OpenInv
  <1>2. todo \in Seq(Text \cup {Junk}) /\ (DOMAIN pools[m]) \cup Elements(todo) = Elements(Names(file, m))
    BY <1>1 DEF PartlyOpen
  <1>3. Head(todo) \in Elements(todo)
    BY <1>2, TailFacts
  <1>4. reader \in Readers(file)
    BY DEF StartupInv, TypeOK, ReaderInv
  <1> QED
    BY <1>1, <1>2, <1>3, <1>4

\* A manager that gives up has a reason.
LEMMA StopStep ==
  ASSUME StartupInv, NEW m \in Managers, pc = m, Stop(m), Lacks(file, up, m),
         UNCHANGED <<file, up, settings>>
  PROVE  StartupInv'
  <1>1. pc' = "stopped" /\ reader' = reader /\ todo' = todo /\ file' = file /\ up' = up /\ settings' = settings
    BY DEF Stop
  <1>2. pools' = [k \in Managers |-> IF k = m THEN <<>> ELSE pools[k]]
    BY DEF Stop, StartupInv, ReaderInv
  <1>3. ReasonInv'
    BY <1>1 DEF ReasonInv, Lacks
  <1>4. ReaderInv'
    BY <1>1, <1>2 DEF StartupInv, ReaderInv
  <1>5. SettingsInv'
    BY <1>1 DEF SettingsInv, Managers
  <1>6. OpenInv'
    BY <1>1 DEF OpenInv, Before, Past, Managers
  <1>7. TypeOK'
    <2>1. m = "db" \/ m = "cache"
      BY DEF Managers
    <2>2. pools'["cache"] = <<>>
      BY <1>2, <2>1 DEF StartupInv, OpenInv, Before, Managers
    <2> QED
      BY <1>1, <2>2 DEF StartupInv, TypeOK
  <1> QED
    BY <1>3, <1>4, <1>5, <1>6, <1>7 DEF StartupInv

\* Each step of main keeps the invariant.
LEMMA StartupStep == StartupInv /\ [Next]_vars => StartupInv'
  <1> SUFFICES ASSUME StartupInv, [Next]_vars PROVE StartupInv'
    OBVIOUS
  <1> USE DEF StartupInv
  <1>1. CASE OpenConfig
    <2>1. /\ pc \in Managers \cup {"load"} /\ reader = NULL /\ reader' \in Readers(file)
          /\ file' = file /\ up' = up /\ pc' = pc /\ todo' = todo /\ settings' = settings /\ pools' = pools
      BY <1>1 DEF OpenConfig
    <2>2. todo = NULL
      BY <2>1 DEF TypeOK
    <2>3. pc # "serving" /\ pc # "stopped" /\ pc # "crashed"
      BY <2>1 DEF Managers
    <2>4. TypeOK'
      BY <2>1, <2>2, <2>3 DEF TypeOK
    <2>5. ReaderInv'
      BY <2>1 DEF ReaderInv
    <2>6. SettingsInv'
      BY <2>1 DEF SettingsInv
    <2>7. OpenInv'
      BY <2>1 DEF OpenInv
    <2>8. ReasonInv'
      BY <2>1, <2>3 DEF ReasonInv
    <2> QED
      BY <2>4, <2>5, <2>6, <2>7, <2>8
  <1>2. CASE UploadInit
    <2>1. /\ pc = "load" /\ reader # NULL /\ reader \in Readers(file)
          /\ file' = file /\ up' = up /\ todo' = todo /\ pools' = pools
      BY <1>2 DEF UploadInit, ReaderInv
    <2>2. \A s \in UploadSettings : GetConfigName(s) = Answer(file, s)
      BY <2>1, ReaderFacts
    <2>3. PICK given : given = [s \in UploadSettings |-> GetConfigName(s)]
      OBVIOUS
    <2>4. given = [s \in UploadSettings |-> Answer(file, s)]
      BY <2>2, <2>3
    <2>5. todo = NULL /\ pools["db"] = <<>> /\ pools["cache"] = <<>>
      BY <2>1 DEF TypeOK, Managers
    <2>6. ReaderInv'
      BY <1>2, <2>1 DEF ReaderInv, UploadInit
    <2>7. CASE \E s \in UploadSettings : given[s] = NULL
      <3>1. pc' = "crashed" /\ reader' = reader /\ settings' = settings
        BY <1>2, <2>3, <2>7 DEF UploadInit
      <3>2. ReasonInv'
        BY <2>1, <2>4, <2>7 DEF ReasonInv
      <3>3. TypeOK'
        BY <2>1, <2>5, <3>1 DEF TypeOK, Managers
      <3>4. SettingsInv'
        BY <3>1 DEF SettingsInv, Managers
      <3>5. OpenInv'
        BY <3>1 DEF OpenInv, Before, Past, Managers
      <3> QED
        BY <2>6, <3>2, <3>3, <3>4, <3>5
    <2>8. CASE ~ \E s \in UploadSettings : given[s] = NULL
      <3>1. pc' = "db" /\ reader' = NULL /\ settings' = given
        BY <1>2, <2>3, <2>8 DEF UploadInit
      <3>2. \A s \in UploadSettings : Answer(file, s) # NULL
        BY <2>4, <2>8
      <3>3. given # NULL
        BY <2>4, <3>2, GivenFacts DEF TypeOK
      <3>4. TypeOK'
        BY <2>1, <2>5, <3>1, <3>3 DEF TypeOK, Managers
      <3>5. SettingsInv'
        BY <2>1, <2>4, <3>1, <3>2 DEF SettingsInv
      <3>6. OpenInv'
        BY <2>1, <2>5, <3>1 DEF OpenInv, Before, Past, Managers
      <3>7. ReasonInv'
        BY <3>1 DEF ReasonInv
      <3> QED
        BY <2>6, <3>4, <3>5, <3>6, <3>7
    <2> QED
      BY <2>7, <2>8
  <1>3. ASSUME NEW m \in Managers, BeginInit(m)
        PROVE  StartupInv'
    <2>1. /\ pc = m /\ reader \in Readers(file) /\ reader # NULL /\ todo = NULL
          /\ file' = file /\ up' = up /\ settings' = settings
      BY <1>3 DEF BeginInit, ReaderInv
    <2>2. GetConfigName(List(m)) = Answer(file, List(m))
      BY <2>1, ReaderFacts
    <2>3. CASE Answer(file, List(m)) = NULL
      <3>1. Stop(m)
        BY <1>3, <2>2, <2>3 DEF BeginInit
      <3>2. Lacks(file, up, m)
        BY <2>3 DEF Lacks
      <3> QED
        BY <2>1, <3>1, <3>2, StopStep
    <2>4. CASE Answer(file, List(m)) # NULL
      <3>1. todo' = Names(file, m) /\ pc' = pc /\ reader' = reader /\ pools' = pools
        BY <1>3, <2>2, <2>4 DEF BeginInit, Names
      <3>2. PartlyOpen(Names(file, m), <<>>, file, m) /\ Names(file, m) # NULL
        BY <2>4, NothingOpen DEF TypeOK
      <3>3. pools[m] = <<>>
        BY <2>1 DEF OpenInv
      <3>4. TypeOK'
        BY <2>1, <3>1 DEF TypeOK
      <3>5. ReaderInv'
        BY <2>1, <3>1 DEF ReaderInv
      <3>6. SettingsInv'
        BY <2>1, <3>1 DEF SettingsInv
      <3>7. OpenInv'
        <4> SUFFICES ASSUME NEW k \in Managers
                     PROVE  /\ pc' \in Before(k) => pools'[k] = <<>>
                            /\ pc' = k /\ todo' = NULL => pools'[k] = <<>>
                            /\ pc' = k /\ todo' # NULL => PartlyOpen(todo', pools'[k], file', k)
                            /\ pc' \in Past(k) => PartlyOpen(<<>>, pools'[k], file', k)
          BY DEF OpenInv
        <4> QED
          BY <2>1, <3>1, <3>2, <3>3 DEF OpenInv
      <3>8. ReasonInv'
        BY <2>1, <3>1 DEF ReasonInv, Managers
      <3> QED
        BY <3>4, <3>5, <3>6, <3>7, <3>8
    <2> QED
      BY <2>3, <2>4
  <1>4. ASSUME NEW m \in Managers, OpenPool(m)
        PROVE  StartupInv'
    <2>1. /\ pc = m /\ todo \notin {NULL, <<>>} /\ Head(todo) # Junk
          /\ file' = file /\ up' = up /\ settings' = settings
      BY <1>4 DEF OpenPool
    <2>2. /\ PartlyOpen(todo, pools[m], file, m) /\ Head(todo) \in Elements(Names(file, m))
          /\ reader \in Readers(file)
      BY <2>1, WorkFacts
    <2>3. PICK n : n = Head(todo)
      OBVIOUS
    <2>4. Parameters(n, m) = Asked(file, n, m)
      <3>1. \A g : GetConfigName(Key(n, g)) = Answer(file, Key(n, g))
        BY <2>2, ReaderFacts
      <3> QED
        BY <3>1 DEF Parameters, Asked
    <2>5. /\ \A g \in Fields(m) : Asked(file, n, m)[g] = Answer(file, Key(n, g))
          /\ [g \in Login(m) |-> Asked(file, n, m)[g]] = [g \in Login(m) |-> Answer(file, Key(n, g))]
      <3>1. \A g \in Fields(m) : Asked(file, n, m)[g] = Answer(file, Key(n, g))
        BY DEF Asked
      <3>2. \A g \in Login(m) : g \in Fields(m)
        BY DEF Login
      <3> QED
        BY <3>1, <3>2
    <2>6. CASE (\E g \in Fields(m) : Asked(file, n, m)[g] = NULL) \/ [g \in Login(m) |-> Asked(file, n, m)[g]] \notin up
      <3>1. Stop(m)
        BY <1>4, <2>3, <2>4, <2>6 DEF OpenPool
      <3>2. Lacks(file, up, m)
        BY <2>2, <2>3, <2>5, <2>6 DEF Lacks
      <3> QED
        BY <2>1, <3>1, <3>2, StopStep
    <2>7. CASE ~((\E g \in Fields(m) : Asked(file, n, m)[g] = NULL) \/ [g \in Login(m) |-> Asked(file, n, m)[g]] \notin up)
      <3>1. /\ pools' = [pools EXCEPT ![m] = Inserted(@, n, Asked(file, n, m))]
            /\ todo' = Tail(todo) /\ pc' = pc /\ reader' = reader
        BY <1>4, <2>3, <2>4, <2>7 DEF OpenPool
      <3>2. PICK q : q = Inserted(pools[m], n, Asked(file, n, m))
        OBVIOUS
      <3>3. /\ pools' = [k \in Managers |-> IF k = m THEN q ELSE pools[k]]
            /\ pools'[m] = q /\ \A k \in Managers : k # m => pools'[k] = pools[k]
        BY <3>1, <3>2 DEF ReaderInv
      <3>4. \A g \in Fields(m) : Answer(file, Key(Head(todo), g)) # NULL
        BY <2>3, <2>5, <2>7
      <3>5. PartlyOpen(Tail(todo), q, file, m) /\ Tail(todo) # NULL
        BY <2>1, <2>2, <2>3, <3>2, <3>4, OneMoreOpen DEF TypeOK
      <3>6. TypeOK'
        <4>1. m = "db" \/ m = "cache"
          BY DEF Managers
        <4>2. pools'["cache"] # <<>> => pc' \in {"cache", "serving", "crashed"}
          BY <2>1, <3>1, <3>3, <4>1 DEF TypeOK, Managers
        <4>3. pc' # "load" /\ reader # NULL /\ pc' # "serving"
          BY <2>1, <3>1 DEF TypeOK, Managers
        <4> QED
          BY <2>1, <3>1, <4>2, <4>3 DEF TypeOK
      <3>7. ReaderInv'
        BY <2>1, <3>1, <3>3 DEF ReaderInv
      <3>8. SettingsInv'
        BY <2>1, <3>1 DEF SettingsInv
      <3>9. OpenInv'
        <4> SUFFICES ASSUME NEW k \in Managers
                     PROVE  /\ pc' \in Before(k) => pools'[k] = <<>>
                            /\ pc' = k /\ todo' = NULL => pools'[k] = <<>>
                            /\ pc' = k /\ todo' # NULL => PartlyOpen(todo', pools'[k], file', k)
                            /\ pc' \in Past(k) => PartlyOpen(<<>>, pools'[k], file', k)
          BY DEF OpenInv
        <4>1. CASE k = m
          <5>1. m \notin Before(m) /\ m \notin Past(m)
            BY DEF Before, Past, Managers
          <5> QED
            BY <2>1, <3>1, <3>3, <3>5, <4>1, <5>1
        <4>2. CASE k # m
          BY <2>1, <3>1, <3>3, <4>2 DEF OpenInv
        <4> QED
          BY <4>1, <4>2
      <3>10. ReasonInv'
        BY <2>1, <3>1 DEF ReasonInv, Managers
      <3> QED
        BY <3>6, <3>7, <3>8, <3>9, <3>10
    <2> QED
      BY <2>6, <2>7
  <1>5. ASSUME NEW m \in Managers, OpenJunk(m)
        PROVE  StartupInv'
    <2>1. /\ pc = m /\ todo \notin {NULL, <<>>} /\ Head(todo) = Junk
          /\ file' = file /\ up' = up /\ settings' = settings
      BY <1>5 DEF OpenJunk
    <2>2. Head(todo) \in Elements(Names(file, m))
      BY <2>1, WorkFacts
    <2>3. Lacks(file, up, m)
      BY <2>1, <2>2 DEF Lacks
    <2>4. CASE Stop(m)
      BY <2>1, <2>3, <2>4, StopStep
    <2>5. CASE pc' = "crashed" /\ UNCHANGED <<reader, todo, pools>>
      <3>1. pc' = "crashed" /\ reader' = reader /\ todo' = todo /\ pools' = pools
        BY <2>5
      <3>2. ReasonInv'
        BY <2>1, <2>3 DEF ReasonInv
      <3>3. TypeOK'
        BY <2>1, <3>1 DEF TypeOK
      <3>4. ReaderInv'
        BY <2>1, <3>1 DEF ReaderInv
      <3>5. SettingsInv'
        BY <3>1 DEF SettingsInv, Managers
      <3>6. OpenInv'
        BY <3>1 DEF OpenInv, Before, Past, Managers
      <3> QED
        BY <3>2, <3>3, <3>4, <3>5, <3>6
    <2> QED
      BY <1>5, <2>4, <2>5 DEF OpenJunk
  <1>6. ASSUME NEW m \in Managers, EndInit(m)
        PROVE  StartupInv'
    <2>1. /\ pc = m /\ todo = <<>> /\ pc' = After(m) /\ reader' = NULL /\ todo' = NULL
          /\ file' = file /\ up' = up /\ settings' = settings /\ pools' = pools
      BY <1>6 DEF EndInit
    <2>2. (m = "db" /\ pc' = "cache") \/ (m = "cache" /\ pc' = "serving")
      BY <2>1 DEF Managers, After
    <2>3. todo # NULL
      <3>1. <<>> \in Seq(Text \cup {Junk})
        OBVIOUS
      <3> QED
        BY <2>1, <3>1, StartupAssumption
    <2>4. PartlyOpen(<<>>, pools[m], file, m)
      BY <2>1, <2>3 DEF OpenInv
    <2>5. TypeOK'
      BY <2>1, <2>2 DEF TypeOK, Managers
    <2>6. ReaderInv'
      BY <2>1 DEF ReaderInv
    <2>7. SettingsInv'
      BY <2>1, <2>2 DEF SettingsInv, Managers
    <2>8. OpenInv'
      <3>1. CASE m = "db"
        <4>1. pools["cache"] = <<>>
          BY <2>1, <3>1 DEF TypeOK
        <4> QED
          BY <2>1, <2>2, <2>4, <3>1, <4>1 DEF OpenInv, Before, Past, Managers
      <3>2. CASE m = "cache"
        <4>1. PartlyOpen(<<>>, pools["db"], file, "db")
          BY <2>1, <3>2 DEF OpenInv, Past, Managers
        <4> QED
          BY <2>1, <2>2, <2>4, <3>2, <4>1 DEF OpenInv, Before, Past, Managers
      <3> QED
        BY <2>2, <3>1, <3>2
    <2>9. ReasonInv'
      BY <2>2 DEF ReasonInv
    <2> QED
      BY <2>5, <2>6, <2>7, <2>8, <2>9
  <1>7. CASE UNCHANGED vars
    BY <1>7 DEF vars, TypeOK, ReaderInv, SettingsInv, OpenInv, ReasonInv
  <1>8. CASE Terminating
    BY <1>7, <1>8 DEF Terminating
  <1> QED
    BY <1>1, <1>2, <1>3, <1>4, <1>5, <1>6, <1>7, <1>8 DEF Next

\* It holds when main starts.
LEMMA StartupInit == Init => StartupInv
  <1> SUFFICES ASSUME Init PROVE StartupInv
    OBVIOUS
  <1>1. /\ file \in Files /\ up \in SUBSET Servers /\ pc = "load" /\ reader = NULL /\ todo = NULL
        /\ settings = NULL /\ pools = [m \in Managers |-> <<>>]
    BY DEF Init
  <1>2. \A m \in Managers : pools[m] = <<>>
    BY <1>1
  <1>3. TypeOK
    BY <1>1, <1>2 DEF TypeOK, Managers
  <1>4. ReaderInv
    BY <1>1, <1>2 DEF ReaderInv
  <1>5. SettingsInv
    BY <1>1 DEF SettingsInv, Managers
  <1>6. OpenInv
    BY <1>1, <1>2 DEF OpenInv, Past, Managers
  <1>7. ReasonInv
    BY <1>1 DEF ReasonInv
  <1> QED
    BY <1>3, <1>4, <1>5, <1>6, <1>7 DEF StartupInv

\* The invariant holds throughout.
LEMMA StartupInvariant == Spec => []StartupInv
  BY StartupInit, StartupStep, PTL DEF Spec

-----------------------------------------------------------------------------
(***************************************************************************)
(* The theorems                                                            *)
(***************************************************************************)
\* Main is where its variables say: a manager that has something to open has a
\* reader, no pool is there before its manager, and nobody serves without settings.
THEOREM StartupTypeCorrect == Spec => []TypeOK
  <1>1. StartupInv => TypeOK
    BY DEF StartupInv
  <1> QED
    BY <1>1, StartupInvariant, PTL

\* For a file whose lines fit the reader's buffer, what the reader answers is what
\* the file says.
LEMMA AnswerIsSetting ==
  ASSUME NEW f \in Files, f # Missing, Fits(f), NEW x
  PROVE  Answer(f, x) = Setting(f, x)
  BY ConfigFacts DEF Answer

\* A key that fits is asked for as it stands.
LEMMA KeyKept ==
  ASSUME NEW n \in Text, NEW m \in Managers, KeysFit(n, m), NEW g \in Fields(m)
  PROVE  Key(n, g) = n \o g
  <1>1. PICK W : g \in Seq(W)
    <2> DEFINE words == {"_host", "_port", "_max", "conn", "cnt", "_db", "name", "_user", "_pass", "word"}
    <2>1. /\ <<"_host">> \in Seq(words) /\ <<"_port">> \in Seq(words) /\ <<"_db">> \in Seq(words)
          /\ <<"_max", "conn", "cnt">> \in Seq(words)
      OBVIOUS
    <2>2. /\ <<"_db", "name">> \in Seq(words) /\ <<"_user", "name">> \in Seq(words)
          /\ <<"_pass", "word">> \in Seq(words)
      OBVIOUS
    <2>3. g \in Seq(words)
      BY <2>1, <2>2 DEF Fields, Limit
    <2> QED
      BY <2>3
  <1>2. PICK S : S = Characters \cup W
    OBVIOUS
  <1>3. n \in Seq(S) /\ g \in Seq(S)
    <2>1. n \in Seq(Characters)
      BY DEF Text
    <2> QED
      BY <1>1, <1>2, <2>1
  <1>4. PICK k \in Seq(S) : k = n \o g
    <2>1. n \o g \in Seq(S)
      BY <1>3, ConcatProperties
    <2> QED
      BY <2>1
  <1>5. Len(k) <= KeyMax
    BY <1>4 DEF KeysFit
  <1>6. Key(n, g) = SubSeq(k, 1, Len(k))
    BY <1>4, <1>5 DEF Key
  <1> QED
    BY <1>4, <1>6, SubSeqFull

\* The names a manager works through are texts.
LEMMA NamesAreTexts ==
  ASSUME NEW f, NEW m, Answer(f, List(m)) \in Text, NEW n \in Elements(Names(f, m)), n # Junk
  PROVE  n \in Text
  <1>1. Names(f, m) \in Seq(Text \cup {Junk})
    BY ExplodeFacts DEF Names
  <1> QED
    BY <1>1 DEF Elements

\* A process that serves has a pool for every instance its file lists, under its
\* name, and no other one; that of an instance whose keys are not too long is
\* connected as the file says; and it was given the upload settings the file holds:
\* for any file without a line the reader would cut.
THEOREM ServesWhatIsConfigured == Spec => []PoolsAsConfigured
  <1>1. ASSUME StartupInv
        PROVE  PoolsAsConfigured
    <2> SUFFICES ASSUME pc = "serving", Fits(file)
                 PROVE  /\ \A s \in UploadSettings : settings[s] = Setting(file, s) /\ settings[s] # NULL
                        /\ \A m \in Managers :
                             LET names == Between(Setting(file, List(m)))
                             IN  /\ DOMAIN pools[m] = names
                                 /\ \A n \in names : KeysFit(n, m) =>
                                      \A g \in Fields(m) : FindPool(m, n)[g] = Setting(file, n \o g)
      BY DEF PoolsAsConfigured
    <2>1. /\ settings = [s \in UploadSettings |-> Answer(file, s)]
          /\ \A s \in UploadSettings : Answer(file, s) # NULL
      BY <1>1 DEF StartupInv, SettingsInv
    <2>2. file \in Files /\ file # Missing
      <3>1. <<"dfs_path_client">> \in UploadSettings
        BY DEF UploadSettings
      <3> QED
        BY <1>1, <2>1, <3>1 DEF StartupInv, TypeOK, Answer
    <2>3. \A x : Answer(file, x) = Setting(file, x)
      BY <2>2, AnswerIsSetting
    <2>4. ASSUME NEW m \in Managers
          PROVE  /\ DOMAIN pools[m] = Between(Setting(file, List(m)))
                 /\ \A n \in DOMAIN pools[m] : KeysFit(n, m) =>
                      \A g \in Fields(m) : FindPool(m, n)[g] = Setting(file, n \o g)
      <3>1. PartlyOpen(<<>>, pools[m], file, m)
        BY <1>1 DEF StartupInv, OpenInv, Past
      <3>2. Answer(file, List(m)) \in Text
        BY <2>2, <3>1, AnswerFacts DEF PartlyOpen
      <3>3. Elements(<<>>) = {}
        BY DEF Elements
      <3>4. DOMAIN pools[m] = Elements(Names(file, m)) /\ Junk \notin Elements(Names(file, m))
        BY <3>1, <3>3 DEF PartlyOpen
      <3>5. DOMAIN pools[m] = Between(Answer(file, List(m)))
        BY <3>2, <3>4, ExplodeFacts DEF Names
      <3>6. ASSUME NEW n \in DOMAIN pools[m], KeysFit(n, m), NEW g \in Fields(m)
            PROVE  FindPool(m, n)[g] = Setting(file, n \o g)
        <4>1. pools[m][n] = Asked(file, n, m)
          BY <3>1 DEF PartlyOpen
        <4>2. FindPool(m, n) = Asked(file, n, m)
          BY <4>1 DEF FindPool
        <4>3. Asked(file, n, m)[g] = Answer(file, Key(n, g))
          BY DEF Asked
        <4>4. n \in Text
          BY <3>2, <3>4, NamesAreTexts
        <4>5. Key(n, g) = n \o g
          BY <3>6, <4>4, KeyKept
        <4> QED
          BY <2>3, <4>2, <4>3, <4>5
      <3> QED
        BY <2>3, <3>5, <3>6
    <2> QED
      BY <2>1, <2>3, <2>4
  <1> QED
    BY <1>1, StartupInvariant, PTL

\* The process neither gives up nor dies over a file that lacks nothing, cuts no
\* line and no key, and names accounts there are, when all accounts are let in.
THEOREM RefusesForAReason == Spec => []RefusedForAReason
  <1>1. ASSUME StartupInv
        PROVE  RefusedForAReason
    <2> SUFFICES ASSUME pc \in {"stopped", "crashed"}, Complete(file), up = Servers
                 PROVE  FALSE
      BY DEF RefusedForAReason
    <2>1. /\ file \in Files /\ file # Missing /\ Fits(file)
          /\ \A s \in UploadSettings : Setting(file, s) # NULL
      BY <1>1 DEF StartupInv, TypeOK, Complete
    <2>2. \A x : Answer(file, x) = Setting(file, x)
      BY <2>1, AnswerIsSetting
    <2>3. PICK m \in Managers : Lacks(file, up, m)
      BY <1>1, <2>1, <2>2 DEF StartupInv, ReasonInv
    <2>4. PICK list : list = Answer(file, List(m))
      OBVIOUS
    <2>5. /\ list # NULL
          /\ \A n \in Between(list) :
               /\ n # <<>> /\ KeysFit(n, m)
               /\ \A g \in Fields(m) : Answer(file, n \o g) # NULL
               /\ [g \in Login(m) |-> Answer(file, n \o g)] \in Servers
      BY <2>2, <2>4 DEF Complete
    <2>6. list \in Text
      BY <2>1, <2>4, <2>5, AnswerFacts
    <2>7. Junk \notin Elements(Explode(list)) /\ Elements(Explode(list)) = Between(list)
      BY <2>5, <2>6, ExplodeFacts
    <2>8. Elements(Names(file, m)) = Between(list)
      BY <2>4, <2>7 DEF Names
    <2>9. PICK n \in Between(list) :
            \/ \E g \in Fields(m) : Answer(file, Key(n, g)) = NULL
            \/ [g \in Login(m) |-> Answer(file, Key(n, g))] \notin Servers
      BY <2>3, <2>4, <2>5, <2>7, <2>8 DEF Lacks
    <2>10. n \in Text
      BY <2>4, <2>6, <2>7, <2>8, NamesAreTexts
    <2>11. \A g \in Fields(m) : Key(n, g) = n \o g
      BY <2>5, <2>10, KeyKept
    <2>12. [g \in Login(m) |-> Answer(file, Key(n, g))] = [g \in Login(m) |-> Answer(file, n \o g)]
      <3>1. \A g \in Login(m) : Key(n, g) = n \o g
        BY <2>11 DEF Login
      <3> QED
        BY <3>1
    <2> QED
      BY <2>5, <2>9, <2>11, <2>12
  <1> QED
    BY <1>1, StartupInvariant, PTL
=============================================================================
