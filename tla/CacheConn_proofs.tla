-------------------------- MODULE CacheConn_proofs --------------------------
(***************************************************************************)
(* What holds of a Redis connection for any set of methods and any bound:  *)
(* a counter stays between the calls that were acknowledged and those that *)
(* were made, and three connects are never tried within a second.          *)
(***************************************************************************)
EXTENDS CacheConn, TLAPS

-----------------------------------------------------------------------------
\* time(NULL) at that tick.
SecondOf(tick) == tick \div TicksPerSecond

\* Every connect was tried in a second of its own, none later than the one that
\* last_connect_time_ keeps.
Spread ==
  \A i \in DOMAIN connects :
    /\ SecondOf(connects[i]) <= last_connect_time_
    /\ \A j \in DOMAIN connects : i < j => SecondOf(connects[i]) < SecondOf(connects[j])

\* The clock in seconds is a number again.
LEMMA TimeFacts ==
  /\ \A tick \in Nat : tick \div TicksPerSecond \in Nat
  /\ TypeOK => time \in Nat
  <1>1. ASSUME NEW tick \in Nat
        PROVE  tick \div TicksPerSecond \in Nat
    BY CacheConnAssumption, TicksPerSecond > 0
  <1> QED
    BY <1>1 DEF time, TypeOK

\* Ticks with a whole second between their seconds are more than a second apart.
LEMMA SecondFacts ==
  ASSUME NEW a \in Nat, NEW b \in Nat, NEW s \in Nat, SecondOf(a) < s, s < SecondOf(b)
  PROVE  b - a > TicksPerSecond
  <1> DEFINE T == TicksPerSecond
             p == SecondOf(a)
             q == SecondOf(b)
  <1>1. T \in Nat /\ T > 0 /\ p \in Nat /\ q \in Nat
    BY CacheConnAssumption, TimeFacts DEF SecondOf
  <1>2. a < T * p + T /\ T * q <= b
    BY CacheConnAssumption DEF SecondOf
  <1>3. T * q >= T * (p + 2)
    BY <1>1
  <1>4. T * (p + 2) = T * p + T + T
    BY <1>1
  <1> QED
    BY <1>1, <1>2, <1>3, <1>4

-----------------------------------------------------------------------------
\* A method whose reply is lost frees the context, keeps it, or crashes.
LEMMA AfterNullFacts ==
  ASSUME NEW m \in Methods
  PROVE  AfterNull(m) \in {"NULL", "broken", "crash"}
  <1>1. \A table \in Tables : \A k \in DOMAIN table : table[k].null \in {"NULL", "broken", "crash"}
    BY DEF Tables, Takes, StringMethods, KeyMethods, HashMethods, BulkHashMethods, CountMethods,
           AddMethods, ListMethods, ZsetMethods, ZsetReaders, FlushMethods
  <1>2. PICK table \in Tables : m \in DOMAIN table
    BY CacheConnAssumption DEF AllMethods
  <1>3. Method[m] = (CHOOSE t \in Tables : m \in DOMAIN t)[m]
    BY CacheConnAssumption DEF Method
  <1> QED
    BY <1>1, <1>2, <1>3 DEF AfterNull

\* Incr adds one to a number or to a key that is not there, and to nothing else.
LEMMA IncrFacts ==
  ASSUME NEW ctx
  PROVE  IF ctx = "good" /\ key.type \in {"none", "number"}
         THEN /\ Executed("Incr", ctx) = [type |-> "number", n |-> key.n + 1]
              /\ Reply("Incr", ctx) = "INTEGER"
         ELSE Executed("Incr", ctx) = key /\ Reply("Incr", ctx) = "ERROR"
  <1>1. "Incr" \in Numbers /\ "Incr" \notin Hashes \cup Lists \cup Zsets
    BY DEF Numbers, CountMethods, Hashes, HashMethods, BulkHashMethods, Lists, ListMethods,
           Zsets, ZsetMethods, ZsetReaders
  <1>2. Accepts("Incr") = {"none", "number"}
    BY <1>1 DEF Accepts
  <1> QED
    BY <1>2 DEF Executed, Reply, Obeys

\* Whatever is executed within the bound leaves a key of the right type, and a
\* context the server refuses executes nothing.
LEMMA ExecutedFacts ==
  ASSUME TypeOK, NEW m \in Methods, NEW ctx, Room(m)
  PROVE  Executed(m, ctx) \in [type : Types, n : -MaxN .. MaxN]
  <1>1. CASE ctx = "good"
    <2>1. Executed(m, ctx).n \in -MaxN .. MaxN
      BY <1>1 DEF Room
    <2>2. Executed(m, ctx) = key \/ \E t \in Types : \E n : Executed(m, ctx) = [type |-> t, n |-> n]
      BY DEF Executed, Types
    <2>3. ASSUME NEW t \in Types, NEW n, Executed(m, ctx) = [type |-> t, n |-> n]
          PROVE  Executed(m, ctx) \in [type : Types, n : -MaxN .. MaxN]
      BY <2>1, <2>3
    <2> QED
      BY <2>2, <2>3 DEF TypeOK
  <1>2. CASE ctx # "good"
    BY <1>2 DEF Executed, Obeys, TypeOK
  <1> QED
    BY <1>1, <1>2

-----------------------------------------------------------------------------
\* A connection that has just been made is well typed, and nothing was counted.
LEMMA ConnInit == Init => TypeOK /\ AtMostOnce /\ Spread
  BY CacheConnAssumption DEF Init, TypeOK, AtMostOnce, Spread, Types

\* What Init() can come back with.
LEMMA OutcomeFacts ==
  ASSUME TypeOK, NEW o \in InitOutcomes
  PROVE  /\ o.ret \in {-1, 0, 1, 2}
         /\ o.ctx \in {"NULL", "good", "refused", "broken"}
  BY DEF TypeOK, InitOutcomes, Handshake, Outcome

\* What a call does to the connection, whatever it does to the key.
LEMMA CallConnection ==
  ASSUME TypeOK, NEW m \in Methods, Call(m)
  PROVE  /\ server' \in {"up", "down"} /\ now' \in Nat
         /\ last_connect_time_' \in Nat /\ connects' \in Seq(Nat)
         /\ context_' \in {"NULL", "good", "refused", "broken"} /\ alive' \in BOOLEAN
         /\ last'.init \in {-1, 0, 1, 2} /\ last'.report \in {"none", "ok", "fail"}
  <1>1. PICK o \in InitOutcomes : NotReady(m, o) \/ Answered(m, o) \/ Lost(m, o)
    BY DEF Call
  <1>2. o.ret \in {-1, 0, 1, 2} /\ o.ctx \in {"NULL", "good", "refused", "broken"}
    BY OutcomeFacts
  <1>3. /\ server' \in {"up", "down"} /\ now' \in Nat
        /\ last_connect_time_' \in Nat /\ connects' \in Seq(Nat)
    <2>1. time \in Nat /\ now \in Nat /\ last_connect_time_ \in Nat /\ connects \in Seq(Nat)
      BY TimeFacts DEF TypeOK
    <2>2. \/ last_connect_time_' = time /\ connects' = Append(connects, now)
          \/ last_connect_time_' = last_connect_time_ /\ connects' = connects
      BY DEF Call
    <2>3. server' = server /\ now' = now
      BY DEF Call
    <2>4. last_connect_time_' \in Nat /\ connects' \in Seq(Nat)
      <3>1. Append(connects, now) \in Seq(Nat)
        BY <2>1
      <3> QED
        BY <2>1, <2>2, <3>1
    <2> QED
      BY <2>1, <2>3, <2>4 DEF TypeOK
  <1>4. CASE NotReady(m, o)
    BY <1>2, <1>3, <1>4 DEF NotReady, TypeOK
  <1>5. CASE Answered(m, o)
    BY <1>2, <1>3, <1>5 DEF Answered, TypeOK, Report
  <1>6. CASE Lost(m, o)
    BY <1>3, <1>6, AfterNullFacts DEF Lost
  <1> QED
    BY <1>1, <1>4, <1>5, <1>6

\* A call keeps the counts in order: the key moves up by at most one, together
\* with the number of calls made, and the acknowledged ones follow only then.
LEMMA CallCounts ==
  ASSUME TypeOK, AtMostOnce, NEW m \in Methods, Call(m)
  PROVE  /\ key' \in [type : Types, n : -MaxN .. MaxN]
         /\ tried' \in -MaxN .. MaxN /\ acked' \in -MaxN .. MaxN
         /\ AtMostOnce'
  <1>1. PICK o \in InitOutcomes : NotReady(m, o) \/ Answered(m, o) \/ Lost(m, o)
    BY DEF Call
  <1>2. Executed(m, o.ctx) \in [type : Types, n : -MaxN .. MaxN]
    BY ExecutedFacts DEF Call
  <1>3. /\ key \in [type : Types, n : -MaxN .. MaxN]
        /\ tried \in -MaxN .. MaxN /\ acked \in -MaxN .. MaxN /\ MaxN \in Nat
    BY CacheConnAssumption DEF TypeOK
  <1>4. key' \in {key, Executed(m, o.ctx)}
    BY <1>1 DEF NotReady, Answered, Lost
  <1>5. key' \in [type : Types, n : -MaxN .. MaxN]
    BY <1>2, <1>3, <1>4
  <1>6. tried' = (CASE m = "Incr" -> tried + 1 [] m # "Incr" /\ key' # key -> key'.n [] OTHER -> tried)
    BY DEF Call
  <1>7. m = "Incr" => tried < MaxN
    BY DEF Call, Room
  <1>8. CASE m = "Incr"
    <2>1. \/ Executed(m, o.ctx) = key
          \/ /\ key.type \in {"none", "number"}
             /\ Executed(m, o.ctx) = [type |-> "number", n |-> key.n + 1]
      BY <1>8, IncrFacts
    <2>2. acked' \in {acked, acked + 1}
      BY <1>1, <1>8 DEF NotReady, Answered, Lost
    <2>3. ASSUME acked' # acked
          PROVE  /\ key.type \in {"none", "number"}
                 /\ key' = [type |-> "number", n |-> key.n + 1]
      <3>1. Answered(m, o) /\ Reply("Incr", o.ctx) # "ERROR"
        BY <1>1, <1>8, <2>3 DEF NotReady, Answered, Lost
      <3> QED
        BY <1>8, <3>1, IncrFacts DEF Answered
    <2>4. AtMostOnce'
      <3>1. CASE acked' = acked
        BY <1>3, <1>4, <1>6, <1>8, <2>1, <3>1 DEF AtMostOnce
      <3>2. CASE acked' # acked
        BY <1>3, <1>6, <1>8, <2>2, <2>3, <3>2 DEF AtMostOnce
      <3> QED
        BY <3>1, <3>2
    <2>5. tried' \in -MaxN .. MaxN
      BY <1>3, <1>6, <1>7, <1>8
    <2>6. acked' \in -MaxN .. MaxN
      <3>1. ASSUME acked' # acked
            PROVE  acked' <= key'.n
        BY <1>3, <2>2, <2>3, <3>1 DEF AtMostOnce
      <3> QED
        BY <1>3, <1>5, <2>2, <3>1
    <2> QED
      BY <1>5, <2>4, <2>5, <2>6
  <1>9. CASE m # "Incr"
    <2>1. acked' = IF key' # key THEN key'.n ELSE acked
      BY <1>1, <1>9 DEF NotReady, Answered, Lost
    <2>2. tried' = IF key' # key THEN key'.n ELSE tried
      BY <1>6, <1>9
    <2> QED
      BY <1>3, <1>5, <2>1, <2>2 DEF AtMostOnce
  <1> QED
    BY <1>8, <1>9

\* Every step keeps the types and the order of the counts.
LEMMA ConnStep == TypeOK /\ AtMostOnce /\ [Next]_vars => TypeOK' /\ AtMostOnce'
  <1> SUFFICES ASSUME TypeOK, AtMostOnce, [Next]_vars
               PROVE  TypeOK' /\ AtMostOnce'
    OBVIOUS
  <1>1. CASE Tick
    BY <1>1 DEF Tick, counts, TypeOK, AtMostOnce
  <1>2. CASE Crash
    BY <1>2 DEF Crash, counts, TypeOK, AtMostOnce
  <1>3. CASE Restart
    BY <1>3 DEF Restart, counts, TypeOK, AtMostOnce
  <1>4. CASE DeInit
    BY <1>4 DEF DeInit, counts, TypeOK, AtMostOnce
  <1>5. ASSUME NEW m \in Methods, Call(m)
        PROVE  TypeOK' /\ AtMostOnce'
    BY <1>5, CallConnection, CallCounts DEF TypeOK
  <1>6. CASE UNCHANGED vars
    BY <1>6 DEF vars, counts, TypeOK, AtMostOnce
  <1> QED
    BY <1>1, <1>2, <1>3, <1>4, <1>5, <1>6 DEF Next

\* A step tries one connect at most, and the second of it is later than that of
\* every connect before.
LEMMA SpreadStep == TypeOK /\ Spread /\ [Next]_vars => Spread'
  <1> SUFFICES ASSUME TypeOK, Spread, [Next]_vars
               PROVE  Spread'
    OBVIOUS
  <1>1. CASE UNCHANGED <<last_connect_time_, connects>>
    BY <1>1 DEF Spread
  <1>2. ASSUME last_connect_time_' = time, connects' = Append(connects, now), ~Throttled
        PROVE  Spread'
    <2>1. connects \in Seq(Nat) /\ now \in Nat /\ time \in Nat /\ last_connect_time_ \in Nat
      BY TimeFacts DEF TypeOK
    <2>2. last_connect_time_ < time
      BY <1>2, <2>1 DEF Throttled
    <2>3. DOMAIN connects' = 1 .. Len(connects) + 1 /\ DOMAIN connects = 1 .. Len(connects)
      BY <1>2, <2>1
    <2>4. \A i \in DOMAIN connects' :
            SecondOf(connects'[i]) = IF i \in DOMAIN connects THEN SecondOf(connects[i]) ELSE time
      BY <1>2, <2>1, <2>3 DEF SecondOf, time
    <2>5. \A i \in DOMAIN connects : SecondOf(connects[i]) \in Nat /\ SecondOf(connects[i]) < time
      <3> SUFFICES ASSUME NEW i \in DOMAIN connects
                   PROVE  SecondOf(connects[i]) \in Nat /\ SecondOf(connects[i]) < time
        OBVIOUS
      <3>1. SecondOf(connects[i]) \in Nat
        BY <2>1, TimeFacts DEF SecondOf
      <3>2. SecondOf(connects[i]) <= last_connect_time_
        BY DEF Spread
      <3> QED
        BY <2>1, <2>2, <3>1, <3>2
    <2> QED
      BY <1>2, <2>1, <2>3, <2>4, <2>5 DEF Spread
  <1>3. ASSUME NEW m \in Methods, Call(m)
        PROVE  Spread'
    BY <1>1, <1>2, <1>3 DEF Call, Connects
  <1> QED
    BY <1>1, <1>3 DEF Next, Tick, Crash, Restart, DeInit, vars

-----------------------------------------------------------------------------
\* The variables of a connection keep their types: no reply makes Init, a
\* method or the loss of a context leave anything else in them.
THEOREM ConnTypeCorrect == Spec => []TypeOK
  <1>1. Spec => [](TypeOK /\ AtMostOnce)
    BY ConnInit, ConnStep, PTL DEF Spec
  <1> QED
    BY <1>1, PTL

\* A counter is never ahead of the calls that were made nor behind those that
\* were acknowledged, whatever methods are called and however often the
\* connection is lost: no method of CacheConn sends its command twice.
THEOREM CountsOnce == Spec => []AtMostOnce
  <1>1. Spec => [](TypeOK /\ AtMostOnce)
    BY ConnInit, ConnStep, PTL DEF Spec
  <1> QED
    BY <1>1, PTL

\* However many calls are made on a lost connection, and however they lie to the
\* beats of the clock, CacheConn::Init tries no three connects within a second.
THEOREM ConnectsAreSpread == Spec => []ConnectsSpread
  <1>1. Spec => [](TypeOK /\ Spread)
    BY ConnInit, ConnTypeCorrect, SpreadStep, PTL DEF Spec
  <1>2. TypeOK /\ Spread => ConnectsSpread
    <2> SUFFICES ASSUME TypeOK, Spread,
                        NEW i \in DOMAIN connects, NEW j \in DOMAIN connects, i + 2 <= j
                 PROVE  connects[j] - connects[i] > TicksPerSecond
      BY DEF ConnectsSpread
    <2>0. connects \in Seq(Nat)
      BY DEF TypeOK
    <2>1. /\ i \in Nat /\ j \in Nat /\ i + 1 \in DOMAIN connects
          /\ connects[i] \in Nat /\ connects[i + 1] \in Nat /\ connects[j] \in Nat
      BY <2>0
    <2>2. SecondOf(connects[i]) < SecondOf(connects[i + 1]) /\ SecondOf(connects[i + 1]) < SecondOf(connects[j])
      BY <2>1 DEF Spread
    <2>3. SecondOf(connects[i + 1]) \in Nat
      BY <2>1, TimeFacts DEF SecondOf
    <2> QED
      BY <2>1, <2>2, <2>3, SecondFacts
  <1> QED
    BY <1>1, <1>2, PTL
=============================================================================
