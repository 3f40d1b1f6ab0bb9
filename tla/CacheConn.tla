------------------------------ MODULE CacheConn ------------------------------
(***************************************************************************)
(* One Redis connection of the cache pool: CacheConn of                    *)
(* src/src/cache-pool/cache_pool.cc, against a Redis server that crashes,  *)
(* restarts and loses replies.                                             *)
(*                                                                         *)
(* A connection belongs to one thread at a time (CachePool), so a method   *)
(* is one step; whatever the network does during it is a choice among the  *)
(* outcomes.  The keyspace is one key: its type and its number of elements *)
(* (its value, when it is a number).  It survives a restart of the server. *)
(* The clock counts ticks, parts of a second; time(NULL) drops the parts.  *)
(***************************************************************************)
EXTENDS Integers, Sequences

CONSTANTS
  Methods,      \* the methods that are called
  HasPassword,  \* password_ is not empty  (CacheManager::Init passes "")
  TicksPerSecond,
  MaxTime,      \* bound on the clock
  MaxN          \* bound on the value of the key and on the counts of calls

(***************************************************************************)
(* What each method makes of its reply: the types of reply after which its *)
(* result looks like a success, and what it does when there is no reply    *)
(* (NULL): most free the context, HgetBuf keeps it, and the zset methods   *)
(* read through the NULL pointer.                                          *)
(***************************************************************************)
Takes(types, null) == [pleased |-> types, null |-> null]

\* Methods that return reply->integer, or TRUE, whatever the type of the reply.
Anything == {"INTEGER", "ARRAY", "ERROR"}

\* Methods that return reply->str: the text of an error looks like an answer.
AnyText == {"STATUS", "ERROR"}

StringMethods ==
  [Get   |-> Takes({"STRING"}, "NULL"), Set  |-> Takes(AnyText, "NULL"),
   SetEx |-> Takes(AnyText, "NULL"),    MGet |-> Takes(Anything, "NULL")]

KeyMethods == [IsExists |-> Takes({"INTEGER"}, "NULL"), Del |-> Takes(Anything, "NULL")]

HashMethods ==
  [Hdel    |-> Takes(Anything, "NULL"),     Hget |-> Takes({"STRING"}, "NULL"),
   HgetBuf |-> Takes({"STRING"}, "broken"), HgetAll |-> Takes(Anything, "NULL"),
   Hset    |-> Takes(Anything, "NULL"),     HincrBy |-> Takes(Anything, "NULL")]

BulkHashMethods == [Hmset |-> Takes(AnyText, "NULL"), Hmget |-> Takes(Anything, "NULL")]

CountMethods == [m \in {"Incr", "Decr"} |-> Takes(Anything, "NULL")]
AddMethods   == [m \in {"IncrBy"} |-> Takes(Anything, "NULL")]

ListMethods == [m \in {"Lpush", "Rpush", "Llen", "Lrange"} |-> Takes(Anything, "NULL")]

\* ZsetIncr compares the new score with "OK".
ZsetMethods ==
  [ZsetExit |-> Takes({"INTEGER"}, "crash"), ZsetAdd   |-> Takes({"INTEGER"}, "crash"),
   ZsetZrem |-> Takes({"INTEGER"}, "crash"), ZsetIncr  |-> Takes({}, "crash"),
   ZsetZcard |-> Takes({"INTEGER"}, "crash")]

ZsetReaders ==
  [ZsetZrevrange |-> Takes({"ARRAY"}, "crash"), ZsetGetScore |-> Takes({"STRING"}, "crash")]

\* FLUSHDB is answered with a status; the method wants a string "OK".
FlushMethods == [FlushDb |-> Takes({}, "NULL")]

Tables == {StringMethods, KeyMethods, HashMethods, BulkHashMethods, CountMethods,
           AddMethods, ListMethods, ZsetMethods, ZsetReaders, FlushMethods}

AllMethods == UNION {DOMAIN table : table \in Tables}
Method == [m \in AllMethods |-> (CHOOSE table \in Tables : m \in DOMAIN table)[m]]

Numbers    == DOMAIN CountMethods \cup DOMAIN AddMethods
Hashes     == DOMAIN HashMethods \cup DOMAIN BulkHashMethods
Lists      == DOMAIN ListMethods
Zsets      == DOMAIN ZsetMethods \cup DOMAIN ZsetReaders

ASSUME CacheConnAssumption ==
  /\ Methods \subseteq AllMethods
  /\ HasPassword \in BOOLEAN
  /\ TicksPerSecond \in Nat \ {0} /\ MaxTime \in Nat
  /\ MaxN \in Nat

VARIABLES
  server,       \* is Redis up?
  key,          \* [type, n] of the one key
  context_,     \* "NULL", "good", "refused": connected, but the server wants a
                \* password first, or "broken": its socket is dead
  now,          \* the clock, in ticks
  last_connect_time_,  \* in seconds
  connects,     \* history: when each connect was tried
  last,         \* [init, report]: what Init returned to the last call, and how it went
  tried, acked, \* what the key would be if all calls of Incr since it was last
                \* written otherwise had been executed; the acknowledged ones
  alive         \* FALSE once a NULL reply has been dereferenced

counts == <<last, tried, acked, alive>>
vars   == <<server, key, context_, now, last_connect_time_, connects, counts>>

Types == {"none", "number", "text", "hash", "list", "zset"}

-----------------------------------------------------------------------------
(***************************************************************************)
(* The server (external): what it replies, and what the key is afterwards. *)
(***************************************************************************)
Accepts(m) ==
  CASE m \in Numbers                    -> {"none", "number"}
    [] m = "Get"                        -> {"none", "number", "text"}
    [] m \in Hashes                     -> {"none", "hash"}
    [] m \in Lists                      -> {"none", "list"}
    [] m \in Zsets                      -> {"none", "zset"}
    [] OTHER                            -> Types

\* The command is carried out: a server that wants a password first answers
\* everything with an error.
Obeys(m, ctx) == ctx = "good" /\ key.type \in Accepts(m)

Reply(m, ctx) ==
  IF ~Obeys(m, ctx) THEN "ERROR"
  ELSE CASE m \in {"Set", "SetEx", "Hmset", "FlushDb"}  -> "STATUS"
         [] m \in {"Get", "Hget", "HgetBuf", "ZsetGetScore"} ->
                                IF key.type = "none" THEN "NIL" ELSE "STRING"
         [] m = "ZsetIncr"                              -> "STRING"
         [] m \in {"MGet", "HgetAll", "Hmget", "Lrange", "ZsetZrevrange"} -> "ARRAY"
         [] OTHER                                       -> "INTEGER"

Executed(m, ctx) ==
  IF ~Obeys(m, ctx) THEN key
  ELSE CASE m \in {"Set", "SetEx"}               -> [type |-> "text", n |-> 1]
         [] m \in {"Incr", "IncrBy"}             -> [type |-> "number", n |-> key.n + 1]
         [] m = "Decr"                           -> [type |-> "number", n |-> key.n - 1]
         [] m \in {"Hset", "Hmset", "HincrBy"}   -> [type |-> "hash", n |-> 1]
         [] m \in {"Lpush", "Rpush"}             -> [type |-> "list", n |-> key.n + 1]
         [] m \in {"ZsetAdd", "ZsetIncr"}        -> [type |-> "zset", n |-> 1]
         [] m \in {"Del", "FlushDb", "Hdel", "ZsetZrem"} -> [type |-> "none", n |-> 0]
         [] OTHER                                -> key

-----------------------------------------------------------------------------
(***************************************************************************)
(* CacheConn::Init: what it can return, and the context it can leave.      *)
(***************************************************************************)
Outcome(r, c) == [ret |-> r, ctx |-> c]

\* time(NULL)
time == now \div TicksPerSecond

\* Mutant of Throttled: the second of the last attempt is not waited for.
ThrottledBefore == time < last_connect_time_

Throttled == time < last_connect_time_ + 1

\* The handshake on a fresh context.  A refused AUTH or SELECT, and one whose
\* reply is lost, is reported but leaves context_ as it is.  AUTH may be refused
\* by a server that has no password, too, and SELECT by one that is loading.
Handshake ==
  {Outcome(0, "good"), Outcome(2, "good"), Outcome(2, "broken")}
  \cup IF HasPassword THEN {Outcome(-1, ctx) : ctx \in {"good", "refused", "broken"}}
                      ELSE {Outcome(2, "refused")}

Connects == context_ = "NULL" /\ ~Throttled

InitOutcomes ==
  CASE context_ # "NULL" -> {Outcome(0, context_)}
    [] Connects -> {Outcome(1, "NULL")} \cup IF server = "up" THEN Handshake ELSE {}
    [] OTHER    -> {Outcome(1, "NULL")}

\* Mutants of AfterNull: a freed context stays in context_; a dead one does.
AfterNullDangles(m) == IF m \in Zsets THEN "crash" ELSE "freed"
AfterNullKeeps(m)   == "broken"

AfterNull(m) == Method[m].null

Report(m, reply) == IF reply \in Method[m].pleased THEN "ok" ELSE "fail"

-----------------------------------------------------------------------------
Init ==
  /\ server = "up"
  /\ key = [type |-> "none", n |-> 0]
  /\ context_ = "NULL" /\ last_connect_time_ = 0
  /\ now = TicksPerSecond /\ connects = <<>>
  /\ last = [init |-> 0, report |-> "none"]
  /\ tried = 0 /\ acked = 0
  /\ alive = TRUE

\* Init() failed: the method returns its failure value.
NotReady(m, o) ==
  /\ o.ret # 0
  /\ context_' = o.ctx
  /\ last' = [init |-> o.ret, report |-> "fail"]
  /\ UNCHANGED <<key, acked, alive>>

\* The command was answered, and executed unless the answer is an error.
Answered(m, o) ==
  /\ o.ret = 0 /\ o.ctx \in {"good", "refused"} /\ server = "up"
  /\ context_' = o.ctx
  /\ key' = Executed(m, o.ctx)
  /\ last' = [init |-> 0, report |-> Report(m, Reply(m, o.ctx))]
  /\ acked' = CASE m = "Incr" /\ last'.report = "ok" /\ Reply(m, o.ctx) # "ERROR" -> acked + 1
                [] m # "Incr" /\ key' # key -> key'.n
                [] OTHER -> acked
  /\ UNCHANGED alive

\* Mutant of Lost: the command is sent a second time.
LostRetried(m, o) ==
  /\ o.ret = 0
  /\ key' \in {key} \cup IF o.ctx = "good" /\ server = "up" /\ m = "Incr"
                         THEN {[Executed(m, o.ctx) EXCEPT !.n = @ + 1]} ELSE {}
  /\ last' = [init |-> 0, report |-> "fail"]
  /\ context_' = "NULL"
  /\ acked' = IF m # "Incr" /\ key' # key THEN key'.n ELSE acked
  /\ UNCHANGED alive

\* redisCommand returned NULL: the command was lost, or its reply was.
Lost(m, o) ==
  /\ o.ret = 0
  /\ key' \in {key} \cup IF server = "up" THEN {Executed(m, o.ctx)} ELSE {}
  /\ last' = [init |-> 0, report |-> "fail"]
  /\ alive' = (AfterNull(m) # "crash")
  /\ context_' = IF alive' THEN AfterNull(m) ELSE "broken"
  /\ acked' = IF m # "Incr" /\ key' # key THEN key'.n ELSE acked

\* The bound MaxN: counting calls stop there.
Room(m) == /\ m = "Incr" => tried < MaxN
           /\ Executed(m, "good").n \in -MaxN .. MaxN

Call(m) ==
  /\ alive /\ Room(m)
  /\ \E o \in InitOutcomes : NotReady(m, o) \/ Answered(m, o) \/ Lost(m, o)
  /\ IF Connects
     THEN last_connect_time_' = time /\ connects' = Append(connects, now)
     ELSE UNCHANGED <<last_connect_time_, connects>>
  /\ tried' = CASE m = "Incr" -> tried + 1
                [] m # "Incr" /\ key' # key -> key'.n
                [] OTHER -> tried
  /\ UNCHANGED <<server, now>>

Tick ==
  /\ now < MaxTime /\ now' = now + 1
  /\ UNCHANGED <<server, key, context_, last_connect_time_, connects, counts>>

\* The server goes down; the client does not notice that its socket is dead.
Crash ==
  /\ server = "up" /\ server' = "down"
  /\ context_' = IF context_ = "NULL" THEN "NULL" ELSE "broken"
  /\ UNCHANGED <<key, now, last_connect_time_, connects, counts>>

Restart ==
  /\ server = "down" /\ server' = "up"
  /\ UNCHANGED <<key, context_, now, last_connect_time_, connects, counts>>

DeInit ==
  /\ alive /\ context_ # "NULL" /\ context_' = "NULL"
  /\ UNCHANGED <<server, key, now, last_connect_time_, connects, counts>>

Next == Tick \/ Crash \/ Restart \/ DeInit \/ \E m \in Methods : Call(m)

Spec == Init /\ [][Next]_vars

\* Requests keep coming, and their handlers use the connection; the other
\* methods may be called or not.
UsedByHandlers == {"Get", "SetEx"}

Fairness == WF_vars(\E m \in Methods \cap UsedByHandlers : Call(m))

FairSpec == Spec /\ Fairness

-----------------------------------------------------------------------------
TypeOK ==
  /\ server \in {"up", "down"}
  /\ key \in [type : Types, n : -MaxN .. MaxN]
  /\ context_ \in {"NULL", "good", "refused", "broken"}
  /\ now \in Nat /\ last_connect_time_ \in Nat /\ connects \in Seq(Nat)
  /\ last.init \in {-1, 0, 1, 2} /\ last.report \in {"none", "ok", "fail"}
  /\ tried \in -MaxN .. MaxN /\ acked \in -MaxN .. MaxN
  /\ alive \in BOOLEAN

\* A counter is never ahead of the calls that were made nor behind those that
\* were acknowledged, whatever is lost and whenever the connection is made anew:
\* no method repeats a command whose reply it has not seen.
AtMostOnce == key.type \in {"none", "number"} => acked <= key.n /\ key.n <= tried

\* A dead connection is not kept for ever: a command that fails on it frees
\* the context, so that a later one connects again.
DeadContextIsDropped == context_ = "broken" ~> context_ # "broken" \/ ~alive

\* However often a connection is lost and however many calls are made, Redis
\* sees at most two connects of it within any second of its own time: time(NULL)
\* only tells whole seconds apart, so two of them may be a tick apart, never three.
ConnectsSpread ==
  \A i, j \in DOMAIN connects : i + 2 <= j => connects[j] - connects[i] > TicksPerSecond
=============================================================================
