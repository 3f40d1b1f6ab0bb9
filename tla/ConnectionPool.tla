--------------------------- MODULE ConnectionPool ---------------------------
(***************************************************************************)
(* What a pool of connections promises its callers, whatever its locks,    *)
(* queues and condition variables look like.  Both pools of the server,    *)
(* DBPool (MySQL) and CachePool (Redis), are shown to implement it.        *)
(*                                                                         *)
(* Connections are numbered in the order in which the pool makes them, so  *)
(* size is both how many exist and the name of the newest one.             *)
(***************************************************************************)
EXTENDS Integers

CONSTANTS Thread,   \* the callers
          MinConn,  \* connections made when the pool is initialised
          MaxConn   \* configured limit (<pool>_maxconncnt)

VARIABLES idle,     \* connections nobody holds
          lent,     \* [Thread -> connection, 0 for none]
          size,     \* connections made so far
          closed    \* the pool is being destroyed

poolVars == <<idle, lent, size, closed>>

Init == /\ idle = 1 .. MinConn
        /\ lent = [t \in Thread |-> 0]
        /\ size = MinConn
        /\ closed = FALSE

\* A caller without a connection is lent one that nobody else holds.
Lend(t) ==
  /\ lent[t] = 0
  /\ \E c \in idle : idle' = idle \ {c} /\ lent' = [lent EXCEPT ![t] = c]
  /\ UNCHANGED <<size, closed>>

\* Only a pool with nothing idle grows, only below its limit.
Grow(t) ==
  /\ lent[t] = 0 /\ ~closed
  /\ idle = {} /\ size < MaxConn
  /\ size' = size + 1
  /\ lent' = [lent EXCEPT ![t] = size + 1]
  /\ UNCHANGED <<idle, closed>>

\* A connection that is given back is idle at once.
GiveBack(t) ==
  /\ lent[t] # 0
  /\ idle' = idle \cup {lent[t]}
  /\ lent' = [lent EXCEPT ![t] = 0]
  /\ UNCHANGED <<size, closed>>

\* Destruction may throw idle connections away, never lent ones.
Close ==
  /\ closed' = TRUE
  /\ idle' \in {idle, {}}
  /\ size' \in {size, 0}
  /\ UNCHANGED lent

Next == Close \/ \E t \in Thread : Lend(t) \/ Grow(t) \/ GiveBack(t)

Spec == Init /\ [][Next]_poolVars
=============================================================================
