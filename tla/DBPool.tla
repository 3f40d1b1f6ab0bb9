------------------------------- MODULE DBPool -------------------------------
(***************************************************************************)
(* The pool of MySQL connections, src/src/db-conn-pool/db_pool.cc, at the  *)
(* grain of its mutex and its condition variable.                          *)
(*                                                                         *)
(* A critical section that neither blocks nor waits is one step.  Two      *)
(* calls are not: getConnection parks on m_cond_var, which gives the mutex *)
(* up, and it connects to the server with the mutex held, so that nobody   *)
(* can take or release a connection meanwhile.                             *)
(*                                                                         *)
(*    idle --- getConnection --> holding | parked | creating | failed      *)
(*    parked -- notify, spurious wakeup --> woken -- relock --> ...        *)
(*    holding -- ~AutoRelConn --> idle        failed: returned nullptr     *)
(*                                                                         *)
(* Connections are numbered as they are made: m_cur_conn_cnt never falls,  *)
(* and is also the name of the newest connection.                          *)
(***************************************************************************)
EXTENDS Integers, Sequences, FiniteSets, Functions

CONSTANTS
  Thread,       \* the IO threads that run handlers
  Timed,        \* those whose getConnection has a positive timeout_ms
  MinConn,      \* MIN_DB_CONN_CNT
  MaxConn,      \* m_max_conn_cnt, read from the configuration
  Destroyable,  \* may ~DBPool run?  (this program never destroys a pool)
  NoThread      \* owner of a free mutex

ASSUME DBPoolAssumption ==
  /\ Timed \subseteq Thread
  /\ NoThread \notin Thread
  /\ IsFiniteSet(Thread)
  /\ MinConn \in Nat
  /\ MaxConn \in Int
  /\ Destroyable \in BOOLEAN

VARIABLES
  pc,               \* [Thread -> where the thread is]
  conn,             \* [Thread -> the connection it holds, 0 for none]
  m_mutex,          \* the thread that connects with the mutex held
  m_free_list,
  m_cur_conn_cnt,
  m_abort_request,
  deleted           \* connections ~DBPool has deleted

vars == <<pc, conn, m_mutex, m_free_list, m_cur_conn_cnt, m_abort_request, deleted>>

Free      == Range(m_free_list)
At(l)     == {t \in Thread : pc[t] = l}
Parked    == At("parked")      \* in the wait set of m_cond_var
Woken     == At("woken")       \* notified, waiting for the mutex
Waiting   == Parked \cup Woken
Holders   == At("holding")
Held      == {conn[t] : t \in Holders}
Unlocked  == m_mutex = NoThread

Init ==
  /\ pc = [t \in Thread |-> "idle"]
  /\ conn = [t \in Thread |-> 0]
  /\ m_mutex = NoThread
  /\ m_free_list = [i \in 1 .. MinConn |-> i]
  /\ m_cur_conn_cnt = MinConn
  /\ m_abort_request = FALSE
  /\ deleted = {}

-----------------------------------------------------------------------------
Goto(t, l) == pc' = [pc EXCEPT ![t] = l]

\* Return nullptr.
Fail(t) ==
  /\ Goto(t, "failed")
  /\ UNCHANGED <<conn, m_mutex, m_free_list, m_cur_conn_cnt, m_abort_request, deleted>>

\* Mutant of PopFront: front() without pop_front().
PopKeeps(t) ==
  /\ m_free_list # <<>>
  /\ Goto(t, "holding")
  /\ conn' = [conn EXCEPT ![t] = Head(m_free_list)]
  /\ UNCHANGED <<m_mutex, m_free_list, m_cur_conn_cnt, m_abort_request, deleted>>

\* Take the head of m_free_list and return it.
PopFront(t) ==
  /\ m_free_list # <<>>
  /\ Goto(t, "holding")
  /\ conn' = [conn EXCEPT ![t] = Head(m_free_list)]
  /\ m_free_list' = Tail(m_free_list)
  /\ UNCHANGED <<m_mutex, m_cur_conn_cnt, m_abort_request, deleted>>

CanEnter(t) == pc[t] = "idle" /\ Unlocked

GetAborted(t) == CanEnter(t) /\ m_abort_request /\ Fail(t)

GetFree(t) == CanEnter(t) /\ ~m_abort_request /\ PopFront(t)

\* At the limit: wait for a release.
GetPark(t) ==
  /\ CanEnter(t) /\ ~m_abort_request /\ m_free_list = <<>>
  /\ m_cur_conn_cnt >= MaxConn
  /\ Goto(t, "parked")
  /\ UNCHANGED <<conn, m_mutex, m_free_list, m_cur_conn_cnt, m_abort_request, deleted>>

\* Mutant of GetCreate: <= for <.
GetCreateAtLimit(t) ==
  /\ CanEnter(t) /\ ~m_abort_request /\ m_free_list = <<>>
  /\ m_cur_conn_cnt <= MaxConn
  /\ Goto(t, "creating")
  /\ m_mutex' = t
  /\ UNCHANGED <<conn, m_free_list, m_cur_conn_cnt, m_abort_request, deleted>>

\* Below the limit: start to connect, keeping the mutex.
GetCreate(t) ==
  /\ CanEnter(t) /\ ~m_abort_request /\ m_free_list = <<>>
  /\ m_cur_conn_cnt < MaxConn
  /\ Goto(t, "creating")
  /\ m_mutex' = t
  /\ UNCHANGED <<conn, m_free_list, m_cur_conn_cnt, m_abort_request, deleted>>

\* Mutant of Created: m_cur_conn_cnt is not incremented.
CreatedUncounted(t) ==
  /\ pc[t] = "creating"
  /\ conn' = [conn EXCEPT ![t] = m_cur_conn_cnt + 1]
  /\ Goto(t, "holding")
  /\ m_mutex' = NoThread
  /\ UNCHANGED <<m_free_list, m_cur_conn_cnt, m_abort_request, deleted>>

\* DBConn::init succeeded: push_back on the empty list, then pop its front.
Created(t) ==
  /\ pc[t] = "creating"
  /\ m_cur_conn_cnt' = m_cur_conn_cnt + 1
  /\ LET list == Append(m_free_list, m_cur_conn_cnt + 1)
     IN  m_free_list' = Tail(list) /\ conn' = [conn EXCEPT ![t] = Head(list)]
  /\ Goto(t, "holding")
  /\ m_mutex' = NoThread
  /\ UNCHANGED <<m_abort_request, deleted>>

CreateFailed(t) ==
  /\ pc[t] = "creating"
  /\ Goto(t, "failed")
  /\ m_mutex' = NoThread
  /\ UNCHANGED <<conn, m_free_list, m_cur_conn_cnt, m_abort_request, deleted>>

-----------------------------------------------------------------------------
SpuriousWakeup(t) ==
  /\ pc[t] = "parked"
  /\ Goto(t, "woken")
  /\ UNCHANGED <<conn, m_mutex, m_free_list, m_cur_conn_cnt, m_abort_request, deleted>>

\* The waiter has the mutex again and evaluates the predicate of the wait.
WakeTake(t) == pc[t] = "woken" /\ Unlocked /\ PopFront(t)

WakeAborted(t) ==
  pc[t] = "woken" /\ Unlocked /\ m_free_list = <<>> /\ m_abort_request /\ Fail(t)

\* Mutant of WakeAgain: the wait is not in a loop.
WakeGivesUp(t) ==
  pc[t] = "woken" /\ Unlocked /\ m_free_list = <<>> /\ ~m_abort_request /\ Fail(t)

WakeAgain(t) ==
  /\ pc[t] = "woken" /\ Unlocked
  /\ m_free_list = <<>> /\ ~m_abort_request
  /\ Goto(t, "parked")
  /\ UNCHANGED <<conn, m_mutex, m_free_list, m_cur_conn_cnt, m_abort_request, deleted>>

\* wait_for gives up at the deadline, notified or not; what is free is taken.
TimedOut(t) ==
  /\ t \in Timed /\ pc[t] \in {"parked", "woken"} /\ Unlocked
  /\ \/ PopFront(t)
     \/ m_free_list = <<>> /\ Fail(t)

-----------------------------------------------------------------------------
\* Mutant of NotifyOne: the notify_one is forgotten.
NotifyNobody(t) == Goto(t, "idle")

\* notify_one wakes one waiter of the wait set, if there is one.
NotifyOne(t) ==
  \/ Parked = {} /\ Goto(t, "idle")
  \/ \E w \in Parked : pc' = [pc EXCEPT ![t] = "idle", ![w] = "woken"]

\* ~AutoRelConn: a connection that is in m_free_list is not put there twice.
ReleaseConnection(t) ==
  /\ pc[t] = "holding" /\ Unlocked
  /\ \/ /\ conn[t] \notin Free
        /\ m_free_list' = Append(m_free_list, conn[t])
        /\ NotifyOne(t)
     \/ conn[t] \in Free /\ Goto(t, "idle") /\ UNCHANGED m_free_list
  /\ conn' = [conn EXCEPT ![t] = 0]
  /\ UNCHANGED <<m_mutex, m_cur_conn_cnt, m_abort_request, deleted>>

\* Mutant of GiveUp: the nullptr is released like a connection.
GiveUpReleases(t) ==
  /\ pc[t] = "failed"
  /\ Goto(t, "idle")
  /\ m_free_list' = Append(m_free_list, conn[t])
  /\ UNCHANGED <<conn, m_mutex, m_cur_conn_cnt, m_abort_request, deleted>>

\* The handler has seen nullptr and is done.
GiveUp(t) ==
  /\ pc[t] = "failed"
  /\ Goto(t, "idle")
  /\ UNCHANGED <<conn, m_mutex, m_free_list, m_cur_conn_cnt, m_abort_request, deleted>>

\* Mutant of Destroy: no notify_all.
DestroySilently ==
  /\ Destroyable /\ Unlocked /\ ~m_abort_request
  /\ m_abort_request' = TRUE
  /\ deleted' = deleted \cup Free
  /\ m_free_list' = <<>>
  /\ UNCHANGED <<pc, conn, m_mutex, m_cur_conn_cnt>>

\* ~DBPool: abort, notify_all, delete what is free, all under the mutex.
Destroy ==
  /\ Destroyable /\ Unlocked /\ ~m_abort_request
  /\ m_abort_request' = TRUE
  /\ pc' = [t \in Thread |-> IF pc[t] = "parked" THEN "woken" ELSE pc[t]]
  /\ deleted' = deleted \cup Free
  /\ m_free_list' = <<>>
  /\ UNCHANGED <<conn, m_mutex, m_cur_conn_cnt>>

GetConnection(t) ==
  \/ GetAborted(t) \/ GetFree(t) \/ GetPark(t) \/ GetCreate(t)
  \/ Created(t) \/ CreateFailed(t)
  \/ WakeTake(t) \/ WakeAborted(t) \/ WakeAgain(t) \/ TimedOut(t)

Next ==
  \/ Destroy
  \/ \E t \in Thread : \/ GetConnection(t) \/ SpuriousWakeup(t)
                       \/ ReleaseConnection(t) \/ GiveUp(t)

Spec == Init /\ [][Next]_vars

\* A connect attempt ends, and a thread that competes for the mutex again and
\* again gets it in the end, be it to release a connection or to look whether
\* its wait is over.  It may find that a faster thread has left it nothing; no
\* thread has to ask for a connection, and no connect attempt has to succeed.
\* (A thread is at one of these at a time, so that one condition does for all.)
Proceed(t) ==
  \/ Created(t) \/ CreateFailed(t) \/ ReleaseConnection(t)
  \/ WakeTake(t) \/ WakeAborted(t) \/ WakeAgain(t) \/ TimedOut(t)

Fairness == \A t \in Thread : SF_vars(Proceed(t))

FairSpec == Spec /\ Fairness

-----------------------------------------------------------------------------
TypeOK ==
  /\ pc \in [Thread -> {"idle", "creating", "parked", "woken", "holding", "failed"}]
  /\ conn \in [Thread -> Nat]
  /\ m_mutex \in Thread \cup {NoThread}
  /\ m_free_list \in Seq(Nat \ {0})
  /\ m_cur_conn_cnt \in Nat
  /\ m_abort_request \in BOOLEAN
  /\ deleted \subseteq Nat

\* A connection is in one place only: held by one thread, or once in the free
\* list.
ExclusiveOwnership ==
  /\ \A t, u \in Holders : conn[t] = conn[u] => t = u
  /\ \A t \in Holders : conn[t] \notin Free
  /\ \A i, j \in DOMAIN m_free_list : m_free_list[i] = m_free_list[j] => i = j

\* Every connection ever counted in m_cur_conn_cnt is free, held or deleted.
NothingLost == Free \cup Held \cup deleted = 1 .. m_cur_conn_cnt

\* ~DBPool deletes no connection that a handler holds, and a waiter that
\* wakes up after it is not handed one of the deleted connections.
NoDanglingConnection == (Free \cup Held) \cap deleted = {}

\* MySQL connections are not thread safe, so two handlers that share one would
\* read each other's results; one that is lost is missing from the pool for good;
\* one that is deleted under its holder crashes it.  No interleaving of
\* getConnection, releaseConnection and the destructor does any of this.
Ownership == ExclusiveOwnership /\ NothingLost /\ NoDanglingConnection

\* The pool never has more connections than its configuration allows (or than
\* it starts with, when the configured maximum is below MIN_DB_CONN_CNT).
WithinLimit == m_cur_conn_cnt <= IF MaxConn > MinConn THEN MaxConn ELSE MinConn

\* No wakeup is lost: while a thread is parked without having been notified,
\* every free connection has a notified thread on its way to it.
NoLostWakeup == Parked # {} => Len(m_free_list) <= Cardinality(Woken)

\* A caller that waits without a timeout is never sent away empty-handed while
\* the pool lives, whatever barging and spurious wakeups do.
NullOnlyWhenJustified ==
  [][\A t \in Thread :
       pc[t] # "failed" /\ pc'[t] = "failed"
         => m_abort_request \/ t \in Timed \/ pc[t] = "creating"]_vars

\* The pool never sits on a free connection while threads wait: as long as
\* somebody waits, connections keep being handed out.  (Not to each waiter: a
\* thread that comes late may be faster than a notified one, every time.)
ConnectionsKeepMoving ==
  \/ []<>(Waiting = {})
  \/ []<><<\E t \in Thread \ Holders : pc'[t] = "holding">>_vars

\* Destruction leaves no thread asleep on m_cond_var.
DestroyWakesEverybody == m_abort_request ~> Waiting = {}

-----------------------------------------------------------------------------
(***************************************************************************)
(* What the invariants above rest on.                                      *)
(***************************************************************************)
\* The mutex is kept across a step only by the thread that connects, which
\* found the list empty and the pool below its limit.
MutexOwner ==
  /\ \A t \in Thread : pc[t] = "creating" <=> m_mutex = t
  /\ ~Unlocked => m_free_list = <<>> /\ m_cur_conn_cnt < MaxConn /\ ~m_abort_request

\* Who holds a connection has one.
HoldersHold == \A t \in Thread : pc[t] = "holding" <=> conn[t] # 0

\* Threads only wait for a pool that cannot grow, and only sleep in a live one.
WaitOnlyAtLimit == /\ Waiting # {} => m_cur_conn_cnt >= MaxConn
                   /\ Parked # {} => ~m_abort_request

ControlInv == TypeOK /\ MutexOwner /\ HoldersHold /\ WaitOnlyAtLimit

-----------------------------------------------------------------------------
Pool == INSTANCE ConnectionPool WITH
          idle <- Free, lent <- conn, size <- m_cur_conn_cnt, closed <- m_abort_request

\* Seen through its free list, the pool is the abstract one.
ImplementsPool == Pool!Spec
=============================================================================
