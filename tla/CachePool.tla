------------------------------ MODULE CachePool ------------------------------
(***************************************************************************)
(* The pool of Redis connections, src/src/cache-pool/cache_pool.cc, at the *)
(* same grain as DBPool.  It differs from its twin in three ways: a waiter *)
(* that wakes up in a pool being destroyed leaves even when a connection   *)
(* is free; only the timed branch looks at an empty list; and ~CachePool   *)
(* is three steps, the last of them outside the mutex.                     *)
(***************************************************************************)
EXTENDS Integers, Sequences, FiniteSets, Functions

CONSTANTS
  Thread,       \* the IO threads that run handlers
  Timed,        \* those whose GetCacheConn has a positive timeout_ms
  MinConn,      \* MIN_CACHE_CONN_CNT
  MaxConn,      \* max_conn_cnt_, read from the configuration
  Destroyable,  \* may ~CachePool run?  (this program never destroys a pool)
  NoThread      \* owner of a free mutex

ASSUME CachePoolAssumption ==
  /\ Timed \subseteq Thread
  /\ NoThread \notin Thread
  /\ IsFiniteSet(Thread)
  /\ MinConn \in Nat
  /\ MaxConn \in Int
  /\ Destroyable \in BOOLEAN

VARIABLES
  pc,               \* [Thread -> where the thread is]
  conn,             \* [Thread -> the connection it holds, 0 for none]
  m_mutex,          \* the thread that connects with the mutex held
  free_list_,
  cur_conn_cnt_,
  abort_request_,
  stage,            \* how far ~CachePool has come
  deleted           \* connections it has deleted

vars == <<pc, conn, m_mutex, free_list_, cur_conn_cnt_, abort_request_, stage, deleted>>

Free      == Range(free_list_)
At(l)     == {t \in Thread : pc[t] = l}
Parked    == At("parked")      \* in the wait set of cond_var_
Woken     == At("woken")       \* notified, waiting for the mutex
Waiting   == Parked \cup Woken
Holders   == At("holding")
Held      == {conn[t] : t \in Holders}
Unlocked  == m_mutex = NoThread

Init ==
  /\ pc = [t \in Thread |-> "idle"]
  /\ conn = [t \in Thread |-> 0]
  /\ m_mutex = NoThread
  /\ free_list_ = [i \in 1 .. MinConn |-> i]
  /\ cur_conn_cnt_ = MinConn
  /\ abort_request_ = FALSE
  /\ stage = "live"
  /\ deleted = {}

-----------------------------------------------------------------------------
\* A step of t to l that touches neither the pool nor its connections.
Goto(t, l) ==
  /\ pc' = [pc EXCEPT ![t] = l]
  /\ UNCHANGED <<conn, free_list_, cur_conn_cnt_, abort_request_, stage, deleted>>

\* Take the head of free_list_ and return it.
PopFront(t) ==
  /\ free_list_ # <<>>
  /\ pc' = [pc EXCEPT ![t] = "holding"]
  /\ conn' = [conn EXCEPT ![t] = Head(free_list_)]
  /\ free_list_' = Tail(free_list_)
  /\ UNCHANGED <<m_mutex, cur_conn_cnt_, abort_request_, stage, deleted>>

\* No call is made on a pool that is gone (a connection that is still out may
\* come back to it: then it is lost with the pool).
CanEnter(t) == pc[t] = "idle" /\ Unlocked /\ stage # "cleared"

GetAborted(t) == CanEnter(t) /\ abort_request_ /\ Goto(t, "failed") /\ UNCHANGED m_mutex

\* Mutant of GetFree: abort_request_ is not looked at.
GetFreeAnyway(t) == CanEnter(t) /\ PopFront(t)

GetFree(t) == CanEnter(t) /\ ~abort_request_ /\ PopFront(t)

\* At the limit: wait for a release.
GetPark(t) ==
  /\ CanEnter(t) /\ ~abort_request_ /\ free_list_ = <<>>
  /\ cur_conn_cnt_ >= MaxConn
  /\ Goto(t, "parked") /\ UNCHANGED m_mutex

\* Below the limit: connect with the mutex held.
GetCreate(t) ==
  /\ CanEnter(t) /\ ~abort_request_ /\ free_list_ = <<>>
  /\ cur_conn_cnt_ < MaxConn
  /\ Goto(t, "creating") /\ m_mutex' = t

\* Mutant of Created: cur_conn_cnt_ is not incremented.
CreatedUncounted(t) ==
  /\ pc[t] = "creating"
  /\ conn' = [conn EXCEPT ![t] = cur_conn_cnt_ + 1]
  /\ pc' = [pc EXCEPT ![t] = "holding"]
  /\ m_mutex' = NoThread
  /\ UNCHANGED <<free_list_, cur_conn_cnt_, abort_request_, stage, deleted>>

Created(t) ==
  /\ pc[t] = "creating"
  /\ cur_conn_cnt_' = cur_conn_cnt_ + 1
  /\ LET list == Append(free_list_, cur_conn_cnt_ + 1)
     IN  free_list_' = Tail(list) /\ conn' = [conn EXCEPT ![t] = Head(list)]
  /\ pc' = [pc EXCEPT ![t] = "holding"]
  /\ m_mutex' = NoThread
  /\ UNCHANGED <<abort_request_, stage, deleted>>

CreateFailed(t) == pc[t] = "creating" /\ Goto(t, "failed") /\ m_mutex' = NoThread

-----------------------------------------------------------------------------
SpuriousWakeup(t) == pc[t] = "parked" /\ Goto(t, "woken") /\ UNCHANGED m_mutex

\* Mutant of WakeTake: as DBPool does it, what is free is taken first.
WakeTakeFirst(t) == pc[t] = "woken" /\ Unlocked /\ PopFront(t)

\* The wait is over when there is a connection or an abort; the abort wins.
WakeTake(t) == pc[t] = "woken" /\ Unlocked /\ ~abort_request_ /\ PopFront(t)

WakeAborted(t) ==
  pc[t] = "woken" /\ Unlocked /\ abort_request_ /\ Goto(t, "failed") /\ UNCHANGED m_mutex

\* Mutant of WakeAgain: a waiter that finds the list empty again gives up.
WakeGivesUp(t) ==
  /\ pc[t] = "woken" /\ Unlocked
  /\ free_list_ = <<>> /\ ~abort_request_
  /\ Goto(t, "failed") /\ UNCHANGED m_mutex

WakeAgain(t) ==
  /\ pc[t] = "woken" /\ Unlocked
  /\ free_list_ = <<>> /\ ~abort_request_
  /\ Goto(t, "parked") /\ UNCHANGED m_mutex

\* wait_for gives up at the deadline, notified or not.
TimedOut(t) ==
  /\ t \in Timed /\ pc[t] \in {"parked", "woken"} /\ Unlocked
  /\ \/ ~abort_request_ /\ PopFront(t)
     \/ (free_list_ = <<>> \/ abort_request_) /\ Goto(t, "failed") /\ UNCHANGED m_mutex

-----------------------------------------------------------------------------
\* Mutant of NotifyOne: the notify_one is forgotten.
NotifyNobody(t) == pc' = [pc EXCEPT ![t] = "idle"]

\* notify_one wakes one waiter of the wait set, if there is one.
NotifyOne(t) ==
  \/ Parked = {} /\ pc' = [pc EXCEPT ![t] = "idle"]
  \/ \E w \in Parked : pc' = [pc EXCEPT ![t] = "idle", ![w] = "woken"]

\* ~AutoRelCacheCon: a connection that is in free_list_ is not put there twice.
RelCacheConn(t) ==
  /\ pc[t] = "holding" /\ Unlocked
  /\ \/ /\ conn[t] \notin Free
        /\ free_list_' = Append(free_list_, conn[t])
        /\ NotifyOne(t)
     \/ conn[t] \in Free /\ pc' = [pc EXCEPT ![t] = "idle"] /\ UNCHANGED free_list_
  /\ conn' = [conn EXCEPT ![t] = 0]
  /\ UNCHANGED <<m_mutex, cur_conn_cnt_, abort_request_, stage, deleted>>

\* Mutant of GiveUp: the NULL is released like a connection.
GiveUpReleases(t) ==
  /\ pc[t] = "failed"
  /\ pc' = [pc EXCEPT ![t] = "idle"]
  /\ free_list_' = Append(free_list_, conn[t])
  /\ UNCHANGED <<conn, m_mutex, cur_conn_cnt_, abort_request_, stage, deleted>>

\* The handler has seen NULL and is done.
GiveUp(t) == pc[t] = "failed" /\ Goto(t, "idle") /\ UNCHANGED m_mutex

-----------------------------------------------------------------------------
\* Mutant of DestroyAbort: no notify_all.
DestroySilently ==
  /\ Destroyable /\ stage = "live" /\ Unlocked
  /\ stage' = "aborted"
  /\ abort_request_' = TRUE
  /\ UNCHANGED <<pc, conn, m_mutex, free_list_, cur_conn_cnt_, deleted>>

\* ~CachePool, first critical section: abort and notify_all.
DestroyAbort ==
  /\ Destroyable /\ stage = "live" /\ Unlocked
  /\ stage' = "aborted"
  /\ abort_request_' = TRUE
  /\ pc' = [t \in Thread |-> IF pc[t] = "parked" THEN "woken" ELSE pc[t]]
  /\ UNCHANGED <<conn, m_mutex, free_list_, cur_conn_cnt_, deleted>>

\* Second one: delete what is free.  The list keeps the dangling pointers.
DestroyDelete ==
  /\ stage = "aborted" /\ Unlocked
  /\ stage' = "deleted"
  /\ deleted' = deleted \cup Free
  /\ UNCHANGED <<pc, conn, m_mutex, free_list_, cur_conn_cnt_, abort_request_>>

\* Without the mutex: free_list_.clear(), cur_conn_cnt_ = 0.
DestroyClear ==
  /\ stage = "deleted"
  /\ stage' = "cleared"
  /\ free_list_' = <<>>
  /\ cur_conn_cnt_' = 0
  /\ UNCHANGED <<pc, conn, m_mutex, abort_request_, deleted>>

Destroy == DestroyAbort \/ DestroyDelete \/ DestroyClear

GetCacheConn(t) ==
  \/ GetAborted(t) \/ GetFree(t) \/ GetPark(t) \/ GetCreate(t)
  \/ Created(t) \/ CreateFailed(t)
  \/ WakeTake(t) \/ WakeAborted(t) \/ WakeAgain(t) \/ TimedOut(t)

Next ==
  \/ Destroy
  \/ \E t \in Thread : \/ GetCacheConn(t) \/ SpuriousWakeup(t)
                       \/ RelCacheConn(t) \/ GiveUp(t)

Spec == Init /\ [][Next]_vars

\* As for DBPool; in addition a destructor that has begun comes to its end.
Proceed(t) ==
  \/ Created(t) \/ CreateFailed(t) \/ RelCacheConn(t)
  \/ WakeTake(t) \/ WakeAborted(t) \/ WakeAgain(t) \/ TimedOut(t)

Fairness ==
  /\ SF_vars(DestroyDelete) /\ WF_vars(DestroyClear)
  /\ \A t \in Thread : SF_vars(Proceed(t))

FairSpec == Spec /\ Fairness

-----------------------------------------------------------------------------
TypeOK ==
  /\ pc \in [Thread -> {"idle", "creating", "parked", "woken", "holding", "failed"}]
  /\ conn \in [Thread -> Nat]
  /\ m_mutex \in Thread \cup {NoThread}
  /\ free_list_ \in Seq(Nat \ {0})
  /\ cur_conn_cnt_ \in Nat
  /\ abort_request_ \in BOOLEAN
  /\ stage \in {"live", "aborted", "deleted", "cleared"}
  /\ deleted \subseteq Nat

\* A connection is in one place only: held by one thread, or once in the free
\* list.
ExclusiveOwnership ==
  /\ \A t, u \in Holders : conn[t] = conn[u] => t = u
  /\ \A t \in Holders : conn[t] \notin Free
  /\ \A i, j \in DOMAIN free_list_ : free_list_[i] = free_list_[j] => i = j

\* Until ~CachePool clears the list, every connection counted in
\* cur_conn_cnt_ is free, held or deleted.
NothingLost == stage # "cleared" => Free \cup Held \cup deleted = 1 .. cur_conn_cnt_

\* No handler holds a connection that ~CachePool has deleted, although the
\* list contains dangling pointers between two of its steps.
NoDanglingHandout == Held \cap deleted = {}

\* A hiredis context that two threads write to mixes up their replies; one that is
\* lost is missing from the pool for good; one that is deleted under its holder
\* crashes it.  No interleaving of GetCacheConn, RelCacheConn and the three steps
\* of the destructor does any of this.
Ownership == ExclusiveOwnership /\ NothingLost /\ NoDanglingHandout

\* While a thread is parked without having been notified, every free
\* connection has a notified thread on its way to it.
NoLostWakeup == Parked # {} => Len(free_list_) <= Cardinality(Woken)

\* The branch without a timeout does not look at the list after its wait: a
\* caller in it goes away empty-handed only because of an abort or of a failed
\* connect, whatever barging and spurious wakeups do.
NullOnlyWhenJustified ==
  [][\A t \in Thread :
       pc[t] # "failed" /\ pc'[t] = "failed"
         => abort_request_ \/ t \in Timed \/ pc[t] = "creating"]_vars

\* Once ~CachePool has begun nobody is given a connection any more.
NothingLentAfterAbort ==
  [][abort_request_ => \A t \in Thread : pc'[t] = "holding" => pc[t] = "holding"]_vars

\* The pool never sits on a free connection while threads wait: as long as
\* somebody waits, connections keep being handed out (not to each waiter).
ConnectionsKeepMoving ==
  \/ []<>(Waiting = {})
  \/ []<><<\E t \in Thread \ Holders : pc'[t] = "holding">>_vars

\* Destruction leaves no thread asleep on cond_var_, and ends.
DestroyEnds == abort_request_ ~> Waiting = {} /\ stage = "cleared"

-----------------------------------------------------------------------------
(***************************************************************************)
(* What the invariants above rest on.                                      *)
(***************************************************************************)
\* The mutex is kept across a step only by the thread that connects, which
\* found the list empty and a live pool below its limit.
MutexOwner ==
  /\ \A t \in Thread : pc[t] = "creating" <=> m_mutex = t
  /\ ~Unlocked => free_list_ = <<>> /\ cur_conn_cnt_ < MaxConn /\ ~abort_request_

\* Who holds a connection has one.
HoldersHold == \A t \in Thread : pc[t] = "holding" <=> conn[t] # 0

\* Threads only wait for a pool that cannot grow, and only sleep in a live one.
WaitOnlyAtLimit == /\ Waiting # {} /\ ~abort_request_ => cur_conn_cnt_ >= MaxConn
                   /\ Parked # {} => ~abort_request_

\* The first step of ~CachePool aborts; the second is the one that deletes.
StageInOrder == /\ abort_request_ <=> stage # "live"
                /\ stage \in {"live", "aborted"} => deleted = {}

ControlInv == TypeOK /\ MutexOwner /\ HoldersHold /\ WaitOnlyAtLimit /\ StageInOrder

-----------------------------------------------------------------------------
\* Connections the destructor has thrown away are not idle any more.
Pool == INSTANCE ConnectionPool WITH
          idle <- Free \ deleted, lent <- conn,
          size <- cur_conn_cnt_, closed <- abort_request_

\* Seen through its free list, the pool is the abstract one.
ImplementsPool == Pool!Spec
=============================================================================
