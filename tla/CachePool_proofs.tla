-------------------------- MODULE CachePool_proofs --------------------------
(***************************************************************************)
(* Theorems about CachePool, for every set of threads and every limit.     *)
(*                                                                         *)
(* The layers are those of DBPool_proofs.  What is new is the destructor   *)
(* in three steps, between which connections come back and waiters leave:  *)
(* the abort flag, which every way to a connection looks at, is what keeps *)
(* the deleted pointers that stay in the list from being handed out.       *)
(***************************************************************************)
EXTENDS CachePool, Lemmas

\* The ways into PopFront, and the ways out without a connection.
Takes(t) ==
  pc[t] \in {"idle", "parked", "woken"} /\ Unlocked /\ ~abort_request_ /\ PopFront(t)
Leaves(t) ==
  /\ pc[t] \in {"idle", "parked", "woken"} /\ Unlocked
  /\ abort_request_ \/ (pc[t] # "idle" /\ free_list_ = <<>>)
  /\ Goto(t, "failed") /\ UNCHANGED m_mutex

\* Every step of the pool is one of thirteen.
LEMMA StepCases ==
  ASSUME Next
  PROVE  \/ DestroyAbort \/ DestroyDelete \/ DestroyClear
         \/ \E t \in Thread :
              \/ Takes(t) \/ Leaves(t) \/ GetPark(t) \/ GetCreate(t)
              \/ Created(t) \/ CreateFailed(t) \/ SpuriousWakeup(t) \/ WakeAgain(t)
              \/ RelCacheConn(t) \/ GiveUp(t)
  <1> SUFFICES ASSUME NEW t \in Thread, GetCacheConn(t)
               PROVE  \/ Takes(t) \/ Leaves(t) \/ GetPark(t) \/ GetCreate(t)
                      \/ Created(t) \/ CreateFailed(t) \/ WakeAgain(t)
    BY DEF Next, Destroy
  <1>1. GetFree(t) \/ WakeTake(t) => Takes(t)
    BY DEF GetFree, WakeTake, Takes, CanEnter
  <1>2. GetAborted(t) \/ WakeAborted(t) => Leaves(t)
    BY DEF GetAborted, WakeAborted, Leaves, CanEnter
  <1>3. TimedOut(t) => Takes(t) \/ Leaves(t)
    BY DEF TimedOut, Takes, Leaves
  <1> QED
    BY <1>1, <1>2, <1>3 DEF GetCacheConn

-----------------------------------------------------------------------------
\* A pool that has just been made satisfies the control invariant.
LEMMA ControlInit == Init => ControlInv
  <1> SUFFICES ASSUME Init PROVE ControlInv
    OBVIOUS
  <1>1. free_list_ \in Seq(Nat \ {0})
    BY InitialListFacts, CachePoolAssumption DEF Init
  <1>2. TypeOK
    BY <1>1, CachePoolAssumption DEF Init, TypeOK
  <1> QED
    BY <1>2, CachePoolAssumption
       DEF Init, ControlInv, MutexOwner, HoldersHold, WaitOnlyAtLimit, StageInOrder,
           Waiting, Parked, Woken, At, Unlocked

\* No step of GetCacheConn, RelCacheConn or ~CachePool breaks it.
LEMMA ControlStep ==
  ASSUME ControlInv, [Next]_vars
  PROVE  ControlInv'
  <1> USE CachePoolAssumption
  <1> USE DEF ControlInv, TypeOK, MutexOwner, HoldersHold, WaitOnlyAtLimit, StageInOrder,
              Waiting, Parked, Woken, At, Unlocked
  <1>1. ASSUME NEW t \in Thread, Takes(t)
        PROVE  ControlInv'
    <2>1. Tail(free_list_) \in Seq(Nat \ {0}) /\ Head(free_list_) \in Nat \ {0}
      BY <1>1 DEF Takes, PopFront
    <2> QED
      BY <1>1, <2>1 DEF Takes, PopFront
  <1>2. ASSUME NEW t \in Thread, Leaves(t)
        PROVE  ControlInv'
    BY <1>2 DEF Leaves, Goto
  <1>3. ASSUME NEW t \in Thread, GetPark(t)
        PROVE  ControlInv'
    BY <1>3 DEF GetPark, CanEnter, Goto
  <1>4. ASSUME NEW t \in Thread, GetCreate(t)
        PROVE  ControlInv'
    BY <1>4 DEF GetCreate, CanEnter, Goto
  <1>5. ASSUME NEW t \in Thread, Created(t)
        PROVE  ControlInv'
    <2>1. cur_conn_cnt_ + 1 \in Nat \ {0}
      OBVIOUS
    <2>2. m_mutex = t /\ free_list_ = <<>> /\ Waiting = {}
      BY <1>5 DEF Created
    <2>3. LET list == Append(free_list_, cur_conn_cnt_ + 1)
          IN  Tail(list) = <<>> /\ Head(list) = cur_conn_cnt_ + 1
      BY <2>1, <2>2
    <2>4. free_list_' = <<>> /\ conn' = [conn EXCEPT ![t] = cur_conn_cnt_ + 1]
      BY <1>5, <2>3 DEF Created
    <2> QED
      BY <1>5, <2>1, <2>2, <2>4 DEF Created
  <1>6. ASSUME NEW t \in Thread, CreateFailed(t)
        PROVE  ControlInv'
    BY <1>6 DEF CreateFailed, Goto
  <1>7. ASSUME NEW t \in Thread, SpuriousWakeup(t)
        PROVE  ControlInv'
    BY <1>7 DEF SpuriousWakeup, Goto
  <1>8. ASSUME NEW t \in Thread, WakeAgain(t)
        PROVE  ControlInv'
    BY <1>8 DEF WakeAgain, Goto
  <1>9. ASSUME NEW t \in Thread, RelCacheConn(t)
        PROVE  ControlInv'
    <2>1. Append(free_list_, conn[t]) \in Seq(Nat \ {0})
      BY <1>9, PushBackFacts DEF RelCacheConn
    <2> QED
      BY <1>9, <2>1 DEF RelCacheConn, NotifyOne
  <1>10. ASSUME NEW t \in Thread, GiveUp(t)
         PROVE  ControlInv'
    BY <1>10 DEF GiveUp, Goto
  <1>11. ASSUME DestroyAbort
         PROVE  ControlInv'
    BY <1>11 DEF DestroyAbort
  <1>12. ASSUME DestroyDelete
         PROVE  ControlInv'
    <2>1. Free \subseteq Nat
      BY DEF Free, Range
    <2> QED
      BY <1>12, <2>1 DEF DestroyDelete
  <1>13. ASSUME DestroyClear
         PROVE  ControlInv'
    BY <1>13 DEF DestroyClear
  <1>14. CASE UNCHANGED vars
    BY <1>14 DEF vars
  <1> QED
    BY <1>1, <1>2, <1>3, <1>4, <1>5, <1>6, <1>7, <1>8, <1>9, <1>10, <1>11, <1>12,
       <1>13, <1>14, StepCases

\* The mutex outlives a critical section only in the hands of a thread that
\* connects to a live pool; threads sleep only in a live pool at its limit; and
\* nothing is deleted before the pool refuses to lend.
THEOREM ControlCorrect == Spec => []ControlInv
  BY ControlInit, ControlStep, PTL DEF Spec

\* The type invariant: every variable keeps its type, whoever runs when.
THEOREM TypeCorrect == Spec => []TypeOK
  BY ControlCorrect, PTL DEF ControlInv

-----------------------------------------------------------------------------
\* The connections made by Init() are all in the list, each once.
LEMMA OwnershipInit == Init => Ownership
  <1> SUFFICES ASSUME Init PROVE Ownership
    OBVIOUS
  <1>1. Free = 1 .. MinConn /\ Distinct(free_list_)
    BY InitialListFacts, CachePoolAssumption DEF Init, Free
  <1>2. Holders = {} /\ Held = {}
    BY DEF Init, Holders, Held, At
  <1> QED
    BY <1>1, <1>2
       DEF Init, Ownership, ExclusiveOwnership, NothingLost, NoDanglingHandout, Distinct

\* A thread holds a connection iff conn says so: pc is not needed any more.
LEMMA HoldersByConn ==
  ASSUME HoldersHold
  PROVE  Holders = {t \in Thread : conn[t] # 0}
  BY DEF HoldersHold, Holders, At

\* While the pool lives nothing is deleted and the list has not been cleared.
LEMMA LiveStage ==
  ASSUME ControlInv, ~abort_request_
  PROVE  stage = "live" /\ deleted = {}
  BY DEF ControlInv, StageInOrder

\* No step duplicates a connection, loses one or lends a deleted one.
LEMMA OwnershipStep ==
  ASSUME ControlInv, ControlInv', Ownership, [Next]_vars
  PROVE  Ownership'
  <1> USE DEF Ownership, ExclusiveOwnership, NothingLost, NoDanglingHandout
  <1> DEFINE Having == {t \in Thread : conn[t] # 0}
  <1>a. Holders = Having /\ Holders' = Having'
    BY HoldersByConn DEF ControlInv, HoldersHold, Holders, At
  <1>b. Held = {conn[t] : t \in Having} /\ Held' = {conn'[t] : t \in Having'}
    BY <1>a DEF Held
  <1>c. /\ conn \in [Thread -> Nat] /\ free_list_ \in Seq(Nat \ {0})
        /\ cur_conn_cnt_ \in Nat
    BY DEF ControlInv, TypeOK
  <1>d. Distinct(free_list_)
    BY DEF Distinct
  <1>1. ASSUME UNCHANGED <<conn, free_list_, cur_conn_cnt_, deleted>>,
               stage = "cleared" => stage' = "cleared"
        PROVE  Ownership'
    <2>1. Held' = Held /\ Free' = Free /\ Having' = Having
      BY <1>1, <1>b DEF Free
    <2> QED
      BY <1>1, <2>1, <1>a
  <1>2. ASSUME NEW t \in Thread, Takes(t)
        PROVE  Ownership'
    <2> DEFINE h == Head(free_list_)
    <2>1. /\ free_list_ # <<>> /\ free_list_' = Tail(free_list_)
          /\ conn' = [conn EXCEPT ![t] = h]
          /\ UNCHANGED <<cur_conn_cnt_, deleted, stage>>
      BY <1>2 DEF Takes, PopFront
    <2>2. /\ h \in Free /\ h \in Nat \ {0}
          /\ Free' = Free \ {h}
          /\ Distinct(free_list_')
      BY <2>1, <1>c, <1>d, PopFrontFacts DEF Free
    <2>3. conn[t] = 0 /\ stage = "live" /\ deleted = {}
      BY <1>2, <1>c, LiveStage DEF Takes, ControlInv, HoldersHold
    <2>4. Having' = Having \cup {t} /\ Held' = Held \cup {h}
      BY <2>1, <2>2, <2>3, <1>b, <1>c
    <2>5. \A u \in Having : conn'[u] = conn[u] /\ conn[u] # h /\ conn[u] \notin Free
      BY <2>1, <2>2, <2>3, <1>a, <1>c
    <2>6. conn'[t] = h /\ h \notin Free'
      BY <2>1, <2>2, <1>c
    <2>7. \A u, v \in Having' : conn'[u] = conn'[v] => u = v
      BY <2>4, <2>5, <2>6, <1>a
    <2>8. \A u \in Having' : conn'[u] \notin Free'
      BY <2>2, <2>4, <2>5, <2>6
    <2> QED
      BY <2>1, <2>2, <2>3, <2>4, <2>7, <2>8, <1>a DEF Distinct
  <1>3. ASSUME NEW t \in Thread, Created(t)
        PROVE  Ownership'
    <2> DEFINE c == cur_conn_cnt_ + 1
    <2>1. free_list_ = <<>> /\ conn[t] = 0 /\ stage = "live" /\ deleted = {}
      BY <1>3, CachePoolAssumption, LiveStage
         DEF Created, ControlInv, TypeOK, MutexOwner, HoldersHold, Unlocked
    <2>2. Append(free_list_, c) = <<c>> /\ Tail(<<c>>) = <<>> /\ Head(<<c>>) = c
      BY <2>1
    <2>3. /\ free_list_' = <<>> /\ conn' = [conn EXCEPT ![t] = c]
          /\ cur_conn_cnt_' = c /\ UNCHANGED <<deleted, stage>>
      BY <1>3, <2>2 DEF Created
    <2>4. Free = {} /\ Free' = {}
      BY <2>1, <2>3 DEF Free, Range
    <2>5. Having' = Having \cup {t} /\ Held' = Held \cup {c}
      BY <2>1, <2>3, <1>b, <1>c
    <2>6. Held = 1 .. cur_conn_cnt_ /\ c \notin Held
      BY <2>1, <2>4, <1>c
    <2>7. \A u \in Having : conn'[u] = conn[u] /\ conn[u] # c
      BY <2>1, <2>3, <2>6, <1>b, <1>c
    <2>8. conn'[t] = c
      BY <2>3, <1>c
    <2>9. \A u, v \in Having' : conn'[u] = conn'[v] => u = v
      BY <2>5, <2>7, <2>8, <1>a
    <2>10. Free' \cup Held' \cup deleted' = 1 .. c
      BY <2>1, <2>3, <2>4, <2>5, <2>6, <1>c
    <2> QED
      BY <2>1, <2>3, <2>4, <2>9, <2>10, <1>a
  <1>4. ASSUME NEW t \in Thread, RelCacheConn(t)
        PROVE  Ownership'
    <2> DEFINE c == conn[t]
    <2>1. t \in Having /\ c \in Nat \ {0} /\ c \notin Free
      BY <1>4, <1>a, <1>c DEF RelCacheConn, ControlInv, HoldersHold
    <2>2. /\ free_list_' = Append(free_list_, c)
          /\ conn' = [conn EXCEPT ![t] = 0]
          /\ UNCHANGED <<cur_conn_cnt_, deleted, stage>>
      BY <1>4, <2>1 DEF RelCacheConn
    <2>3. Free' = Free \cup {c} /\ Distinct(free_list_')
      BY <2>1, <2>2, <1>c, <1>d, PushBackFacts DEF Free
    <2>4. Having' = Having \ {t} /\ \A u \in Having' : conn'[u] = conn[u] /\ conn[u] # c
      BY <2>1, <2>2, <1>a, <1>c
    <2>5. Held' = Held \ {c}
      BY <2>1, <2>4, <1>a, <1>b
    <2>6. c \in Held /\ Free' \cup Held' = Free \cup Held
      BY <2>1, <2>3, <2>5, <1>b
    <2> QED
      BY <2>2, <2>3, <2>4, <2>5, <2>6, <1>a DEF Distinct
  <1>5. ASSUME DestroyDelete
        PROVE  Ownership'
    <2>1. /\ Free' = Free /\ Having' = Having /\ Held' = Held
          /\ deleted' = deleted \cup Free
      BY <1>5, <1>b DEF DestroyDelete, Free
    <2>2. Free \cap Held = {}
      BY <1>a, <1>b
    <2> QED
      BY <1>5, <2>1, <2>2, <1>a DEF DestroyDelete
  <1>6. ASSUME DestroyClear
        PROVE  Ownership'
    <2>1. Free' = {} /\ Having' = Having /\ Held' = Held
      BY <1>6, <1>b DEF DestroyClear, Free, Range
    <2> QED
      BY <1>6, <2>1, <1>a DEF DestroyClear
  <1>7. ASSUME NEW t \in Thread,
               \/ Leaves(t) \/ GetPark(t) \/ GetCreate(t) \/ CreateFailed(t)
               \/ SpuriousWakeup(t) \/ WakeAgain(t) \/ GiveUp(t)
        PROVE  UNCHANGED <<conn, free_list_, cur_conn_cnt_, deleted, stage>>
    BY <1>7
       DEF Leaves, Goto, GetPark, GetCreate, CreateFailed, SpuriousWakeup, WakeAgain, GiveUp
  <1>8. ASSUME DestroyAbort
        PROVE  Ownership'
    BY <1>1, <1>8 DEF DestroyAbort
  <1>9. UNCHANGED vars => UNCHANGED <<conn, free_list_, cur_conn_cnt_, deleted, stage>>
    BY DEF vars
  <1> QED
    BY <1>1, <1>2, <1>3, <1>4, <1>5, <1>6, <1>7, <1>8, <1>9, StepCases

\* No two threads ever hold one connection, nobody holds a free or a deleted
\* one, and none is lost until the destructor clears the list.
THEOREM OwnershipCorrect == Spec => []Ownership
  <1>1. Init => Ownership
    BY OwnershipInit
  <1>2. ControlInv /\ ControlInv' /\ Ownership /\ [Next]_vars => Ownership'
    BY OwnershipStep
  <1> QED
    BY <1>1, <1>2, ControlCorrect, PTL DEF Spec

-----------------------------------------------------------------------------
\* A step that frees a connection wakes somebody, one that uses up a woken
\* thread takes a connection, and after the abort nobody sleeps.
LEMMA WakeupStep ==
  ASSUME ControlInv, ControlInv', NoLostWakeup, [Next]_vars
  PROVE  NoLostWakeup'
  <1> USE DEF NoLostWakeup, Parked, Woken, At
  <1>a. /\ pc \in [Thread -> {"idle", "creating", "parked", "woken", "holding", "failed"}]
        /\ free_list_ \in Seq(Nat \ {0}) /\ Len(free_list_) \in Nat
    BY DEF ControlInv, TypeOK
  <1>b. IsFiniteSet(Woken) /\ Cardinality(Woken) \in Nat
    BY CachePoolAssumption, FS_Subset, FS_CardinalityType
  <1>c. IsFiniteSet(Woken') /\ Cardinality(Woken') \in Nat
    BY CachePoolAssumption, FS_Subset, FS_CardinalityType
  <1>1. ASSUME free_list_' = <<>> \/ abort_request_'
        PROVE  NoLostWakeup'
    BY <1>1, <1>c DEF ControlInv, WaitOnlyAtLimit
  <1>2. ASSUME UNCHANGED free_list_, Parked' = Parked, Woken' = Woken
        PROVE  NoLostWakeup'
    BY <1>2
  <1>3. ASSUME NEW t \in Thread, Takes(t)
        PROVE  NoLostWakeup'
    <2>1. /\ free_list_ # <<>> /\ free_list_' = Tail(free_list_)
          /\ pc' = [pc EXCEPT ![t] = "holding"]
      BY <1>3 DEF Takes, PopFront
    <2>2. Len(free_list_') = Len(free_list_) - 1
      BY <2>1, <1>a
    <2>3. Parked' \subseteq Parked /\ Woken' = Woken \ {t}
      BY <2>1, <1>a
    <2> HIDE DEF Parked, Woken
    <2>4. Cardinality(Woken') >= Cardinality(Woken) - 1
      BY <2>3, <1>b, OneMoreOneLess
    <2> QED
      BY <2>2, <2>3, <2>4, <1>a, <1>b, <1>c
  <1>4. ASSUME NEW t \in Thread, SpuriousWakeup(t)
        PROVE  NoLostWakeup'
    <2>1. Parked' \subseteq Parked /\ Woken' = Woken \cup {t} /\ UNCHANGED free_list_
      BY <1>4, <1>a DEF SpuriousWakeup, Goto
    <2> HIDE DEF Parked, Woken
    <2>2. Cardinality(Woken') >= Cardinality(Woken)
      BY <2>1, <1>b, OneMoreOneLess
    <2> QED
      BY <2>1, <2>2, <1>a, <1>b, <1>c
  <1>5. ASSUME NEW t \in Thread, RelCacheConn(t)
        PROVE  NoLostWakeup'
    <2>1. CASE conn[t] \in Free
      BY <1>5, <2>1, <1>2, <1>a DEF RelCacheConn
    <2>2. CASE conn[t] \notin Free /\ Parked = {}
      BY <1>5, <2>2, <1>a DEF RelCacheConn, NotifyOne
    <2>3. CASE conn[t] \notin Free /\ Parked # {}
      <3>1. pc[t] = "holding"
        BY <1>5 DEF RelCacheConn
      <3>2. PICK w \in Parked : pc' = [pc EXCEPT ![t] = "idle", ![w] = "woken"]
        BY <1>5, <2>3 DEF RelCacheConn, NotifyOne
      <3>3. Woken' = Woken \cup {w} /\ w \notin Woken
        BY <3>1, <3>2, <1>a
      <3>4. Cardinality(Woken') = Cardinality(Woken) + 1
        BY <3>3, <1>b, FS_AddElement
      <3>5. free_list_' = Append(free_list_, conn[t])
        BY <1>5, <2>3 DEF RelCacheConn
      <3>6. Len(free_list_') = Len(free_list_) + 1
        BY <3>5, <1>a
      <3> HIDE DEF Parked, Woken
      <3> QED
        BY <2>3, <3>4, <3>6, <1>a, <1>b
    <2> QED
      BY <2>1, <2>2, <2>3
  <1>6. ASSUME NEW t \in Thread, Created(t)
        PROVE  free_list_' = <<>>
    BY <1>6, CachePoolAssumption DEF Created, ControlInv, TypeOK, MutexOwner, Unlocked
  <1>7. ASSUME NEW t \in Thread, GetPark(t) \/ WakeAgain(t)
        PROVE  free_list_' = <<>>
    BY <1>7 DEF GetPark, WakeAgain, Goto
  <1>8. ASSUME NEW t \in Thread, Leaves(t)
        PROVE  free_list_' = <<>> \/ abort_request_'
    BY <1>8 DEF Leaves, Goto
  <1>9. ASSUME NEW t \in Thread, GetCreate(t) \/ CreateFailed(t) \/ GiveUp(t)
        PROVE  UNCHANGED free_list_ /\ Parked' = Parked /\ Woken' = Woken
    BY <1>9, <1>a DEF GetCreate, CanEnter, CreateFailed, GiveUp, Goto
  <1>10. DestroyAbort \/ DestroyDelete \/ DestroyClear => abort_request_'
    BY DEF DestroyAbort, DestroyDelete, DestroyClear, ControlInv, StageInOrder
  <1>11. UNCHANGED vars => UNCHANGED free_list_ /\ Parked' = Parked /\ Woken' = Woken
    BY DEF vars
  <1> QED
    BY <1>1, <1>2, <1>3, <1>4, <1>5, <1>6, <1>7, <1>8, <1>9, <1>10, <1>11, StepCases

\* However releases, spurious wakeups, timeouts, barging callers and the
\* destructor interleave, enough threads are awake for what is free.
THEOREM WakeupCorrect == Spec => []NoLostWakeup
  <1>1. Init => NoLostWakeup
    BY DEF Init, NoLostWakeup, Parked, At
  <1>2. ControlInv /\ ControlInv' /\ NoLostWakeup /\ [Next]_vars => NoLostWakeup'
    BY WakeupStep
  <1> QED
    BY <1>1, <1>2, ControlCorrect, PTL DEF Spec

-----------------------------------------------------------------------------
\* Once the destructor has begun no thread is given a connection, be it new
\* to the pool, woken by the abort, late at its deadline or just connected.
THEOREM NothingLent == Spec => NothingLentAfterAbort
  <1>1. ASSUME ControlInv, [Next]_vars, abort_request_, NEW t \in Thread, pc'[t] = "holding"
        PROVE  pc[t] = "holding"
    <2>1. pc \in [Thread -> {"idle", "creating", "parked", "woken", "holding", "failed"}]
      BY <1>1 DEF ControlInv, TypeOK
    <2>2. ASSUME NEW u \in Thread, Takes(u) \/ Created(u)
          PROVE  FALSE
      BY <1>1, <2>2, CachePoolAssumption
         DEF Takes, Created, ControlInv, TypeOK, MutexOwner, Unlocked
    <2>3. ASSUME NEW u \in Thread,
                 \/ Leaves(u) \/ GetPark(u) \/ GetCreate(u) \/ CreateFailed(u)
                 \/ SpuriousWakeup(u) \/ WakeAgain(u) \/ RelCacheConn(u) \/ GiveUp(u)
          PROVE  pc[t] = "holding"
      BY <1>1, <2>1, <2>3
         DEF Leaves, Goto, GetPark, GetCreate, CreateFailed, SpuriousWakeup, WakeAgain,
             RelCacheConn, NotifyOne, GiveUp, Parked, At
    <2>4. DestroyAbort \/ DestroyDelete \/ DestroyClear \/ UNCHANGED vars => pc[t] = "holding"
      BY <1>1, <2>1 DEF DestroyAbort, DestroyDelete, DestroyClear, vars
    <2> QED
      BY <1>1, <2>2, <2>3, <2>4, StepCases
  <1>2. ControlInv /\ [Next]_vars
          => [abort_request_ => \A t \in Thread : pc'[t] = "holding" => pc[t] = "holding"]_vars
    BY <1>1
  <1> QED
    BY <1>2, ControlCorrect, PTL DEF Spec, NothingLentAfterAbort

-----------------------------------------------------------------------------
\* A waiter without a timeout is refused only by a pool that is being
\* destroyed; any other refusal comes from a failed connect.
THEOREM RefusalsJustified == Spec => NullOnlyWhenJustified
  <1>1. ASSUME ControlInv, [Next]_vars, NEW t \in Thread, pc[t] # "failed", pc'[t] = "failed"
        PROVE  abort_request_ \/ t \in Timed \/ pc[t] = "creating"
    <2>1. pc \in [Thread -> {"idle", "creating", "parked", "woken", "holding", "failed"}]
      BY <1>1 DEF ControlInv, TypeOK
    <2>2. ASSUME NEW u \in Thread, GetCacheConn(u)
          PROVE  abort_request_ \/ t \in Timed \/ pc[t] = "creating"
      BY <1>1, <2>1, <2>2
         DEF GetCacheConn, GetAborted, GetFree, GetPark, GetCreate, Created, CreateFailed,
             WakeTake, WakeAborted, WakeAgain, TimedOut, PopFront, Goto
    <2>3. ASSUME NEW u \in Thread, SpuriousWakeup(u) \/ RelCacheConn(u) \/ GiveUp(u)
          PROVE  FALSE
      BY <1>1, <2>1, <2>3
         DEF SpuriousWakeup, RelCacheConn, NotifyOne, GiveUp, Goto, Parked, At
    <2>4. ~Destroy /\ ~UNCHANGED vars
      BY <1>1, <2>1 DEF Destroy, DestroyAbort, DestroyDelete, DestroyClear, vars
    <2> QED
      BY <1>1, <2>2, <2>3, <2>4 DEF Next
  <1>2. ControlInv /\ [Next]_vars
          => [\A t \in Thread : pc[t] # "failed" /\ pc'[t] = "failed"
                => abort_request_ \/ t \in Timed \/ pc[t] = "creating"]_vars
    BY <1>1
  <1> QED
    BY <1>2, ControlCorrect, PTL DEF Spec, NullOnlyWhenJustified

-----------------------------------------------------------------------------
\* Every step of the pool is a step of the abstract pool, or none.
LEMMA PoolStep ==
  ASSUME ControlInv, Ownership, [Next]_vars
  PROVE  [Pool!Next]_(Pool!poolVars)
  <1> USE DEF Pool!poolVars
  <1>a. /\ conn \in [Thread -> Nat] /\ free_list_ \in Seq(Nat \ {0})
        /\ cur_conn_cnt_ \in Nat /\ Distinct(free_list_)
    BY DEF ControlInv, TypeOK, Ownership, ExclusiveOwnership, Distinct
  <1>1. ASSUME NEW t \in Thread, Takes(t)
        PROVE  Pool!Lend(t)
    <2>1. conn[t] = 0 /\ deleted = {} /\ deleted' = {}
      BY <1>1, <1>a, LiveStage DEF Takes, PopFront, ControlInv, HoldersHold
    <2>2. Head(free_list_) \in Free /\ Free' = Free \ {Head(free_list_)}
      BY <1>1, <1>a, PopFrontFacts DEF Takes, PopFront, Free
    <2> QED
      BY <1>1, <2>1, <2>2 DEF Takes, PopFront, Pool!Lend
  <1>2. ASSUME NEW t \in Thread, Created(t)
        PROVE  Pool!Grow(t)
    <2>1. free_list_ = <<>> /\ conn[t] = 0 /\ cur_conn_cnt_ < MaxConn /\ ~abort_request_
      BY <1>2, <1>a, CachePoolAssumption
         DEF Created, ControlInv, TypeOK, MutexOwner, HoldersHold, Unlocked
    <2>2. LET list == Append(free_list_, cur_conn_cnt_ + 1)
          IN  Tail(list) = <<>> /\ Head(list) = cur_conn_cnt_ + 1
      BY <2>1, <1>a
    <2>3. Free = {} /\ Free' = {}
      BY <1>2, <2>1, <2>2 DEF Created, Free, Range
    <2> QED
      BY <1>2, <2>1, <2>2, <2>3 DEF Created, Pool!Grow
  <1>3. ASSUME NEW t \in Thread, RelCacheConn(t)
        PROVE  Pool!GiveBack(t)
    <2>1. conn[t] \in Nat \ {0} /\ conn[t] \notin Free /\ conn[t] \notin deleted
      BY <1>3, <1>a
         DEF RelCacheConn, ControlInv, HoldersHold, Ownership, ExclusiveOwnership,
             NoDanglingHandout, Held, Holders, At
    <2>2. free_list_' = Append(free_list_, conn[t])
      BY <1>3, <2>1 DEF RelCacheConn
    <2>3. Free' = Free \cup {conn[t]}
      BY <2>1, <2>2, <1>a, PushBackFacts DEF Free
    <2> QED
      BY <1>3, <2>1, <2>3 DEF RelCacheConn, Pool!GiveBack
  <1>4. DestroyAbort => Pool!Close
    BY DEF DestroyAbort, Pool!Close, Free
  <1>5. DestroyDelete => Pool!Close
    BY DEF DestroyDelete, Pool!Close, Free, ControlInv, StageInOrder, TypeOK
  <1>6. DestroyClear => Pool!Close
    BY DEF DestroyClear, Pool!Close, Free, Range, ControlInv, StageInOrder, TypeOK
  <1>7. ASSUME UNCHANGED <<conn, free_list_, cur_conn_cnt_, abort_request_, deleted>>
        PROVE  UNCHANGED Pool!poolVars
    BY <1>7 DEF Free
  <1>8. ASSUME NEW t \in Thread,
               \/ Leaves(t) \/ GetPark(t) \/ GetCreate(t) \/ CreateFailed(t)
               \/ SpuriousWakeup(t) \/ WakeAgain(t) \/ GiveUp(t)
        PROVE  UNCHANGED Pool!poolVars
    BY <1>7, <1>8
       DEF Leaves, Goto, GetPark, GetCreate, CreateFailed, SpuriousWakeup, WakeAgain, GiveUp
  <1>9. UNCHANGED vars => UNCHANGED Pool!poolVars
    BY <1>7 DEF vars
  <1> QED
    BY <1>1, <1>2, <1>3, <1>4, <1>5, <1>6, <1>8, <1>9, StepCases DEF Pool!Next

\* The pool implements the abstract one, its destructor in three steps included.
THEOREM PoolRefinement == Spec => ImplementsPool
  <1>1. Init => Pool!Init
    BY InitialListFacts, CachePoolAssumption DEF Init, Pool!Init, Free
  <1>2. ControlInv /\ Ownership /\ [Next]_vars => [Pool!Next]_(Pool!poolVars)
    BY PoolStep
  <1> QED
    BY <1>1, <1>2, ControlCorrect, OwnershipCorrect, PTL
       DEF Spec, ImplementsPool, Pool!Spec
=============================================================================
