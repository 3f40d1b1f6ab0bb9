---------------------------- MODULE DBPool_proofs ----------------------------
(***************************************************************************)
(* Theorems about DBPool, for every set of threads, every limit, with and  *)
(* without a destructor that runs while threads wait.                      *)
(*                                                                         *)
(* The argument has three layers, each inductive once the one before it is *)
(* known: who is where (ControlInv), where each connection is              *)
(* (Ownership), and how many threads are on their way to the free          *)
(* connections (NoLostWakeup).                                             *)
(***************************************************************************)
EXTENDS DBPool, Lemmas

\* The four ways into PopFront, and the three into Fail, are the same step as
\* far as the invariants are concerned.
Takes(t) == pc[t] \in {"idle", "parked", "woken"} /\ Unlocked /\ PopFront(t)
Leaves(t) ==
  /\ pc[t] \in {"idle", "parked", "woken"} /\ Unlocked /\ Fail(t)
  /\ pc[t] = "idle" \/ m_free_list = <<>>

\* Every step of the pool is one of twelve: a call that takes a connection or
\* leaves without one, on whatever way, or one of the other actions.
LEMMA StepCases ==
  ASSUME Next
  PROVE  \/ Destroy
         \/ \E t \in Thread :
              \/ Takes(t) \/ Leaves(t) \/ GetPark(t) \/ GetCreate(t)
              \/ Created(t) \/ CreateFailed(t) \/ SpuriousWakeup(t) \/ WakeAgain(t)
              \/ ReleaseConnection(t) \/ GiveUp(t)
  <1> SUFFICES ASSUME NEW t \in Thread, GetConnection(t)
               PROVE  \/ Takes(t) \/ Leaves(t) \/ GetPark(t) \/ GetCreate(t)
                      \/ Created(t) \/ CreateFailed(t) \/ WakeAgain(t)
    BY DEF Next
  <1>1. GetFree(t) \/ WakeTake(t) => Takes(t)
    BY DEF GetFree, WakeTake, Takes, CanEnter
  <1>2. GetAborted(t) \/ WakeAborted(t) => Leaves(t)
    BY DEF GetAborted, WakeAborted, Leaves, CanEnter
  <1>3. TimedOut(t) => Takes(t) \/ Leaves(t)
    BY DEF TimedOut, Takes, Leaves
  <1> QED
    BY <1>1, <1>2, <1>3 DEF GetConnection

-----------------------------------------------------------------------------
\* A pool that has just been made satisfies the control invariant.
LEMMA ControlInit == Init => ControlInv
  <1> SUFFICES ASSUME Init PROVE ControlInv
    OBVIOUS
  <1>1. m_free_list \in Seq(Nat \ {0})
    BY InitialListFacts, DBPoolAssumption DEF Init
  <1>2. TypeOK
    BY <1>1, DBPoolAssumption DEF Init, TypeOK
  <1> QED
    BY <1>2, DBPoolAssumption
       DEF Init, ControlInv, MutexOwner, HoldersHold, WaitOnlyAtLimit,
           Waiting, Parked, Woken, At, Unlocked

\* No step of getConnection, releaseConnection or ~DBPool breaks it.
LEMMA ControlStep ==
  ASSUME ControlInv, [Next]_vars
  PROVE  ControlInv'
  <1> USE DBPoolAssumption
  <1> USE DEF ControlInv, TypeOK, MutexOwner, HoldersHold, WaitOnlyAtLimit,
              Waiting, Parked, Woken, At, Unlocked, Goto
  <1>1. ASSUME NEW t \in Thread, Takes(t)
        PROVE  ControlInv'
    <2>1. Tail(m_free_list) \in Seq(Nat \ {0}) /\ Head(m_free_list) \in Nat \ {0}
      BY <1>1 DEF Takes, PopFront
    <2> QED
      BY <1>1, <2>1 DEF Takes, PopFront
  <1>2. ASSUME NEW t \in Thread, Leaves(t)
        PROVE  ControlInv'
    BY <1>2 DEF Leaves, Fail
  <1>3. ASSUME NEW t \in Thread, GetPark(t)
        PROVE  ControlInv'
    BY <1>3 DEF GetPark, CanEnter
  <1>4. ASSUME NEW t \in Thread, GetCreate(t)
        PROVE  ControlInv'
    BY <1>4 DEF GetCreate, CanEnter
  <1>5. ASSUME NEW t \in Thread, Created(t)
        PROVE  ControlInv'
    <2>1. m_cur_conn_cnt + 1 \in Nat \ {0}
      OBVIOUS
    <2>2. m_mutex = t /\ m_free_list = <<>> /\ Waiting = {}
      BY <1>5 DEF Created
    <2>3. LET list == Append(m_free_list, m_cur_conn_cnt + 1)
          IN  Tail(list) = <<>> /\ Head(list) = m_cur_conn_cnt + 1
      BY <2>1, <2>2
    <2>4. m_free_list' = <<>> /\ conn' = [conn EXCEPT ![t] = m_cur_conn_cnt + 1]
      BY <1>5, <2>3 DEF Created
    <2> QED
      BY <1>5, <2>1, <2>2, <2>4 DEF Created
  <1>6. ASSUME NEW t \in Thread, CreateFailed(t)
        PROVE  ControlInv'
    BY <1>6 DEF CreateFailed
  <1>7. ASSUME NEW t \in Thread, SpuriousWakeup(t)
        PROVE  ControlInv'
    BY <1>7 DEF SpuriousWakeup
  <1>8. ASSUME NEW t \in Thread, WakeAgain(t)
        PROVE  ControlInv'
    BY <1>8 DEF WakeAgain
  <1>9. ASSUME NEW t \in Thread, ReleaseConnection(t)
        PROVE  ControlInv'
    <2>1. Append(m_free_list, conn[t]) \in Seq(Nat \ {0})
      BY <1>9, PushBackFacts DEF ReleaseConnection
    <2> QED
      BY <1>9, <2>1 DEF ReleaseConnection, NotifyOne
  <1>10. ASSUME NEW t \in Thread, GiveUp(t)
         PROVE  ControlInv'
    BY <1>10 DEF GiveUp
  <1>11. ASSUME Destroy
         PROVE  ControlInv'
    <2>1. Free \subseteq Nat
      BY DEF Free, Range
    <2> QED
      BY <1>11, <2>1 DEF Destroy
  <1>12. CASE UNCHANGED vars
    BY <1>12 DEF vars
  <1> QED
    BY <1>1, <1>2, <1>3, <1>4, <1>5, <1>6, <1>7, <1>8, <1>9, <1>10, <1>11, <1>12,
       StepCases

\* The mutex outlives a critical section only in the hands of a thread that
\* connects, a thread that holds a connection has one, and threads wait only
\* for a pool at its limit.
THEOREM ControlCorrect == Spec => []ControlInv
  BY ControlInit, ControlStep, PTL DEF Spec

\* The type invariant: every variable keeps its type, whoever runs when.
THEOREM TypeCorrect == Spec => []TypeOK
  BY ControlCorrect, PTL DEF ControlInv

-----------------------------------------------------------------------------
\* The connections made by init() are all in the list, each once.
LEMMA OwnershipInit == Init => Ownership
  <1> SUFFICES ASSUME Init PROVE Ownership
    OBVIOUS
  <1>1. Free = 1 .. MinConn /\ Distinct(m_free_list)
    BY InitialListFacts, DBPoolAssumption DEF Init, Free
  <1>2. Holders = {} /\ Held = {}
    BY DEF Init, Holders, Held, At
  <1> QED
    BY <1>1, <1>2
       DEF Init, Ownership, ExclusiveOwnership, NothingLost, NoDanglingConnection, Distinct

\* A thread holds a connection iff conn says so: pc is not needed any more.
LEMMA HoldersByConn ==
  ASSUME HoldersHold
  PROVE  Holders = {t \in Thread : conn[t] # 0}
  BY DEF HoldersHold, Holders, At

\* No step duplicates a connection, loses one or lends a deleted one.
LEMMA OwnershipStep ==
  ASSUME ControlInv, ControlInv', Ownership, [Next]_vars
  PROVE  Ownership'
  <1> USE DEF Ownership, ExclusiveOwnership, NothingLost, NoDanglingConnection
  <1> DEFINE Having == {t \in Thread : conn[t] # 0}
  <1>a. Holders = Having /\ Holders' = Having'
    BY HoldersByConn DEF ControlInv, HoldersHold, Holders, At
  <1>b. Held = {conn[t] : t \in Having} /\ Held' = {conn'[t] : t \in Having'}
    BY <1>a DEF Held
  <1>c. /\ conn \in [Thread -> Nat] /\ m_free_list \in Seq(Nat \ {0})
        /\ m_cur_conn_cnt \in Nat
    BY DEF ControlInv, TypeOK
  <1>d. Distinct(m_free_list)
    BY DEF Distinct
  <1>1. ASSUME UNCHANGED <<conn, m_free_list, m_cur_conn_cnt, deleted>>
        PROVE  Ownership'
    <2>1. Held' = Held /\ Free' = Free /\ Having' = Having
      BY <1>1, <1>b DEF Free
    <2> QED
      BY <1>1, <2>1, <1>a
  <1>2. ASSUME NEW t \in Thread, Takes(t)
        PROVE  Ownership'
    <2> DEFINE h == Head(m_free_list)
    <2>1. /\ m_free_list # <<>> /\ m_free_list' = Tail(m_free_list)
          /\ conn' = [conn EXCEPT ![t] = h]
          /\ UNCHANGED <<m_cur_conn_cnt, deleted>>
      BY <1>2 DEF Takes, PopFront
    <2>2. /\ h \in Free /\ h \in Nat \ {0}
          /\ Free' = Free \ {h}
          /\ Distinct(m_free_list')
      BY <2>1, <1>c, <1>d, PopFrontFacts DEF Free
    <2>3. conn[t] = 0
      BY <1>2, <1>c DEF Takes, ControlInv, HoldersHold
    <2>4. Having' = Having \cup {t} /\ Held' = Held \cup {h}
      BY <2>1, <2>2, <2>3, <1>b, <1>c
    <2>5. \A u \in Having : conn'[u] = conn[u] /\ conn[u] # h /\ conn[u] \notin Free
      BY <2>1, <2>2, <2>3, <1>a, <1>c
    <2>6. conn'[t] = h /\ h \notin Free'
      BY <2>1, <2>2, <1>c
    <2>7. \A u, v \in Having' : conn'[u] = conn'[v] => u = v
      BY <2>4, <2>5, <2>6, <1>a
    <2>8. \A u \in Having' : conn'[u] \notin Free'
      BY <2>2, <2>4, <2>5, <2>6
    <2> QED
      BY <2>1, <2>2, <2>4, <2>7, <2>8, <1>a DEF Distinct
  <1>3. ASSUME NEW t \in Thread, Created(t)
        PROVE  Ownership'
    <2> DEFINE c == m_cur_conn_cnt + 1
    <2>1. m_free_list = <<>> /\ conn[t] = 0
      BY <1>3, DBPoolAssumption
         DEF Created, ControlInv, TypeOK, MutexOwner, HoldersHold, Unlocked
    <2>2. Append(m_free_list, c) = <<c>> /\ Tail(<<c>>) = <<>> /\ Head(<<c>>) = c
      BY <2>1
    <2>3. /\ m_free_list' = <<>> /\ conn' = [conn EXCEPT ![t] = c]
          /\ m_cur_conn_cnt' = c /\ UNCHANGED deleted
      BY <1>3, <2>2 DEF Created
    <2>4. Free = {} /\ Free' = {}
      BY <2>1, <2>3 DEF Free, Range
    <2>5. Having' = Having \cup {t} /\ Held' = Held \cup {c}
      BY <2>1, <2>3, <1>b, <1>c
    <2>6. c \notin Held /\ c \notin deleted
      BY <1>c
    <2>7. \A u \in Having : conn'[u] = conn[u] /\ conn[u] # c
      BY <2>1, <2>3, <2>6, <1>b, <1>c
    <2>8. conn'[t] = c
      BY <2>3, <1>c
    <2>9. \A u, v \in Having' : conn'[u] = conn'[v] => u = v
      BY <2>5, <2>7, <2>8, <1>a
    <2>10. Free' \cup Held' \cup deleted' = 1 .. c
      BY <2>3, <2>4, <2>5, <1>c
    <2> QED
      BY <2>3, <2>4, <2>5, <2>6, <2>9, <2>10, <1>a
  <1>4. ASSUME NEW t \in Thread, ReleaseConnection(t)
        PROVE  Ownership'
    <2> DEFINE c == conn[t]
    <2>1. t \in Having /\ c \in Nat \ {0} /\ c \notin Free
      BY <1>4, <1>a, <1>c DEF ReleaseConnection, ControlInv, HoldersHold
    <2>2. /\ m_free_list' = Append(m_free_list, c)
          /\ conn' = [conn EXCEPT ![t] = 0]
          /\ UNCHANGED <<m_cur_conn_cnt, deleted>>
      BY <1>4, <2>1 DEF ReleaseConnection
    <2>3. Free' = Free \cup {c} /\ Distinct(m_free_list')
      BY <2>1, <2>2, <1>c, <1>d, PushBackFacts DEF Free
    <2>4. Having' = Having \ {t} /\ \A u \in Having' : conn'[u] = conn[u] /\ conn[u] # c
      BY <2>1, <2>2, <1>a, <1>c
    <2>5. Held' = Held \ {c}
      BY <2>1, <2>4, <1>a, <1>b
    <2>6. c \in Held /\ Free' \cup Held' = Free \cup Held
      BY <2>1, <2>3, <2>5, <1>b
    <2> QED
      BY <2>2, <2>3, <2>4, <2>6, <1>a DEF Distinct
  <1>5. ASSUME Destroy
        PROVE  Ownership'
    <2>1. Free' = {} /\ Having' = Having /\ Held' = Held /\ deleted' = deleted \cup Free
      BY <1>5, <1>b DEF Destroy, Free, Range
    <2>2. Free \cap Held = {}
      BY <1>a, <1>b
    <2> QED
      BY <1>5, <2>1, <2>2, <1>a DEF Destroy
  <1>6. ASSUME NEW t \in Thread,
               \/ Leaves(t) \/ GetPark(t) \/ GetCreate(t) \/ CreateFailed(t)
               \/ SpuriousWakeup(t) \/ WakeAgain(t) \/ GiveUp(t)
        PROVE  UNCHANGED <<conn, m_free_list, m_cur_conn_cnt, deleted>>
    BY <1>6 DEF Leaves, Fail, GetPark, GetCreate, CreateFailed, SpuriousWakeup, WakeAgain, GiveUp
  <1>7. UNCHANGED vars => UNCHANGED <<conn, m_free_list, m_cur_conn_cnt, deleted>>
    BY DEF vars
  <1> QED
    BY <1>1, <1>2, <1>3, <1>4, <1>5, <1>6, <1>7, StepCases

\* No two threads ever hold one connection, nobody holds a free or a deleted
\* one, and none is lost, in every interleaving.
THEOREM OwnershipCorrect == Spec => []Ownership
  <1>1. Init => Ownership
    BY OwnershipInit
  <1>2. ControlInv /\ ControlInv' /\ Ownership /\ [Next]_vars => Ownership'
    BY OwnershipStep
  <1> QED
    BY <1>1, <1>2, ControlCorrect, PTL DEF Spec

\* m_cur_conn_cnt never passes the configured limit (or the starting size).
THEOREM LimitCorrect == Spec => []WithinLimit
  <1> USE DBPoolAssumption
  <1>1. Init => WithinLimit
    BY DEF Init, WithinLimit
  <1>2. ControlInv /\ WithinLimit /\ [Next]_vars => WithinLimit'
    <2> SUFFICES ASSUME ControlInv, WithinLimit, [Next]_vars
                 PROVE  WithinLimit'
      OBVIOUS
    <2>1. ASSUME NEW t \in Thread, Created(t)
          PROVE  WithinLimit'
      BY <2>1 DEF Created, ControlInv, TypeOK, MutexOwner, Unlocked, WithinLimit
    <2>2. UNCHANGED m_cur_conn_cnt => WithinLimit'
      BY DEF WithinLimit
    <2> QED
      BY <2>1, <2>2, StepCases
         DEF vars, Destroy, Takes, PopFront, Leaves, Fail, GetPark, GetCreate, CreateFailed,
             SpuriousWakeup, WakeAgain, ReleaseConnection, GiveUp
  <1> QED
    BY <1>1, <1>2, ControlCorrect, PTL DEF Spec

-----------------------------------------------------------------------------
\* A step that frees a connection wakes somebody, and one that uses up a woken
\* thread takes a connection.
LEMMA WakeupStep ==
  ASSUME ControlInv, NoLostWakeup, [Next]_vars
  PROVE  NoLostWakeup'
  <1> USE DEF NoLostWakeup, Parked, Woken, At, Goto
  <1>a. /\ pc \in [Thread -> {"idle", "creating", "parked", "woken", "holding", "failed"}]
        /\ m_free_list \in Seq(Nat \ {0}) /\ Len(m_free_list) \in Nat
    BY DEF ControlInv, TypeOK
  <1>b. IsFiniteSet(Woken) /\ Cardinality(Woken) \in Nat
    BY DBPoolAssumption, FS_Subset, FS_CardinalityType
  <1>c. IsFiniteSet(Woken') /\ Cardinality(Woken') \in Nat
    BY DBPoolAssumption, FS_Subset, FS_CardinalityType
  <1>1. ASSUME m_free_list' = <<>>
        PROVE  NoLostWakeup'
    BY <1>1, <1>c
  <1>2. ASSUME UNCHANGED m_free_list, Parked' = Parked, Woken' = Woken
        PROVE  NoLostWakeup'
    BY <1>2
  <1>3. ASSUME NEW t \in Thread, Takes(t)
        PROVE  NoLostWakeup'
    <2>1. /\ m_free_list # <<>> /\ m_free_list' = Tail(m_free_list)
          /\ pc' = [pc EXCEPT ![t] = "holding"]
      BY <1>3 DEF Takes, PopFront
    <2>2. Len(m_free_list') = Len(m_free_list) - 1
      BY <2>1, <1>a
    <2>3. Parked' \subseteq Parked /\ Woken' = Woken \ {t}
      BY <2>1, <1>a
    <2> HIDE DEF Parked, Woken
    <2>4. Cardinality(Woken') >= Cardinality(Woken) - 1
      BY <2>3, <1>b, OneMoreOneLess
    <2> QED
      BY <2>2, <2>3, <2>4, <1>a, <1>b, <1>c
  <1>4. ASSUME NEW t \in Thread, SpuriousWakeup(t)
        PROVE  NoLostWakeup'
    <2>1. Parked' \subseteq Parked /\ Woken' = Woken \cup {t} /\ UNCHANGED m_free_list
      BY <1>4, <1>a DEF SpuriousWakeup
    <2> HIDE DEF Parked, Woken
    <2>2. Cardinality(Woken') >= Cardinality(Woken)
      BY <2>1, <1>b, OneMoreOneLess
    <2> QED
      BY <2>1, <2>2, <1>a, <1>b, <1>c
  <1>5. ASSUME NEW t \in Thread, ReleaseConnection(t)
        PROVE  NoLostWakeup'
    <2>1. CASE conn[t] \in Free
      BY <1>5, <2>1, <1>2, <1>a DEF ReleaseConnection
    <2>2. CASE conn[t] \notin Free /\ Parked = {}
      BY <1>5, <2>2, <1>a DEF ReleaseConnection, NotifyOne
    <2>3. CASE conn[t] \notin Free /\ Parked # {}
      <3>1. pc[t] = "holding"
        BY <1>5 DEF ReleaseConnection
      <3>2. PICK w \in Parked : pc' = [pc EXCEPT ![t] = "idle", ![w] = "woken"]
        BY <1>5, <2>3 DEF ReleaseConnection, NotifyOne
      <3>3. Woken' = Woken \cup {w} /\ w \notin Woken
        BY <3>1, <3>2, <1>a
      <3>4. Cardinality(Woken') = Cardinality(Woken) + 1
        BY <3>3, <1>b, FS_AddElement
      <3>5. m_free_list' = Append(m_free_list, conn[t])
        BY <1>5, <2>3 DEF ReleaseConnection
      <3>6. Len(m_free_list') = Len(m_free_list) + 1
        BY <3>5, <1>a
      <3> HIDE DEF Parked, Woken
      <3> QED
        BY <2>3, <3>4, <3>6, <1>a, <1>b
    <2> QED
      BY <2>1, <2>2, <2>3
  <1>6. ASSUME NEW t \in Thread, Created(t)
        PROVE  m_free_list' = <<>>
    BY <1>6, DBPoolAssumption DEF Created, ControlInv, TypeOK, MutexOwner, Unlocked
  <1>7. ASSUME NEW t \in Thread, GetPark(t) \/ WakeAgain(t)
        PROVE  m_free_list' = <<>>
    BY <1>7 DEF GetPark, WakeAgain
  <1>8. ASSUME NEW t \in Thread, Leaves(t), m_free_list = <<>>
        PROVE  m_free_list' = <<>>
    BY <1>8 DEF Leaves, Fail
  <1>9. ASSUME NEW t \in Thread,
               \/ Leaves(t) /\ pc[t] = "idle"
               \/ GetCreate(t) \/ CreateFailed(t) \/ GiveUp(t)
        PROVE  UNCHANGED m_free_list /\ Parked' = Parked /\ Woken' = Woken
    BY <1>9, <1>a DEF Leaves, Fail, GetCreate, CanEnter, CreateFailed, GiveUp
  <1>10. Destroy => m_free_list' = <<>>
    BY DEF Destroy
  <1>11. UNCHANGED vars => UNCHANGED m_free_list /\ Parked' = Parked /\ Woken' = Woken
    BY DEF vars
  <1>12. ASSUME NEW t \in Thread, Leaves(t)
         PROVE  NoLostWakeup'
    BY <1>12, <1>1, <1>2, <1>8, <1>9 DEF Leaves
  <1> QED
    BY <1>1, <1>2, <1>3, <1>4, <1>5, <1>6, <1>7, <1>9, <1>10, <1>11, <1>12, StepCases

\* However releases, spurious wakeups, timeouts and barging callers
\* interleave, notify_one leaves enough threads awake for what is free.
THEOREM WakeupCorrect == Spec => []NoLostWakeup
  <1>1. Init => NoLostWakeup
    BY DEF Init, NoLostWakeup, Parked, At
  <1>2. ControlInv /\ NoLostWakeup /\ [Next]_vars => NoLostWakeup'
    BY WakeupStep
  <1> QED
    BY <1>1, <1>2, ControlCorrect, PTL DEF Spec

-----------------------------------------------------------------------------
\* A waiter without a timeout is refused only by a pool that is being
\* destroyed; any other refusal comes from a failed connect.
THEOREM RefusalsJustified == Spec => NullOnlyWhenJustified
  <1>1. ASSUME ControlInv, [Next]_vars, NEW t \in Thread, pc[t] # "failed", pc'[t] = "failed"
        PROVE  m_abort_request \/ t \in Timed \/ pc[t] = "creating"
    <2>1. pc \in [Thread -> {"idle", "creating", "parked", "woken", "holding", "failed"}]
      BY <1>1 DEF ControlInv, TypeOK
    <2>2. ASSUME NEW u \in Thread, GetConnection(u)
          PROVE  m_abort_request \/ t \in Timed \/ pc[t] = "creating"
      BY <1>1, <2>1, <2>2
         DEF GetConnection, GetAborted, GetFree, GetPark, GetCreate, Created, CreateFailed,
             WakeTake, WakeAborted, WakeAgain, TimedOut, PopFront, Fail, Goto
    <2>3. ASSUME NEW u \in Thread, SpuriousWakeup(u) \/ ReleaseConnection(u) \/ GiveUp(u)
          PROVE  FALSE
      BY <1>1, <2>1, <2>3
         DEF SpuriousWakeup, ReleaseConnection, NotifyOne, GiveUp, Goto, Parked, At
    <2>4. ~Destroy /\ ~UNCHANGED vars
      BY <1>1, <2>1 DEF Destroy, vars
    <2> QED
      BY <1>1, <2>2, <2>3, <2>4 DEF Next
  <1>2. ControlInv /\ [Next]_vars
          => [\A t \in Thread : pc[t] # "failed" /\ pc'[t] = "failed"
                => m_abort_request \/ t \in Timed \/ pc[t] = "creating"]_vars
    BY <1>1
  <1> QED
    BY <1>2, ControlCorrect, PTL DEF Spec, NullOnlyWhenJustified

-----------------------------------------------------------------------------
\* Every step of the pool is a step of the abstract pool, or none.
LEMMA PoolStep ==
  ASSUME ControlInv, Ownership, [Next]_vars
  PROVE  [Pool!Next]_(Pool!poolVars)
  <1> USE DEF Pool!poolVars
  <1>a. /\ conn \in [Thread -> Nat] /\ m_free_list \in Seq(Nat \ {0})
        /\ m_cur_conn_cnt \in Nat /\ Distinct(m_free_list)
    BY DEF ControlInv, TypeOK, Ownership, ExclusiveOwnership, Distinct
  <1>1. ASSUME NEW t \in Thread, Takes(t)
        PROVE  Pool!Lend(t)
    <2>1. conn[t] = 0
      BY <1>1, <1>a DEF Takes, ControlInv, HoldersHold
    <2>2. Head(m_free_list) \in Free /\ Free' = Free \ {Head(m_free_list)}
      BY <1>1, <1>a, PopFrontFacts DEF Takes, PopFront, Free
    <2> QED
      BY <1>1, <2>1, <2>2 DEF Takes, PopFront, Pool!Lend
  <1>2. ASSUME NEW t \in Thread, Created(t)
        PROVE  Pool!Grow(t)
    <2>1. m_free_list = <<>> /\ conn[t] = 0 /\ m_cur_conn_cnt < MaxConn /\ ~m_abort_request
      BY <1>2, <1>a, DBPoolAssumption
         DEF Created, ControlInv, TypeOK, MutexOwner, HoldersHold, Unlocked
    <2>2. LET list == Append(m_free_list, m_cur_conn_cnt + 1)
          IN  Tail(list) = <<>> /\ Head(list) = m_cur_conn_cnt + 1
      BY <2>1, <1>a
    <2>3. Free = {} /\ Free' = {}
      BY <1>2, <2>1, <2>2 DEF Created, Free, Range
    <2> QED
      BY <1>2, <2>1, <2>2, <2>3 DEF Created, Pool!Grow
  <1>3. ASSUME NEW t \in Thread, ReleaseConnection(t)
        PROVE  Pool!GiveBack(t)
    <2>1. conn[t] \in Nat \ {0} /\ conn[t] \notin Free
      BY <1>3, <1>a
         DEF ReleaseConnection, ControlInv, HoldersHold, Ownership, ExclusiveOwnership,
             Holders, At
    <2>2. m_free_list' = Append(m_free_list, conn[t])
      BY <1>3, <2>1 DEF ReleaseConnection
    <2>3. Free' = Free \cup {conn[t]}
      BY <2>1, <2>2, <1>a, PushBackFacts DEF Free
    <2> QED
      BY <1>3, <2>1, <2>3 DEF ReleaseConnection, Pool!GiveBack
  <1>4. Destroy => Pool!Close
    BY DEF Destroy, Pool!Close, Free, Range
  <1>5. ASSUME UNCHANGED <<conn, m_free_list, m_cur_conn_cnt, m_abort_request>>
        PROVE  UNCHANGED Pool!poolVars
    BY <1>5 DEF Free
  <1>6. ASSUME NEW t \in Thread,
               \/ Leaves(t) \/ GetPark(t) \/ GetCreate(t) \/ CreateFailed(t)
               \/ SpuriousWakeup(t) \/ WakeAgain(t) \/ GiveUp(t)
        PROVE  UNCHANGED Pool!poolVars
    BY <1>5, <1>6
       DEF Leaves, Fail, GetPark, GetCreate, CreateFailed, SpuriousWakeup, WakeAgain, GiveUp
  <1>7. UNCHANGED vars => UNCHANGED Pool!poolVars
    BY <1>5 DEF vars
  <1> QED
    BY <1>1, <1>2, <1>3, <1>4, <1>6, <1>7, StepCases DEF Pool!Next

\* The pool implements the abstract one: whatever its mutex and condition
\* variable do, callers see connections lent, given back and made one by one.
THEOREM PoolRefinement == Spec => ImplementsPool
  <1>1. Init => Pool!Init
    BY InitialListFacts, DBPoolAssumption DEF Init, Pool!Init, Free
  <1>2. ControlInv /\ Ownership /\ [Next]_vars => [Pool!Next]_(Pool!poolVars)
    BY PoolStep
  <1> QED
    BY <1>1, <1>2, ControlCorrect, OwnershipCorrect, PTL
       DEF Spec, ImplementsPool, Pool!Spec
=============================================================================
