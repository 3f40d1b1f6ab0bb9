--------------------------- MODULE Handlers_proofs ---------------------------
(***************************************************************************)
(* Theorems about the handlers, for any threads, requests, pool sizes and  *)
(* faults, whatever statements MySQL refuses.                              *)
(*                                                                         *)
(* ControlInv says who is where with what: at each step a thread works on  *)
(* a request of the kind its handler takes, and holds a connection of the  *)
(* pool that handler uses, or none.  The others are inductive once it is   *)
(* known.                                                                  *)
(***************************************************************************)
EXTENDS Handlers, Lemmas

\* The requests a thread at a step may be working on.
OpsAt ==
  [reg |-> {"reg"}, reg_insert |-> {"reg"}, login |-> {"login"}, login_token |-> {"login"},
   upload |-> {"upload"}, upload_url |-> {"upload"}, upload_info |-> {"upload"},
   upload_owner |-> {"upload"}, share |-> {"share"}, browse |-> {"browse"},
   shares |-> {"shares"}, shares_list |-> {"shares"},
   verify |-> {"count", "files"}, count |-> {"count", "files"}, files |-> {"files"}]

\* An idle thread has no request and no connection; one at work has the
\* connection its step takes, or waits for it.
InPlace(t) ==
  IF pc[t] = "idle"
  THEN job[t] = NoRequest /\ held[t] = "none"
  ELSE /\ job[t] \in Requests /\ job[t].op \in OpsAt[pc[t]]
       /\ held[t] \in {"none", PoolOf[pc[t]]}

ControlInv ==
  /\ alive \in BOOLEAN
  /\ pc \in [Thread -> DOMAIN PoolOf \cup {"idle"}]
  /\ job \in [Thread -> Requests \cup {NoRequest}]
  /\ held \in [Thread -> Pools \cup {"none"}]
  /\ DOMAIN stored = Thread
  /\ reply.req \in Requests \cup {NoRequest} /\ reply.code \in {-1, 0, 1}
  /\ \A t \in Thread : InPlace(t)

-----------------------------------------------------------------------------
\* What a step does to the threads: it takes a connection, answers, goes on
\* with or without its connection, or the process dies.
Answers(t) == pc[t] # "idle" /\ \E code \in {-1, 0, 1} : \E data : Answer(t, code, data)

GoesOn(t) ==
  \/ pc[t] = "reg" /\ Go(t, "reg_insert")
  \/ pc[t] = "upload_url" /\ Go(t, "upload_info")
  \/ pc[t] = "upload_info" /\ Go(t, "upload_owner")
  \/ pc[t] = "shares" /\ Go(t, "shares_list")

GoesOnReleased(t) ==
  \/ pc[t] = "login" /\ GoReleased(t, "login_token")
  \/ pc[t] = "verify" /\ GoReleased(t, "count")
  \/ pc[t] = "count" /\ job[t].op = "files" /\ GoReleased(t, "files")

Stores(t) ==
  /\ pc[t] = "upload" /\ pc' = [pc EXCEPT ![t] = "upload_url"]
  /\ \E row : stored' = [stored EXCEPT ![t] = row]
  /\ UNCHANGED <<alive, job, held, reply>>

ThreadStep(t) ==
  Acquire(t) \/ Answers(t) \/ GoesOn(t) \/ GoesOnReleased(t) \/ Stores(t) \/ Die

\* Every step of a handler is one of these for its threads.
LEMMA StepCases ==
  ASSUME NEW t \in Thread, Step(t)
  PROVE  ThreadStep(t)
  <1> USE DEF ThreadStep, Ready
  <1>1. NoConnection(t) => Answers(t) \/ Die
    BY DEF NoConnection, Answers
  <1>2. RegFind(t) => Answers(t) \/ GoesOn(t)
    BY DEF RegFind, Answers, GoesOn
  <1>3. RegInsert(t) => Answers(t)
    BY DEF RegInsert, Answers
  <1>4. Login(t) => Answers(t) \/ GoesOnReleased(t)
    BY DEF Login, Answers, GoesOnReleased
  <1>5. LoginToken(t) => Answers(t)
    BY DEF LoginToken, Answers
  <1>6. UploadStore(t) => Stores(t) \/ Answers(t) \/ Die
    BY DEF UploadStore, Stores, Answers
  <1>7. UploadUrl(t) => Answers(t) \/ GoesOn(t) \/ Die
    BY DEF UploadUrl, Answers, GoesOn
  <1>8. UploadInfo(t) => Answers(t) \/ GoesOn(t)
    BY DEF UploadInfo, Answers, GoesOn
  <1>9. UploadOwner(t) => Answers(t)
    BY DEF UploadOwner, Answers
  <1>10. SharePicture(t) => Answers(t)
    BY DEF SharePicture, Answers
  <1>11. BrowsePicture(t) => Answers(t) \/ Die
    BY DEF BrowsePicture, Answers
  <1>12. CountShares(t) => Answers(t) \/ GoesOn(t)
    BY DEF CountShares, Answers, GoesOn
  <1>13. ListShares(t) => Answers(t)
    BY DEF ListShares, Answers
  <1>14. Verify(t) => Answers(t) \/ GoesOnReleased(t)
    BY DEF Verify, Answers, GoesOnReleased
  <1>15. CountFiles(t) => Answers(t) \/ GoesOnReleased(t)
    BY DEF CountFiles, Answers, GoesOnReleased
  <1>16. ListFiles(t) => Answers(t) \/ Die
    BY DEF ListFiles, Answers
  <1> QED
    BY <1>1, <1>2, <1>3, <1>4, <1>5, <1>6, <1>7, <1>8, <1>9, <1>10, <1>11, <1>12, <1>13,
       <1>14, <1>15, <1>16 DEF Step

-----------------------------------------------------------------------------
\* Idle threads are in place.
LEMMA ControlInit == Init => ControlInv
  BY DEF Init, ControlInv, InPlace, NoReply, NoRequest

\* Every request is for one of eight handlers.
LEMMA RequestOps ==
  ASSUME NEW r \in Requests
  PROVE  r.op \in {"reg", "login", "upload", "share", "browse", "shares", "count", "files"}
  BY HandlersAssumption DEF Required

\* No step of a handler, nor what happens around it, breaks the control invariant.
LEMMA ControlStep ==
  ASSUME ControlInv, [Next]_vars
  PROVE  ControlInv'
  <1> USE DEF ControlInv, InPlace
  <1>1. ASSUME NEW t \in Thread, Acquire(t)
        PROVE  ControlInv'
    <2>1. PoolOf[pc[t]] \in Pools
      BY <1>1 DEF Acquire, PoolOf, Pools
    <2> QED
      BY <1>1, <2>1 DEF Acquire
  <1>2. ASSUME NEW t \in Thread, Answers(t)
        PROVE  ControlInv'
    BY <1>2 DEF Answers, Answer, NoRequest
  <1>3. ASSUME NEW t \in Thread, GoesOn(t)
        PROVE  ControlInv'
    BY <1>3 DEF GoesOn, Go, OpsAt, PoolOf
  <1>4. ASSUME NEW t \in Thread, GoesOnReleased(t)
        PROVE  ControlInv'
    BY <1>4 DEF GoesOnReleased, GoReleased, OpsAt, PoolOf
  <1>5. ASSUME NEW t \in Thread, Stores(t)
        PROVE  ControlInv'
    BY <1>5 DEF Stores, OpsAt, PoolOf
  <1>6. CASE Die
    BY <1>6 DEF Die
  <1>7. ASSUME NEW t \in Thread, NEW r \in Requests, Arrive(t, r)
        PROVE  ControlInv'
    BY <1>7, RequestOps DEF Arrive, FirstStep, OpsAt, PoolOf
  <1>8. ASSUME NEW t \in Thread, NEW r \in Requests, Undecodable(t, r)
        PROVE  ControlInv'
    BY <1>8 DEF Undecodable
  <1>9. CASE Restart \/ Expire \/ UNCHANGED vars
    BY <1>9 DEF Restart, Expire, vars, threads
  <1> QED
    BY <1>1, <1>2, <1>3, <1>4, <1>5, <1>6, <1>7, <1>8, <1>9, StepCases
       DEF Next, Crash, ThreadStep

-----------------------------------------------------------------------------
(***************************************************************************)
(* The limits: of the pools, and the bounds of the model.                  *)
(***************************************************************************)
Holders(p) == {t \in Thread : held[t] = p}
Doing(op)  == {t \in Busy : job[t].op = op}

ShareRows ==
  [user : {r.user : r \in Requests}, md5 : {r.item : r \in Requests}, urlmd5 : Nat]

\* Connections in use and connections that were lost fit into the pool.
PoolRoom == leaked \in [Pools -> Nat] /\ \A p \in Pools : InUse(p) <= PoolSize[p]

\* There is room for what the handlers at work may still store.
TokenRoom ==
  /\ DOMAIN tokens \subseteq 1 .. MaxToken
  /\ Cardinality(Doing("login")) + Cardinality(DOMAIN tokens) <= MaxToken

ShareRoom ==
  /\ shares \in Seq(ShareRows) /\ drawn \in Nat
  /\ Cardinality(Doing("share")) + Len(shares) <= MaxShare

RoomInv == PoolRoom /\ TokenRoom /\ ShareRoom

\* What is known of the bounds.
LEMMA Bounds ==
  /\ IsFiniteSet(Thread) /\ PoolSize \in [Pools -> Nat] /\ MaxToken \in Nat /\ MaxShare \in Nat
  BY HandlersAssumption

\* Sets of threads are finite.
LEMMA ThreadsFinite ==
  /\ \A p : IsFiniteSet(Holders(p)) /\ Cardinality(Holders(p)) \in Nat
  /\ \A op : IsFiniteSet(Doing(op)) /\ Cardinality(Doing(op)) \in Nat
  <1>1. \A T \in SUBSET Thread : IsFiniteSet(T) /\ Cardinality(T) \in Nat
    BY Bounds, FS_Subset, FS_CardinalityType
  <1> QED
    BY <1>1 DEF Holders, Doing, Busy

\* At the start, and whenever all threads are idle, none holds or does anything.
LEMMA RoomInit == Init => RoomInv
  <1> SUFFICES ASSUME Init PROVE RoomInv
    OBVIOUS
  <1>1. Cardinality({}) = 0
    BY FS_EmptySet
  <1>2. \A p \in Pools : Holders(p) = {} /\ InUse(p) = Cardinality(Holders(p)) + leaked[p]
    BY DEF Init, Holders, Pools, InUse
  <1>3. \A op : Doing(op) = {}
    BY DEF Init, Doing, Busy
  <1>4. DOMAIN tokens = {} /\ shares = <<>> /\ drawn = 0 /\ leaked = [p \in Pools |-> 0]
    BY DEF Init
  <1>5. ASSUME NEW p \in Pools
        PROVE  InUse(p) = 0
    <2>1. Cardinality(Holders(p)) = 0
      BY <1>1, <1>2
    <2>2. leaked[p] = 0
      BY <1>4
    <2> QED
      BY <1>2, <2>1, <2>2
  <1>6. PoolRoom
    BY <1>4, <1>5, Bounds DEF PoolRoom
  <1>7. Cardinality(Doing("login")) = 0 /\ Cardinality(Doing("share")) = 0
    BY <1>1, <1>3
  <1>8. TokenRoom
    BY <1>1, <1>4, <1>7, Bounds DEF TokenRoom
  <1>9. Len(shares) = 0 /\ shares \in Seq(ShareRows)
    BY <1>4
  <1>10. ShareRoom
    BY <1>4, <1>7, <1>9, Bounds DEF ShareRoom
  <1> QED
    BY <1>6, <1>8, <1>10 DEF RoomInv

\* Only Acquire gives a thread a connection.
LEMMA HeldStep ==
  ASSUME ControlInv, NEW t \in Thread, ThreadStep(t), ~Acquire(t)
  PROVE  \A x \in Thread : held'[x] \in {held[x], "none"}
  BY DEF ControlInv, ThreadStep, Answers, Answer, GoesOn, Go, GoesOnReleased, GoReleased,
         Stores, Die

\* A connection is taken when the pool has room, and getUserFileList, which loses
\* its connection, held it before.
LEMMA PoolStep ==
  ASSUME ControlInv, PoolRoom, [Next]_vars
  PROVE  PoolRoom'
  <1> DEFINE N(p) == Cardinality(Holders(p))
  <1>0. /\ PoolSize \in [Pools -> Nat]
        /\ \A p \in Pools : N(p) \in Nat /\ InUse(p) = N(p) + leaked[p] /\ InUse(p)' = N(p)' + leaked'[p]
    BY Bounds, ThreadsFinite DEF InUse, Holders
  <1>1. ASSUME leaked' \in {leaked, [p \in Pools |-> 0]},
               \A x \in Thread : held'[x] \in {held[x], "none"}
        PROVE  PoolRoom'
    <2>1. leaked' \in [Pools -> Nat] /\ \A p \in Pools : leaked'[p] <= leaked[p]
      BY <1>1 DEF PoolRoom
    <2>2. \A p \in Pools : Holders(p)' \subseteq Holders(p)
      BY <1>1 DEF Holders, Pools
    <2>3. \A p \in Pools : N(p)' <= N(p) /\ N(p)' \in Nat
      BY <2>2, ThreadsFinite, SubsetCount
    <2> HIDE DEF N
    <2> QED
      BY <1>0, <2>1, <2>3 DEF PoolRoom
  <1>2. ASSUME NEW t \in Thread, Acquire(t)
        PROVE  PoolRoom'
    <2> DEFINE q == PoolOf[pc[t]]
    <2>1. /\ held' = [held EXCEPT ![t] = q] /\ leaked' = leaked
          /\ InUse(q) < PoolSize[q]
      BY <1>2 DEF Acquire, HasRoom
    <2> HIDE DEF q
    <2>2. ASSUME NEW p \in Pools
          PROVE  InUse(p)' <= PoolSize[p]
      <3>1. Holders(p)' \subseteq IF p = q THEN Holders(p) \cup {t} ELSE Holders(p)
        BY <2>1 DEF Holders, ControlInv
      <3>2. N(p)' \in Nat /\ N(p)' <= IF p = q THEN N(p) + 1 ELSE N(p)
        BY <3>1, ThreadsFinite, OneMore, SubsetCount
      <3> HIDE DEF N
      <3> QED
        BY <1>0, <2>1, <3>2 DEF PoolRoom
    <2> QED
      BY <2>1, <2>2 DEF PoolRoom
  <1>3. ASSUME NEW t \in Thread, ListFiles(t), leaked' # leaked
        PROVE  PoolRoom'
    <2> DEFINE q == held[t]
    <2>1. /\ held' = [held EXCEPT ![t] = "none"]
          /\ leaked' = [leaked EXCEPT ![q] = @ + 1]
          /\ q \in Pools
      BY <1>3 DEF ListFiles, Answer, Ready, ControlInv
    <2> HIDE DEF q
    <2>2. leaked' \in [Pools -> Nat]
      BY <2>1 DEF PoolRoom
    <2>3. ASSUME NEW p \in Pools
          PROVE  InUse(p)' <= PoolSize[p]
      <3>1. Holders(p)' = IF p = q THEN Holders(p) \ {t} ELSE Holders(p)
        BY <2>1 DEF Holders, ControlInv, q, Pools
      <3>2. p = q => t \in Holders(p)
        BY DEF Holders, q
      <3>3. N(p)' = IF p = q THEN N(p) - 1 ELSE N(p)
        BY <3>1, <3>2, ThreadsFinite, FS_RemoveElement
      <3> HIDE DEF N
      <3> QED
        BY <1>0, <2>1, <3>3 DEF PoolRoom
    <2> QED
      BY <2>2, <2>3 DEF PoolRoom
  <1>4. ASSUME NEW t \in Thread, Step(t)
        PROVE  Acquire(t) \/ ListFiles(t) \/ leaked' = leaked
    BY <1>4 DEF Step, NoConnection, RegFind, RegInsert, Login, LoginToken, UploadStore, UploadUrl,
                UploadInfo, UploadOwner, SharePicture, BrowsePicture, CountShares, ListShares,
                Verify, CountFiles
  <1>5. ASSUME NEW t \in Thread, Step(t)
        PROVE  PoolRoom'
    BY <1>1, <1>2, <1>3, <1>4, <1>5, StepCases, HeldStep
  <1>6. CASE Crash \/ Restart \/ Expire \/ UNCHANGED vars
    BY <1>1, <1>6 DEF Crash, Die, Restart, Expire, vars, threads
  <1>7. ASSUME NEW t \in Thread, NEW r \in Requests, Arrive(t, r) \/ Undecodable(t, r)
        PROVE  PoolRoom'
    BY <1>1, <1>7 DEF Arrive, Undecodable
  <1> QED
    BY <1>5, <1>6, <1>7 DEF Next

\* A step of a handler takes on no request, and one that answers drops its own.
LEMMA DoingStep ==
  ASSUME ControlInv, NEW t \in Thread, ThreadStep(t)
  PROVE  /\ \A op : Doing(op)' \subseteq Doing(op)
         /\ Answers(t) => \A op : Doing(op)' \subseteq Doing(op) \ {t}
  BY DEF ControlInv, Doing, Busy, ThreadStep, Acquire, Answers, Answer, GoesOn, Go,
         GoesOnReleased, GoReleased, Stores, Die

\* A request that arrives is one more of its kind, and of no other.
LEMMA DoingArrive ==
  ASSUME ControlInv, NEW t \in Thread, NEW r \in Requests, Arrive(t, r)
  PROVE  \A op : Doing(op)' \subseteq IF op = r.op THEN Doing(op) \cup {t} ELSE Doing(op)
  BY DEF ControlInv, Doing, Busy, Arrive

\* A token that is handed out is a new one: the thread had room for it.
LEMMA NewTokenIsNew ==
  ASSUME TokenRoom, NEW t \in Doing("login")
  PROVE  NewToken \in 1 .. MaxToken /\ NewToken \notin DOMAIN tokens
  <1>1. IsFiniteSet(1 .. MaxToken) /\ Cardinality(1 .. MaxToken) = MaxToken
    BY Bounds, FS_Interval
  <1>2. Cardinality(Doing("login")) # 0 /\ Cardinality(Doing("login")) \in Nat
    BY ThreadsFinite, FS_EmptySet
  <1>3. Cardinality(DOMAIN tokens) \in Nat
    BY <1>1, SubsetCount DEF TokenRoom
  <1>4. Cardinality(DOMAIN tokens) # MaxToken
    BY <1>2, <1>3, Bounds DEF TokenRoom
  <1>5. \E k \in 1 .. MaxToken : k \notin DOMAIN tokens
    BY <1>1, <1>4 DEF TokenRoom
  <1> QED
    BY <1>5 DEF NewToken

\* Each login that is answered makes one token more and one login less.
LEMMA TokenStep ==
  ASSUME ControlInv, TokenRoom, [Next]_vars
  PROVE  TokenRoom'
  <1> DEFINE n == Cardinality(Doing("login"))
             had == Cardinality(DOMAIN tokens)
  <1>0. IsFiniteSet(Doing("login")) /\ IsFiniteSet(DOMAIN tokens)
    <2>1. IsFiniteSet(1 .. MaxToken)
      BY Bounds, FS_Interval
    <2> QED
      BY <2>1, ThreadsFinite, FS_Subset DEF TokenRoom
  <1>1. n \in Nat /\ had \in Nat /\ n + had <= MaxToken /\ MaxToken \in Nat
    BY <1>0, FS_CardinalityType, Bounds DEF TokenRoom
  <1>2. ASSUME DOMAIN tokens' \subseteq DOMAIN tokens, Doing("login")' \subseteq Doing("login")
        PROVE  TokenRoom'
    <2>1. n' <= n /\ had' <= had /\ n' \in Nat /\ had' \in Nat
      BY <1>0, <1>2, SubsetCount
    <2>2. n' + had' <= MaxToken
      BY <1>1, <2>1
    <2> QED
      BY <1>2, <2>2 DEF TokenRoom, n, had
  <1>3. ASSUME NEW t \in Thread, LoginToken(t), tokens' # tokens
        PROVE  TokenRoom'
    <2>1. /\ tokens' = [x \in DOMAIN tokens \cup {NewToken} |->
                          IF x = NewToken THEN job[t].user ELSE tokens[x]]
          /\ Answers(t) /\ pc[t] = "login_token"
      BY <1>3 DEF LoginToken, Answers, Ready
    <2>2. t \in Doing("login")
      BY <2>1 DEF ControlInv, InPlace, OpsAt, Doing, Busy
    <2>3. Doing("login")' \subseteq Doing("login") \ {t}
      BY <2>1, DoingStep DEF ThreadStep
    <2>4. DOMAIN tokens' = DOMAIN tokens \cup {NewToken} /\ NewToken \in 1 .. MaxToken
      BY <2>1, <2>2, NewTokenIsNew
    <2>5. n' <= n - 1 /\ had' <= had + 1 /\ n' \in Nat /\ had' \in Nat
      BY <1>0, <2>2, <2>3, <2>4, OneLess, OneMore
    <2>6. n' + had' <= MaxToken
      BY <1>1, <2>5
    <2> QED
      BY <2>4, <2>6 DEF TokenRoom, n, had
  <1>4. ASSUME NEW t \in Thread, NEW r \in Requests, Arrive(t, r)
        PROVE  TokenRoom'
    <2>1. tokens' = tokens
      BY <1>4 DEF Arrive
    <2>2. CASE r.op = "login"
      <3>1. Doing("login")' \subseteq Doing("login") \cup {t}
        BY <1>4, <2>2, DoingArrive
      <3>2. n' <= n + 1 /\ n' \in Nat
        BY <1>0, <3>1, OneMore
      <3>3. n + had < MaxToken
        BY <1>4, <2>2 DEF Arrive, Room, Doing
      <3>4. had' = had
        BY <2>1
      <3>5. n' + had' <= MaxToken
        BY <1>1, <3>2, <3>3, <3>4
      <3> QED
        BY <2>1, <3>5 DEF TokenRoom, n, had
    <2>3. CASE r.op # "login"
      BY <1>2, <1>4, <2>1, <2>3, DoingArrive
    <2> QED
      BY <2>2, <2>3
  <1>5. ASSUME NEW t \in Thread, Step(t)
        PROVE  LoginToken(t) \/ tokens' = tokens
    BY <1>5 DEF Step, Acquire, NoConnection, RegFind, RegInsert, Login, UploadStore, UploadUrl,
                UploadInfo, UploadOwner, SharePicture, BrowsePicture, CountShares, ListShares,
                Verify, CountFiles, ListFiles
  <1>6. ASSUME NEW t \in Thread, Step(t)
        PROVE  TokenRoom'
    BY <1>2, <1>3, <1>5, <1>6, StepCases, DoingStep
  <1>7. CASE Crash \/ Restart \/ UNCHANGED vars
    BY <1>2, <1>7 DEF Crash, Die, Restart, vars, threads, Doing, Busy
  <1>8. CASE Expire
    BY <1>2, <1>8 DEF Expire, threads, Doing, Busy, Restrict
  <1>9. ASSUME NEW t \in Thread, NEW r \in Requests, Undecodable(t, r)
        PROVE  TokenRoom'
    BY <1>2, <1>9 DEF Undecodable, Doing, Busy
  <1> QED
    BY <1>4, <1>6, <1>7, <1>8, <1>9 DEF Next

\* Each share that is answered makes one row more and one share less.
LEMMA ShareStep ==
  ASSUME ControlInv, ShareRoom, [Next]_vars
  PROVE  ShareRoom'
  <1> DEFINE n == Cardinality(Doing("share"))
  <1>1. /\ IsFiniteSet(Doing("share")) /\ n \in Nat
        /\ shares \in Seq(ShareRows) /\ Len(shares) \in Nat /\ drawn \in Nat
        /\ n + Len(shares) <= MaxShare /\ MaxShare \in Nat
    BY ThreadsFinite, Bounds DEF ShareRoom
  <1>2. ASSUME shares' = shares, drawn' \in {drawn, 0, drawn + 1}, Doing("share")' \subseteq Doing("share")
        PROVE  ShareRoom'
    <2>1. n' <= n /\ n' \in Nat
      BY <1>1, <1>2, SubsetCount
    <2> HIDE DEF n
    <2>2. n' + Len(shares) <= MaxShare
      BY <1>1, <2>1
    <2> QED
      BY <1>1, <1>2, <2>2 DEF ShareRoom, n
  <1>3. ASSUME NEW t \in Thread, SharePicture(t)
        PROVE  ShareRoom'
    <2> DEFINE row == [user |-> job[t].user, md5 |-> job[t].item, urlmd5 |-> RandomString]
    <2>1. drawn' = drawn + 1 /\ shares' \in {shares, Append(shares, row)} /\ Answers(t) /\ pc[t] = "share"
      BY <1>3 DEF SharePicture, Answers, Ready
    <2>2. t \in Doing("share") /\ job[t] \in Requests
      BY <2>1 DEF ControlInv, InPlace, OpsAt, Doing, Busy
    <2>3. Doing("share")' \subseteq Doing("share") \ {t}
      BY <2>1, DoingStep DEF ThreadStep
    <2>4. n' <= n - 1 /\ n' \in Nat
      BY <1>1, <2>2, <2>3, OneLess
    <2>5. row \in ShareRows
      BY <1>1, <2>2 DEF ShareRows, RandomString
    <2> HIDE DEF row, n
    <2>6. shares' \in Seq(ShareRows) /\ Len(shares') <= Len(shares) + 1 /\ Len(shares') \in Nat
      BY <1>1, <2>1, <2>5
    <2>7. n' + Len(shares') <= MaxShare
      BY <1>1, <2>4, <2>6
    <2> QED
      BY <1>1, <2>1, <2>6, <2>7 DEF ShareRoom, n
  <1>4. ASSUME NEW t \in Thread, NEW r \in Requests, Arrive(t, r)
        PROVE  ShareRoom'
    <2>1. shares' = shares /\ drawn' = drawn
      BY <1>4 DEF Arrive, tables
    <2>2. CASE r.op = "share"
      <3>1. Doing("share")' \subseteq Doing("share") \cup {t}
        BY <1>4, <2>2, DoingArrive
      <3>2. n' <= n + 1 /\ n' \in Nat
        BY <1>1, <3>1, OneMore
      <3>3. n + Len(shares) < MaxShare
        BY <1>4, <2>2 DEF Arrive, Room, Doing
      <3> HIDE DEF n
      <3>4. n' + Len(shares) <= MaxShare
        BY <1>1, <3>2, <3>3
      <3> QED
        BY <1>1, <2>1, <3>4 DEF ShareRoom, n
    <2>3. CASE r.op # "share"
      BY <1>2, <1>4, <2>1, <2>3, DoingArrive
    <2> QED
      BY <2>2, <2>3
  <1>5. ASSUME NEW t \in Thread, Step(t)
        PROVE  SharePicture(t) \/ (shares' = shares /\ drawn' = drawn)
    BY <1>5 DEF Step, Acquire, NoConnection, RegFind, RegInsert, Login, LoginToken, UploadStore,
                UploadUrl, UploadInfo, UploadOwner, BrowsePicture, CountShares, ListShares,
                Verify, CountFiles, ListFiles, tables
  <1>6. ASSUME NEW t \in Thread, Step(t)
        PROVE  ShareRoom'
    BY <1>2, <1>3, <1>5, <1>6, StepCases, DoingStep
  <1>7. CASE Crash \/ Restart \/ Expire \/ UNCHANGED vars
    BY <1>2, <1>7 DEF Crash, Die, Restart, Expire, vars, threads, tables, Doing, Busy
  <1>8. ASSUME NEW t \in Thread, NEW r \in Requests, Undecodable(t, r)
        PROVE  ShareRoom'
    BY <1>2, <1>8 DEF Undecodable, tables, Doing, Busy
  <1> QED
    BY <1>4, <1>6, <1>7, <1>8 DEF Next

-----------------------------------------------------------------------------
\* The control invariant and the bounds hold together.
LEMMA RoomAlways == Spec => [](ControlInv /\ RoomInv)
  <1>1. ControlInv /\ RoomInv /\ [Next]_vars => (ControlInv /\ RoomInv)'
    BY ControlStep, PoolStep, TokenStep, ShareStep DEF RoomInv
  <1> QED
    BY <1>1, ControlInit, RoomInit, PTL DEF Spec

\* The handlers keep their types: whoever is where, no pool lends more than its
\* maxconncnt, with the connections that getUserFileList has lost counted in, and
\* what is stored stays within the bounds of the model.
THEOREM HandlersTypeCorrect == Spec => []TypeOK
  <1>1. ControlInv /\ RoomInv => TypeOK
    <2> SUFFICES ASSUME ControlInv, RoomInv PROVE TypeOK
      OBVIOUS
    <2>1. \A p \in Pools : InUse(p) \in Nat
      BY ThreadsFinite DEF InUse, Holders, RoomInv, PoolRoom
    <2>2. \A p \in Pools : InUse(p) \in 0 .. PoolSize[p]
      BY <2>1, Bounds DEF RoomInv, PoolRoom
    <2>3. Len(shares) <= MaxShare
      <3>1. Cardinality(Doing("share")) \in Nat
        BY ThreadsFinite
      <3>2. Len(shares) \in Nat
        BY DEF RoomInv, ShareRoom
      <3> QED
        BY <3>1, <3>2, Bounds DEF RoomInv, ShareRoom
    <2> QED
      BY <2>2, <2>3 DEF TypeOK, ControlInv, RoomInv, TokenRoom
  <1> QED
    BY <1>1, RoomAlways, PTL

-----------------------------------------------------------------------------
(***************************************************************************)
(* Connections: who has answered holds none.                               *)
(***************************************************************************)
\* Nobody lists files.
NoListing == \A t \in Thread : pc[t] # "files"

\* Where MySQL refuses the statement that counts the files (with the verb
\* "selece", as it is shipped), no handler comes to the list of files.
LEMMA NoListingStep ==
  ASSUME "count_files" \in Refused, ControlInv, NoListing, [Next]_vars
  PROVE  NoListing'
  <1> USE DEF NoListing, ControlInv
  <1>1. ASSUME NEW t \in Thread, Step(t), CountFiles(t)
        PROVE  NoListing'
    BY <1>1 DEF CountFiles, Runs, Answer
  <1>2. ASSUME NEW t \in Thread, Step(t), ~CountFiles(t)
        PROVE  pc' = [x \in Thread |-> "idle"] \/ \E l \in (DOMAIN PoolOf \cup {"idle"}) \ {"files"} :
                                                pc' = [pc EXCEPT ![t] = l]
    <2>1. CASE Die
      BY <2>1 DEF Die
    <2>2. CASE Acquire(t)
      BY <2>2 DEF Acquire
    <2>3. CASE Answers(t)
      BY <2>3 DEF Answers, Answer
    <2>4. CASE GoesOn(t)
      BY <2>4 DEF GoesOn, Go, PoolOf
    <2>5. CASE Stores(t)
      BY <2>5 DEF Stores, PoolOf
    <2>6. CASE GoesOnReleased(t) /\ ~CountFiles(t)
      <3>1. pc[t] # "count"
        BY <1>2, <2>6 DEF Step, Acquire, NoConnection, RegFind, RegInsert, Login, LoginToken,
             UploadStore, UploadUrl, UploadInfo, UploadOwner, SharePicture, BrowsePicture,
             CountShares, ListShares, Verify, ListFiles, Ready, GoesOnReleased, GoReleased,
             Answer, Die, InPlace
      <3> QED
        BY <2>6, <3>1 DEF GoesOnReleased, GoReleased, PoolOf
    <2> QED
      BY <1>2, <2>1, <2>2, <2>3, <2>4, <2>5, <2>6, StepCases DEF ThreadStep
  <1>3. ASSUME NEW t \in Thread, Step(t)
        PROVE  NoListing'
    <2>1. CASE pc' = [x \in Thread |-> "idle"]
      BY <2>1
    <2>2. ASSUME NEW l \in (DOMAIN PoolOf \cup {"idle"}) \ {"files"}, pc' = [pc EXCEPT ![t] = l]
          PROVE  NoListing'
      BY <2>2
    <2> QED
      BY <1>1, <1>2, <1>3, <2>1, <2>2
  <1>4. ASSUME NEW t \in Thread, NEW r \in Requests, Arrive(t, r) \/ Undecodable(t, r)
        PROVE  NoListing'
    BY <1>4 DEF Arrive, Undecodable, FirstStep
  <1>5. CASE Crash \/ Restart \/ Expire \/ UNCHANGED vars
    BY <1>5 DEF Crash, Die, Restart, Expire, vars, threads
  <1> QED
    BY <1>3, <1>4, <1>5 DEF Next

\* A thread that has answered holds no connection, on whatever path it left its
\* handler; and where the count of files is refused, as in the code as it is
\* shipped, none of a pool's connections is lost.
THEOREM NothingKept ==
  ASSUME "count_files" \in Refused
  PROVE  Spec => []NoConnectionLeak
  <1> DEFINE Unleaked == \A p \in Pools : leaked[p] = 0
  <1>1. Init => NoListing /\ Unleaked
    BY DEF Init, NoListing
  <1>2. ControlInv /\ NoListing /\ Unleaked /\ [Next]_vars => NoListing' /\ Unleaked'
    <2> SUFFICES ASSUME ControlInv, NoListing, Unleaked, [Next]_vars
                 PROVE  Unleaked'
      BY NoListingStep
    <2>1. leaked' = leaked \/ leaked' = [p \in Pools |-> 0]
      BY DEF Next, Crash, Restart, Expire, Arrive, Undecodable, Step, Acquire, NoConnection,
             RegFind, RegInsert, Login, LoginToken, UploadStore, UploadUrl, UploadInfo,
             UploadOwner, SharePicture, BrowsePicture, CountShares, ListShares, Verify,
             CountFiles, ListFiles, Ready, NoListing, vars
    <2> QED
      BY <2>1
  <1>3. ControlInv /\ Unleaked => NoConnectionLeak
    BY DEF ControlInv, InPlace, NoConnectionLeak
  <1> QED
    BY <1>1, <1>2, <1>3, RoomAlways, PTL DEF Spec

-----------------------------------------------------------------------------
(***************************************************************************)
(* Files: the row of file_info comes first.                                *)
(***************************************************************************)
\* A thread between the two statements of storeFileInfo has made its row of
\* file_info, or found none in its way.
BetweenStatements ==
  \A t \in Thread : pc[t] = "upload_owner" => stored[t].md5 \in DOMAIN files

FileInv == OwnedFileHasInfo /\ BetweenStatements

\* What threads do elsewhere leaves the two statements alone.
LEMMA FilesElsewhere ==
  ASSUME ControlInv, FileInv, files' = files, owned' = owned,
         \A t \in Thread : pc'[t] = "upload_owner" => pc[t] = "upload_owner" /\ stored'[t] = stored[t]
  PROVE  FileInv'
  BY DEF FileInv, OwnedFileHasInfo, BetweenStatements

\* The first statement makes the row of a file, the second one an owner of a file
\* that has its row.
LEMMA FileStep ==
  ASSUME ControlInv, FileInv, [Next]_vars
  PROVE  FileInv'
  <1> DEFINE Elsewhere ==
        /\ files' = files /\ owned' = owned
        /\ \A t \in Thread : pc'[t] = "upload_owner" => pc[t] = "upload_owner" /\ stored'[t] = stored[t]
  <1>1. ASSUME NEW t \in Thread, UploadInfo(t), Go(t, "upload_owner")
        PROVE  FileInv'
    <2> DEFINE md5 == stored[t].md5
    <2>1. /\ DOMAIN files' = DOMAIN files \cup {md5}
          /\ owned' = owned /\ stored' = stored /\ pc' = [pc EXCEPT ![t] = "upload_owner"]
      BY <1>1 DEF UploadInfo, Go, Answer, ControlInv
    <2> HIDE DEF md5
    <2>2. OwnedFileHasInfo'
      BY <2>1 DEF FileInv, OwnedFileHasInfo
    <2>3. BetweenStatements'
      BY <2>1 DEF FileInv, BetweenStatements, ControlInv, md5
    <2> QED
      BY <2>2, <2>3 DEF FileInv
  <1>2. ASSUME NEW t \in Thread, UploadOwner(t)
        PROVE  FileInv'
    <2>1. /\ files' = files /\ pc' = [pc EXCEPT ![t] = "idle"] /\ pc[t] = "upload_owner"
          /\ \A u \in Thread \ {t} : stored'[u] = stored[u]
          /\ owned' \in {owned, owned \cup {<<stored[t].user, stored[t].md5, stored[t].name>>}}
      BY <1>2 DEF UploadOwner, Answer, Ready, ControlInv
    <2>2. OwnedFileHasInfo'
      BY <2>1 DEF FileInv, OwnedFileHasInfo, BetweenStatements
    <2>3. BetweenStatements'
      BY <2>1 DEF FileInv, BetweenStatements, ControlInv
    <2> QED
      BY <2>2, <2>3 DEF FileInv
  <1>3. ASSUME NEW t \in Thread, Step(t), ~UploadOwner(t)
        PROVE  Elsewhere \/ (UploadInfo(t) /\ Go(t, "upload_owner"))
    <2>1. ASSUME ~(UploadInfo(t) /\ Go(t, "upload_owner"))
          PROVE  files' = files /\ owned' = owned
      BY <1>3, <2>1 DEF Step, Acquire, NoConnection, RegFind, RegInsert, Login, LoginToken,
           UploadStore, UploadUrl, UploadInfo, SharePicture, BrowsePicture, CountShares,
           ListShares, Verify, CountFiles, ListFiles, tables
    <2>2. ASSUME ~(UploadInfo(t) /\ Go(t, "upload_owner"))
          PROVE  ~(pc[t] = "upload_info" /\ Go(t, "upload_owner"))
      BY <1>3, <2>2 DEF Step, Acquire, NoConnection, RegFind, RegInsert, Login, LoginToken,
           UploadStore, UploadUrl, UploadInfo, SharePicture, BrowsePicture, CountShares,
           ListShares, Verify, CountFiles, ListFiles, Ready, Answer, Die, Go, ControlInv
    <2> QED
      BY <1>3, <2>1, <2>2, StepCases DEF ThreadStep, Acquire, Answers, Answer, GoesOn, Go,
           GoesOnReleased, GoReleased, Stores, Die, ControlInv
  <1>4. ASSUME NEW t \in Thread, NEW r \in Requests, Arrive(t, r) \/ Undecodable(t, r)
        PROVE  Elsewhere
    BY <1>4, RequestOps DEF Arrive, Undecodable, FirstStep, tables, ControlInv
  <1>5. CASE Crash \/ Restart \/ Expire \/ UNCHANGED vars
    <2>1. Elsewhere
      BY <1>5 DEF Crash, Die, Restart, Expire, vars, threads, tables
    <2> QED
      BY <2>1, FilesElsewhere
  <1>6. Elsewhere => FileInv'
    BY FilesElsewhere
  <1> QED
    BY <1>1, <1>2, <1>3, <1>4, <1>5, <1>6 DEF Next

\* Both hold at the start, when there is no file.
LEMMA FileInit == Init => FileInv
  BY DEF Init, FileInv, OwnedFileHasInfo, BetweenStatements

\* The rows of file_info and user_file_list fit together at all times.
LEMMA FilesAlways == Spec => []FileInv
  BY FileInit, FileStep, RoomAlways, PTL DEF Spec

\* A row of user_file_list has its row in file_info, wherever storeFileInfo stops
\* between its two statements and whatever junk the stack adds to what it stores.
THEOREM OwnedFilesHaveInfo == Spec => []OwnedFileHasInfo
  <1>1. FileInv => OwnedFileHasInfo
    BY DEF FileInv
  <1> QED
    BY <1>1, FilesAlways, PTL

-----------------------------------------------------------------------------
(***************************************************************************)
(* Forms: which part each field of an upload is taken from.                *)
(***************************************************************************)
\* The least of a set of numbers is one of them.
LEMMA MinFacts ==
  ASSUME NEW S \in SUBSET Nat, S # {}
  PROVE  Min(S) \in S
  BY LeastElement DEF Min

\* A field is 0, or found: in a part with its name behind those of the fields
\* before it, each of which was found (the first one is taken to be part 1).
LEMMA PartOfFacts ==
  ASSUME NEW form, form \in Seq(Range(form)), NEW k \in 1 .. 6, NEW before \in Seq(Nat)
  PROVE  /\ PartOf(form, k, before) \in Nat
         /\ PartOf(form, k, before) # 0 =>
              /\ 0 \notin Range(before)
              /\ k = 1 => PartOf(form, k, before) = 1
              /\ k # 1 => LET i == PartOf(form, k, before)
                          IN  /\ i \in DOMAIN form /\ form[i].name = UploadForm[k]
                              /\ \A j \in DOMAIN before : before[j] < i
  <1> DEFINE found == {i \in DOMAIN form : form[i].name = UploadForm[k] /\ \A j \in DOMAIN before : before[j] < i}
  <1>1. found \in SUBSET Nat
    OBVIOUS
  <1>2. PartOf(form, k, before) =
          IF found = {} \/ 0 \in Range(before) THEN 0 ELSE IF k = 1 THEN 1 ELSE Min(found)
    BY DEF PartOf
  <1>3. found # {} => Min(found) \in found
    <2> HIDE DEF found
    <2> QED
      BY <1>1, MinFacts
  <1>4. CASE found = {} \/ 0 \in Range(before)
    BY <1>2, <1>4
  <1>5. CASE ~(found = {} \/ 0 \in Range(before)) /\ k = 1
    BY <1>2, <1>5
  <1>6. CASE ~(found = {} \/ 0 \in Range(before)) /\ k # 1
    <2>1. PartOf(form, k, before) = Min(found) /\ Min(found) \in found
      <3> HIDE DEF found
      <3> QED
        BY <1>2, <1>3, <1>6
    <2> QED
      BY <1>6, <2>1
  <1> QED
    BY <1>4, <1>5, <1>6

\* A sequence of numbers and the same with one more.
LEMMA AppendFacts ==
  ASSUME NEW s \in Seq(Nat), NEW e \in Nat
  PROVE  LET l == Append(s, e)
         IN  /\ l \in Seq(Nat) /\ Len(l) = Len(s) + 1 /\ l[Len(s) + 1] = e
             /\ \A j \in 1 .. Len(s) : l[j] = s[j]
  OBVIOUS

\* The parts of a form whose last field was found: the content is described by
\* part 1, and md5, size and user were found one behind the other.
LEMMA PartsFacts ==
  ASSUME NEW form, form \in Seq(Range(form)), Parts(form)[6] # 0
  PROVE  LET p == Parts(form)
         IN  /\ p[1] = 1
             /\ \A k \in {4, 5, 6} : p[k] \in DOMAIN form /\ form[p[k]].name = UploadForm[k]
             /\ p[5] < p[6]
  <1> DEFINE G == [k \in 1 .. 6 |-> [b \in Seq(Nat) |-> Append(b, PartOf(form, k, b))]]
             upto == CHOOSE f : f = [k \in 0 .. Len(UploadForm) |->
                       IF k = 0 THEN <<>> ELSE Append(f[k - 1], PartOf(form, k, f[k - 1]))]
  <1>1. Parts(form) = upto[6]
    BY DEF Parts, UploadForm
  <1>2. G \in [1 .. 6 -> [Seq(Nat) -> Seq(Nat)]]
    BY PartOfFacts
  <1>3. PICK f \in [0 .. 6 -> Seq(Nat)] : f[0] = <<>> /\ \A k \in 1 .. 6 : f[k] = G[k][f[k - 1]]
    <2> HIDE DEF G
    <2> DEFINE S == Seq(Nat)
               b == <<>>
               n == 6
    <2>1. b \in S /\ n \in Nat /\ G \in [1 .. n -> [S -> S]]
      BY <1>2
    <2>2. \E f \in [0 .. n -> S] : Unfolds(f, n, b, G)
      <3> HIDE DEF S, b, n, upto
      <3> QED
        BY <2>1, RecursiveFunction
    <2> QED
      BY <2>2 DEF Unfolds
  <1>4. f = [k \in 0 .. Len(UploadForm) |->
               IF k = 0 THEN <<>> ELSE Append(f[k - 1], PartOf(form, k, f[k - 1]))]
    <2>1. Len(UploadForm) = 6
      BY DEF UploadForm
    <2>2. ASSUME NEW k \in 0 .. 6, k # 0
          PROVE  f[k] = Append(f[k - 1], PartOf(form, k, f[k - 1]))
      <3>1. k \in 1 .. 6 /\ k - 1 \in 0 .. 6
        BY <2>2
      <3>2. f[k] = G[k][f[k - 1]] /\ f[k - 1] \in Seq(Nat)
        BY <1>3, <3>1
      <3> QED
        BY <3>1, <3>2
    <2> HIDE DEF G
    <2>3. f = [k \in 0 .. 6 |-> f[k]]
      OBVIOUS
    <2> QED
      BY <1>3, <2>1, <2>2, <2>3
  <1>5. upto = [k \in 0 .. Len(UploadForm) |->
                  IF k = 0 THEN <<>> ELSE Append(upto[k - 1], PartOf(form, k, upto[k - 1]))]
    BY <1>4
  <1> HIDE DEF G, upto
  <1>6. /\ upto[0] = <<>>
        /\ \A k \in 1 .. 6 : \A i \in 0 .. 5 : k = i + 1 => upto[k] = Append(upto[i], PartOf(form, k, upto[i]))
    <2>1. Len(UploadForm) = 6
      BY DEF UploadForm
    <2>2. \A k \in 1 .. 6 : k \in 0 .. 6 /\ k # 0
      OBVIOUS
    <2>3. \A k \in 1 .. 6 : \A i \in 0 .. 5 : k = i + 1 => k - 1 = i
      OBVIOUS
    <2>4. upto = [k \in 0 .. 6 |->
                    IF k = 0 THEN <<>> ELSE Append(upto[k - 1], PartOf(form, k, upto[k - 1]))]
      BY <1>5, <2>1
    <2>5. \A k \in 0 .. 6 :
            upto[k] = IF k = 0 THEN <<>> ELSE Append(upto[k - 1], PartOf(form, k, upto[k - 1]))
      BY <2>4
    <2>6. upto[0] = <<>>
      BY <2>5
    <2>7. ASSUME NEW k \in 1 .. 6, NEW i \in 0 .. 5, k = i + 1
          PROVE  upto[k] = Append(upto[i], PartOf(form, k, upto[i]))
      <3>1. k - 1 = i /\ k \in 0 .. 6 /\ k # 0
        BY <2>7
      <3> QED
        BY <2>5, <3>1
    <2> QED
      BY <2>6, <2>7
  <1>7. ASSUME NEW k \in 1 .. 6, NEW i \in 0 .. 5, k = i + 1, upto[i] \in Seq(Nat), Len(upto[i]) = i
        PROVE  /\ upto[k] \in Seq(Nat) /\ Len(upto[k]) = k
               /\ upto[k][k] = PartOf(form, k, upto[i])
               /\ \A j \in 1 .. i : upto[k][j] = upto[i][j]
    <2> DEFINE at == PartOf(form, k, upto[i])
    <2>1. upto[k] = Append(upto[i], at)
      BY <1>6, <1>7
    <2>2. at \in Nat
      BY <1>7, PartOfFacts
    <2> HIDE DEF at
    <2>3. /\ upto[k] \in Seq(Nat) /\ Len(upto[k]) = k /\ upto[k][k] = at
          /\ \A j \in 1 .. i : upto[k][j] = upto[i][j]
      <3> DEFINE s == upto[i]
      <3>1. s \in Seq(Nat) /\ Len(s) = i /\ k = Len(s) + 1 /\ upto[k] = Append(s, at)
        BY <1>7, <2>1
      <3> HIDE DEF s
      <3>2. upto[k] \in Seq(Nat) /\ Len(upto[k]) = k /\ upto[k][k] = at /\ \A j \in 1 .. i : upto[k][j] = s[j]
        BY <2>2, <3>1, AppendFacts
      <3> QED
        BY <3>2 DEF s
    <2> QED
      BY <2>3 DEF at
  <1> DEFINE a1 == PartOf(form, 1, upto[0])
             a4 == PartOf(form, 4, upto[3])
             a5 == PartOf(form, 5, upto[4])
             a6 == PartOf(form, 6, upto[5])
  <1>a. \A k \in 1 .. 6, b \in Seq(Nat) :
          PartOf(form, k, b) # 0 =>
            /\ 0 \notin Range(b)
            /\ k = 1 => PartOf(form, k, b) = 1
            /\ k # 1 => /\ PartOf(form, k, b) \in DOMAIN form
                        /\ form[PartOf(form, k, b)].name = UploadForm[k]
                        /\ \A j \in DOMAIN b : b[j] < PartOf(form, k, b)
    BY PartOfFacts
  <1>8. /\ upto[0] \in Seq(Nat) /\ Len(upto[0]) = 0
    BY <1>6
  <1>9. upto[1] \in Seq(Nat) /\ Len(upto[1]) = 1 /\ upto[1][1] = a1
    BY <1>7, <1>8
  <1>10. upto[2] \in Seq(Nat) /\ Len(upto[2]) = 2 /\ upto[2][1] = upto[1][1]
    BY <1>7, <1>9
  <1>11. upto[3] \in Seq(Nat) /\ Len(upto[3]) = 3 /\ upto[3][1] = upto[2][1]
    BY <1>7, <1>10
  <1>12. upto[4] \in Seq(Nat) /\ Len(upto[4]) = 4 /\ upto[4][1] = upto[3][1] /\ upto[4][4] = a4
    BY <1>7, <1>11
  <1>13. /\ upto[5] \in Seq(Nat) /\ Len(upto[5]) = 5 /\ upto[5][1] = upto[4][1]
         /\ upto[5][4] = upto[4][4] /\ upto[5][5] = a5
    BY <1>7, <1>12
  <1>14. /\ upto[6][1] = upto[5][1] /\ upto[6][4] = upto[5][4] /\ upto[6][5] = upto[5][5]
         /\ upto[6][6] = a6
    BY <1>7, <1>13
  <1>15. a6 # 0
    BY <1>1, <1>14
  <1>16. /\ 0 \notin Range(upto[5]) /\ a6 \in DOMAIN form /\ form[a6].name = UploadForm[6]
         /\ \A j \in DOMAIN upto[5] : upto[5][j] < a6
    BY <1>13, <1>15, <1>a
  <1>17. /\ {1, 4, 5} \subseteq DOMAIN upto[5]
         /\ \A j \in DOMAIN upto[5] : upto[5][j] \in Range(upto[5])
    BY <1>13 DEF Range
  <1>18. a1 # 0 /\ a4 # 0 /\ a5 # 0 /\ a5 < a6
    <2>1. 1 \in DOMAIN upto[5] /\ 4 \in DOMAIN upto[5] /\ 5 \in DOMAIN upto[5]
      BY <1>17
    <2>2. upto[5][1] # 0 /\ upto[5][4] # 0 /\ upto[5][5] # 0 /\ upto[5][5] < a6
      <3> HIDE DEF a6
      <3> QED
        BY <1>16, <1>17, <2>1
    <2> HIDE DEF a1, a4, a5, a6
    <2> QED
      BY <1>9, <1>10, <1>11, <1>12, <1>13, <2>2
  <1>19. a1 = 1
    BY <1>8, <1>18, <1>a
  <1>20. a4 \in DOMAIN form /\ form[a4].name = UploadForm[4]
    BY <1>11, <1>18, <1>a
  <1>21. a5 \in DOMAIN form /\ form[a5].name = UploadForm[5]
    BY <1>12, <1>18, <1>a
  <1> HIDE DEF a1, a4, a5, a6
  <1>22. /\ upto[6][1] = 1 /\ upto[6][4] = a4 /\ upto[6][5] = a5 /\ upto[6][6] = a6
    BY <1>9, <1>10, <1>11, <1>12, <1>13, <1>14, <1>19
  <1> QED
    BY <1>1, <1>16, <1>18, <1>20, <1>21, <1>22

\* What apiUpload takes for the user, the md5 and the name of the file: those of
\* the request, the name when the form starts with it.
LEMMA FieldFacts ==
  ASSUME NEW r \in Requests, r.op = "upload", Decodes(r)
  PROVE  /\ Field(r.form, "user") = r.user
         /\ Field(r.form, "file_md5") = r.item
         /\ Field(r.form, "file_name") = r.form[1].value
  <1> DEFINE p == Parts(r.form)
             at(name) == CHOOSE k \in DOMAIN UploadForm : UploadForm[k] = name
  <1>1. r.form \in Seq(Range(r.form)) /\ Describes(r)
    BY HandlersAssumption DEF Required
  <1>2. PartsOf[r.form] = p
    BY DEF PartsOf
  <1>3. p[6] # 0
    BY <1>2, HandlersAssumption DEF Decodes, UploadForm, Required
  <1>4. /\ p[1] = 1
        /\ \A k \in {4, 5, 6} : p[k] \in DOMAIN r.form /\ r.form[p[k]].name = UploadForm[k]
        /\ p[5] < p[6]
    BY <1>1, <1>3, PartsFacts
  <1>5. at("user") = 6 /\ at("file_md5") = 4 /\ at("file_name") = 1
    BY DEF UploadForm
  <1>6. UploadForm[4] = "file_md5" /\ UploadForm[5] = "file_size" /\ UploadForm[6] = "user"
    BY DEF UploadForm
  <1>7. \A name : Field(r.form, name) = r.form[p[at(name)]].value
    BY <1>2 DEF Field
  <1> HIDE DEF p, at
  <1>8. r.form[p[4]].value = r.item
    BY <1>1, <1>4, <1>6 DEF Describes
  <1>9. r.form[p[6]].value = r.user
    BY <1>1, <1>4, <1>6 DEF Describes
  <1> QED
    BY <1>4, <1>5, <1>7, <1>8, <1>9

-----------------------------------------------------------------------------
(***************************************************************************)
(* Uploads: what is answered 0 is in the tables.                           *)
(***************************************************************************)
\* What a thread will store for a form that fits begins with what the form says;
\* the stack may have added something.
StoredAsAsked ==
  \A t \in Thread : pc[t] \in {"upload_url", "upload_info", "upload_owner"} /\ job[t].fits =>
    /\ stored[t].user[1] = job[t].user /\ stored[t].md5[1] = job[t].item
    /\ stored[t].name[1] = job[t].form[1].value

\* apiUpload stores what it has copied from the form; later steps change neither
\* the request nor what is stored.
LEMMA StoredStep ==
  ASSUME ControlInv, StoredAsAsked, [Next]_vars
  PROVE  StoredAsAsked'
  <1> DEFINE L == {"upload_url", "upload_info", "upload_owner"}
             Kept == \A t \in Thread : pc'[t] \in L =>
                       pc[t] \in L /\ job'[t] = job[t] /\ stored'[t] = stored[t]
  <1>1. Kept => StoredAsAsked'
    BY DEF StoredAsAsked
  <1>2. ASSUME NEW t \in Thread, UploadStore(t), Stores(t)
        PROVE  StoredAsAsked'
    <2> DEFINE r == job[t]
    <2>1. /\ pc[t] = "upload" /\ pc' = [pc EXCEPT ![t] = "upload_url"] /\ job' = job
          /\ r \in Requests /\ r.op = "upload"
      BY <1>2 DEF Stores, ControlInv, InPlace, OpsAt
    <2>2. /\ Decodes(r)
          /\ \E u \in Copied(r, "user"), m \in Copied(r, "file_md5"), n \in Copied(r, "file_name") :
               stored' = [stored EXCEPT ![t] = [user |-> u, md5 |-> m, name |-> n]]
      BY <1>2, <2>1 DEF UploadStore, Answer, Die, ControlInv
    <2> HIDE DEF r
    <2>3. PICK u \in Copied(r, "user"), m \in Copied(r, "file_md5"), n \in Copied(r, "file_name") :
               stored' = [stored EXCEPT ![t] = [user |-> u, md5 |-> m, name |-> n]]
      BY <2>2
    <2>4. r.fits => u[1] = r.user /\ m[1] = r.item /\ n[1] = r.form[1].value
      <3>1. /\ Field(r.form, "user") = r.user /\ Field(r.form, "file_md5") = r.item
            /\ Field(r.form, "file_name") = r.form[1].value
        BY <2>1, <2>2, FieldFacts
      <3>2. ASSUME r.fits, NEW name, NEW f \in Copied(r, name)
            PROVE  f[1] = Field(r.form, name)
        BY <3>2 DEF Copied
      <3> QED
        BY <2>3, <3>1, <3>2
    <2>5. stored'[t].user = u /\ stored'[t].md5 = m /\ stored'[t].name = n
      BY <2>3 DEF ControlInv
    <2>6. \A x \in Thread \ {t} : stored'[x] = stored[x] /\ pc'[x] = pc[x]
      BY <2>1, <2>3 DEF ControlInv
    <2> QED
      BY <2>1, <2>4, <2>5, <2>6 DEF StoredAsAsked, r
  <1>3. ASSUME NEW t \in Thread, Step(t)
        PROVE  Kept \/ (UploadStore(t) /\ Stores(t))
    <2>1. Stores(t) => UploadStore(t)
      BY <1>3 DEF Step, Acquire, NoConnection, RegFind, RegInsert, Login, LoginToken,
           UploadUrl, UploadInfo, UploadOwner, SharePicture, BrowsePicture, CountShares,
           ListShares, Verify, CountFiles, ListFiles, Ready, Stores, Answer, Die, Go, ControlInv
    <2> QED
      BY <1>3, <2>1, StepCases DEF ThreadStep, Acquire, Answers, Answer, GoesOn, Go,
           GoesOnReleased, GoReleased, Stores, Die, ControlInv
  <1>4. ASSUME NEW t \in Thread, NEW r \in Requests, Arrive(t, r) \/ Undecodable(t, r)
        PROVE  Kept
    BY <1>4, RequestOps DEF Arrive, Undecodable, FirstStep, ControlInv
  <1>5. ASSUME Crash \/ Restart \/ Expire \/ UNCHANGED vars
        PROVE  Kept
    BY <1>5 DEF Crash, Die, Restart, Expire, vars, threads
  <1> QED
    BY <1>1, <1>2, <1>3, <1>4, <1>5 DEF Next

\* Rows of file_info and user_file_list are made, and never go away.
LEMMA FilesStay ==
  ASSUME ControlInv, [Next]_vars
  PROVE  DOMAIN files \subseteq DOMAIN files' /\ owned \subseteq owned'
  BY DEF Next, Crash, Restart, Expire, Arrive, Undecodable, Step, Acquire, NoConnection,
     RegFind, RegInsert, Login, LoginToken, UploadStore, UploadUrl, UploadInfo,
     UploadOwner, SharePicture, BrowsePicture, CountShares, ListShares, Verify,
     CountFiles, ListFiles, tables, vars

\* The last answer to an upload is 0 when it comes from the second statement of
\* storeFileInfo, and only then.
LEMMA UploadAnswers ==
  ASSUME ControlInv, [Next]_vars, reply' # reply, Accepted("upload")'
  PROVE  \E t \in Thread : UploadOwner(t) /\ Answer(t, 0, -1)
  <1>1. ASSUME NEW t \in Thread, NEW r \in Requests
        PROVE  ~Arrive(t, r) /\ ~Undecodable(t, r)
    BY <1>1 DEF Arrive, Undecodable, Accepted
  <1>2. ~Crash /\ ~Restart /\ ~Expire /\ ~Die
    BY DEF Crash, Die, Restart, Expire, threads
  <1>3. PICK t \in Thread : Step(t)
    BY <1>1, <1>2 DEF Next, vars, threads
  <1>4. pc[t] # "idle" /\ reply'.req = job[t] /\ reply'.code = 0
    BY <1>2, <1>3, StepCases DEF ThreadStep, Acquire, Answers, Answer, GoesOn, Go,
         GoesOnReleased, GoReleased, Stores, Accepted
  <1>5. pc[t] \in {"upload", "upload_url", "upload_info", "upload_owner"}
    BY <1>4 DEF Accepted, ControlInv, InPlace, OpsAt, PoolOf
  <1>6. \A data : ~Answer(t, 1, data)
    BY <1>4 DEF Answer
  <1>7. ~Acquire(t) /\ \A l : ~Go(t, l) /\ ~GoReleased(t, l)
    BY DEF Acquire, Go, GoReleased
  <1>8. ~UploadStore(t) /\ ~UploadUrl(t) /\ ~UploadInfo(t)
    BY <1>2, <1>6, <1>7 DEF UploadStore, UploadUrl, UploadInfo
  <1>9. ~NoConnection(t)
    BY <1>2, <1>5, <1>6 DEF NoConnection
  <1>10. UploadOwner(t)
    BY <1>3, <1>5, <1>7, <1>8, <1>9 DEF Step, RegFind, RegInsert, Login, LoginToken,
         SharePicture, BrowsePicture, CountShares, ListShares, Verify, CountFiles, ListFiles, Ready
  <1> QED
    BY <1>6, <1>10 DEF UploadOwner

\* An upload that is answered 0 has its row in user_file_list and in file_info,
\* and they begin with what the form said, as long as its fields fit their arrays:
\* the client whose form has the parts in another order or more of them, whose file
\* somebody uploads at the same time, whose body is cut off, or whose upload stops
\* half way, is not told 0 for something else.
THEOREM AcceptedUploadsAreStored == Spec => []AcceptedUploadIsStored
  <1>1. Init => StoredAsAsked /\ AcceptedUploadIsStored
    BY DEF Init, StoredAsAsked, AcceptedUploadIsStored, Accepted, NoReply, NoRequest
  <1>2. ControlInv /\ FileInv /\ StoredAsAsked /\ AcceptedUploadIsStored /\ [Next]_vars
          => AcceptedUploadIsStored'
    <2> SUFFICES ASSUME ControlInv, FileInv, StoredAsAsked, AcceptedUploadIsStored,
                        [Next]_vars, Accepted("upload")', reply'.req.fits
                 PROVE  AcceptedUploadIsStored'
      BY DEF AcceptedUploadIsStored
    <2>1. CASE reply' = reply
      BY <2>1, FilesStay DEF AcceptedUploadIsStored, Accepted
    <2>2. CASE reply' # reply
      <3>1. PICK t \in Thread : UploadOwner(t) /\ Answer(t, 0, -1)
        BY <2>2, UploadAnswers
      <3> DEFINE row == <<stored[t].user, stored[t].md5, stored[t].name>>
      <3>2. row \in owned' /\ files' = files /\ pc[t] = "upload_owner" /\ reply'.req = job[t]
        BY <3>1 DEF UploadOwner, Answer, Ready
      <3>3. row[1][1] = job[t].user /\ row[2][1] = job[t].item /\ row[3][1] = job[t].form[1].value
        BY <3>2 DEF StoredAsAsked
      <3>4. row[2] \in DOMAIN files
        BY <3>2 DEF FileInv, BetweenStatements
      <3> HIDE DEF row
      <3> QED
        BY <3>2, <3>3, <3>4 DEF AcceptedUploadIsStored
    <2> QED
      BY <2>1, <2>2
  <1>3. ControlInv /\ StoredAsAsked /\ [Next]_vars => StoredAsAsked'
    BY StoredStep
  <1> QED
    BY <1>1, <1>2, <1>3, RoomAlways, FilesAlways, PTL DEF Spec
=============================================================================
