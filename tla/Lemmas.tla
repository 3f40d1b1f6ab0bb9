------------------------------- MODULE Lemmas -------------------------------
(***************************************************************************)
(* What the proofs about several components need: induction over the       *)
(* natural numbers without an operator as a parameter, what it says of the *)
(* recursive functions the models are built from, how large a finite set   *)
(* is that gained or lost an element, and what push_back and pop_front do  *)
(* to a free list.                                                         *)
(***************************************************************************)
EXTENDS Integers, Sequences, Functions, SequenceTheorems, FiniteSetTheorems, WellFoundedInduction,
        TLAPS

\* A set of numbers that is not empty has a least one: among the intervals
\* 0 .. x there is one that contains no other.
LEMMA LeastElement ==
  ASSUME NEW S \in SUBSET Nat, S # {}
  PROVE  \E x \in S : \A y \in S : x <= y
  <1> DEFINE F == {0 .. x : x \in S}
  <1>1. F \subseteq FiniteSubsetsOf(Nat)
    <2> SUFFICES ASSUME NEW x \in S PROVE 0 .. x \in FiniteSubsetsOf(Nat)
      OBVIOUS
    <2>1. IsFiniteSet(0 .. x)
      BY FS_Interval
    <2> QED
      BY <2>1 DEF FiniteSubsetsOf
  <1>2. F # {}
    OBVIOUS
  <1>3. IsWellFoundedOn(StrictSubsetOrdering(Nat), FiniteSubsetsOf(Nat))
    BY FS_StrictSubsetOrderingWellFounded
  <1>4. PICK I \in F : \A J \in F : ~ (<<J, I>> \in StrictSubsetOrdering(Nat))
    <2> HIDE DEF F
    <2> QED
      BY <1>1, <1>2, <1>3, WFMin
  <1>5. PICK x \in S : I = 0 .. x
    BY <1>4
  <1>6. ASSUME NEW y \in S, y < x
        PROVE  FALSE
    <2>1. 0 .. y \in F /\ 0 .. y \subseteq 0 .. x /\ 0 .. x \subseteq Nat
      BY <1>6
    <2>2. x \in 0 .. x /\ x \notin 0 .. y
      BY <1>6
    <2>3. <<0 .. y, 0 .. x>> \in StrictSubsetOrdering(Nat)
      BY <2>1, <2>2 DEF StrictSubsetOrdering
    <2> QED
      BY <1>4, <1>5, <2>1, <2>3
  <1> QED
    BY <1>6

\* What 0 has, and k + 1 has when k does, every number has.
LEMMA Induction ==
  ASSUME NEW T \in SUBSET Nat, 0 \in T, \A k \in T : k + 1 \in T
  PROVE  T = Nat
  <1> SUFFICES ASSUME Nat \ T # {} PROVE FALSE
    OBVIOUS
  <1>1. PICK x \in Nat \ T : \A y \in Nat \ T : x <= y
    BY LeastElement
  <1>2. x - 1 \in Nat /\ x - 1 \in T
    BY <1>1
  <1> QED
    BY <1>1, <1>2

\* The same up to a bound.
LEMMA BoundedInduction ==
  ASSUME NEW n \in Nat, NEW T \in SUBSET (0 .. n), 0 \in T, \A k \in T : k < n => k + 1 \in T
  PROVE  T = 0 .. n
  <1> DEFINE U == T \cup {k \in Nat : k > n}
  <1>1. \A k \in T : k \in Nat /\ k <= n
    OBVIOUS
  <1>2. 0 \in U /\ U \in SUBSET Nat
    BY <1>1
  <1>3. \A k \in U : k + 1 \in U
    <2> SUFFICES ASSUME NEW k \in U PROVE k + 1 \in U
      OBVIOUS
    <2>1. CASE k \in T
      BY <1>1, <2>1
    <2>2. CASE k > n
      BY <1>1, <2>2
    <2> QED
      BY <2>1, <2>2
  <1>4. U = Nat
    <2> HIDE DEF U
    <2> QED
      BY <1>2, <1>3, Induction
  <1>5. \A k \in 0 .. n : k \in U /\ ~ (k > n)
    BY <1>4
  <1> QED
    BY <1>5

\* f starts with b, and each value up to n is made of the one before.
Unfolds(f, n, b, G) == f[0] = b /\ \A k \in 1 .. n : f[k] = G[k][f[k - 1]]

\* A function that is defined by recursion over 0 .. n is there.
LEMMA RecursiveFunction ==
  ASSUME NEW n \in Nat, NEW S, NEW b \in S, NEW G \in [1 .. n -> [S -> S]]
  PROVE  \E f \in [0 .. n -> S] : Unfolds(f, n, b, G)
  <1> DEFINE Good(k, f) == f = [j \in 0 .. k |-> IF j = 0 THEN b ELSE G[j][f[j - 1]]]
             T == {k \in 0 .. n : \E f \in [0 .. k -> S] : Good(k, f)}
  <1>1. 0 \in T
    <2>1. Good(0, [j \in 0 .. 0 |-> b]) /\ [j \in 0 .. 0 |-> b] \in [0 .. 0 -> S]
      OBVIOUS
    <2>2. 0 \in 0 .. n
      OBVIOUS
    <2> HIDE DEF Good
    <2> QED
      BY <2>1, <2>2
  <1>2. ASSUME NEW k \in T, k < n
        PROVE  k + 1 \in T
    <2>1. PICK f \in [0 .. k -> S] : Good(k, f)
      OBVIOUS
    <2>2. k + 1 \in 1 .. n /\ k \in 0 .. k /\ k \in Nat
      BY <1>2
    <2> DEFINE g == [j \in 0 .. k + 1 |-> IF j = k + 1 THEN G[k + 1][f[k]] ELSE f[j]]
    <2>3. g \in [0 .. k + 1 -> S]
      BY <2>1, <2>2
    <2>4. \A j \in 0 .. k + 1 : g[j] = IF j = 0 THEN b ELSE G[j][g[j - 1]]
      <3> SUFFICES ASSUME NEW j \in 0 .. k + 1
                   PROVE  g[j] = IF j = 0 THEN b ELSE G[j][g[j - 1]]
        OBVIOUS
      <3>1. CASE j = k + 1
        BY <2>2, <3>1
      <3>2. CASE j # k + 1
        <4>1. j \in 0 .. k
          BY <2>2, <3>2
        <4>2. f[j] = IF j = 0 THEN b ELSE G[j][f[j - 1]]
          BY <2>1, <4>1
        <4>3. j # 0 => j - 1 \in 0 .. k + 1 /\ j - 1 # k + 1
          BY <2>2, <4>1
        <4> QED
          BY <3>2, <4>2, <4>3
      <3> QED
        BY <3>1, <3>2
    <2>5. Good(k + 1, g)
      <3> HIDE DEF g
      <3> QED
        BY <2>3, <2>4
    <2>6. k + 1 \in 0 .. n
      BY <2>2
    <2> HIDE DEF Good, g
    <2> QED
      BY <2>3, <2>5, <2>6
  <1>3. T = 0 .. n
    <2>1. T \in SUBSET (0 .. n)
      OBVIOUS
    <2> HIDE DEF T
    <2> QED
      BY <1>1, <1>2, <2>1, BoundedInduction
  <1>4. n \in T
    BY <1>3
  <1> QED
    BY <1>4 DEF Unfolds

-----------------------------------------------------------------------------
\* A set that lost some elements has no more than it had.
LEMMA SubsetCount ==
  ASSUME NEW S, IsFiniteSet(S), NEW T \in SUBSET S
  PROVE  /\ IsFiniteSet(T) /\ Cardinality(T) \in Nat /\ Cardinality(S) \in Nat
         /\ Cardinality(T) <= Cardinality(S)
  BY FS_Subset, FS_CardinalityType

\* One that gained one element at most has one more at most.
LEMMA OneMore ==
  ASSUME NEW S, IsFiniteSet(S), NEW x, NEW T \in SUBSET (S \cup {x})
  PROVE  /\ IsFiniteSet(T) /\ Cardinality(T) \in Nat /\ Cardinality(S) \in Nat
         /\ Cardinality(T) <= Cardinality(S) + 1
  <1>1. IsFiniteSet(S \cup {x}) /\ Cardinality(S) \in Nat
    BY FS_AddElement, FS_CardinalityType
  <1>2. Cardinality(S \cup {x}) <= Cardinality(S) + 1
    BY <1>1, FS_AddElement
  <1> QED
    BY <1>1, <1>2, SubsetCount

\* One that lost an element has one less, or fewer.
LEMMA OneLess ==
  ASSUME NEW S, IsFiniteSet(S), NEW x \in S, NEW T \in SUBSET (S \ {x})
  PROVE  /\ IsFiniteSet(T) /\ Cardinality(T) \in Nat /\ Cardinality(S) \in Nat
         /\ Cardinality(T) <= Cardinality(S) - 1
  <1>1. IsFiniteSet(S \ {x}) /\ Cardinality(S) \in Nat
    BY FS_RemoveElement, FS_CardinalityType
  <1>2. Cardinality(S \ {x}) = Cardinality(S) - 1
    BY FS_RemoveElement
  <1> QED
    BY <1>1, <1>2, SubsetCount

\* One thread more or less in a finite set.
LEMMA OneMoreOneLess ==
  ASSUME NEW S, IsFiniteSet(S), NEW x
  PROVE  /\ Cardinality(S \cup {x}) >= Cardinality(S)
         /\ Cardinality(S \ {x}) >= Cardinality(S) - 1
  BY FS_AddElement, FS_RemoveElement, FS_CardinalityType

-----------------------------------------------------------------------------
\* A list without repetitions.
Distinct(s) == \A i, j \in DOMAIN s : s[i] = s[j] => i = j

\* push_back adds the new element to the range, and keeps a list without
\* repetitions so when the element is new.
LEMMA PushBackFacts ==
  ASSUME NEW S, NEW s \in Seq(S), NEW c \in S
  PROVE  /\ Append(s, c) \in Seq(S)
         /\ Append(s, c) # <<>>
         /\ Range(Append(s, c)) = Range(s) \cup {c}
         /\ Len(Append(s, c)) = Len(s) + 1
         /\ Distinct(s) /\ c \notin Range(s) => Distinct(Append(s, c))
  <1> DEFINE a == Append(s, c)
  <1>1. Len(s) \in Nat /\ DOMAIN s = 1 .. Len(s)
    OBVIOUS
  <1>2. /\ a \in Seq(S)
        /\ Len(a) = Len(s) + 1
        /\ \A i \in 1 .. Len(s) : a[i] = s[i]
        /\ a[Len(s) + 1] = c
        /\ a # <<>>
    BY AppendProperties
  <1>3. DOMAIN a = 1 .. Len(s) + 1
    BY <1>2
  <1> HIDE DEF a
  <1>4. Range(a) \subseteq Range(s) \cup {c}
    <2> SUFFICES ASSUME NEW i \in 1 .. Len(s) + 1
                 PROVE  a[i] \in Range(s) \cup {c}
      BY <1>3 DEF Range
    <2>1. i \in 1 .. Len(s) \/ i = Len(s) + 1
      BY <1>1
    <2> QED
      BY <2>1, <1>1, <1>2 DEF Range
  <1>5. Range(s) \cup {c} \subseteq Range(a)
    <2>1. c \in Range(a)
      BY <1>1, <1>2, <1>3 DEF Range
    <2>2. Range(s) \subseteq Range(a)
      <3> SUFFICES ASSUME NEW i \in 1 .. Len(s)
                   PROVE  s[i] \in Range(a)
        BY <1>1 DEF Range
      <3>1. i \in DOMAIN a /\ a[i] = s[i]
        BY <1>1, <1>2, <1>3
      <3> QED
        BY <3>1 DEF Range
    <2> QED
      BY <2>1, <2>2
  <1>6. ASSUME Distinct(s), c \notin Range(s)
        PROVE  Distinct(a)
    <2> SUFFICES ASSUME NEW i \in 1 .. Len(s) + 1, NEW j \in 1 .. Len(s) + 1,
                        a[i] = a[j]
                 PROVE  i = j
      BY <1>3 DEF Distinct
    <2>1. \A k \in 1 .. Len(s) : a[k] # c
      BY <1>6, <1>1, <1>2 DEF Range
    <2>2. /\ i \in 1 .. Len(s) \/ i = Len(s) + 1
          /\ j \in 1 .. Len(s) \/ j = Len(s) + 1
      BY <1>1
    <2> QED
      BY <2>1, <2>2, <1>1, <1>2, <1>6 DEF Distinct
  <1> QED
    BY <1>2, <1>4, <1>5, <1>6 DEF a

\* pop_front of a list without repetitions removes just that element.
LEMMA PopFrontFacts ==
  ASSUME NEW S, NEW s \in Seq(S), s # <<>>, Distinct(s)
  PROVE  /\ Tail(s) \in Seq(S)
         /\ Head(s) \in Range(s) /\ Head(s) \in S
         /\ Range(Tail(s)) = Range(s) \ {Head(s)}
         /\ Len(Tail(s)) = Len(s) - 1
         /\ Distinct(Tail(s))
  <1>1. Len(s) \in Nat \ {0} /\ DOMAIN s = 1 .. Len(s)
    OBVIOUS
  <1>2. /\ Tail(s) \in Seq(S)
        /\ Len(Tail(s)) = Len(s) - 1
        /\ \A i \in 1 .. Len(s) - 1 : Tail(s)[i] = s[i + 1]
        /\ Head(s) = s[1]
    BY <1>1
  <1>3. DOMAIN Tail(s) = 1 .. Len(s) - 1
    BY <1>2
  <1>4. Range(s) \ {Head(s)} \subseteq Range(Tail(s))
    <2> SUFFICES ASSUME NEW i \in 1 .. Len(s), s[i] # s[1]
                 PROVE  s[i] \in Range(Tail(s))
      BY <1>1, <1>2 DEF Range
    <2>1. i - 1 \in 1 .. Len(s) - 1 /\ Tail(s)[i - 1] = s[i]
      BY <1>1, <1>2
    <2> QED
      BY <2>1, <1>3 DEF Range
  <1>5. Range(Tail(s)) \subseteq Range(s) \ {Head(s)}
    <2> SUFFICES ASSUME NEW i \in 1 .. Len(s) - 1
                 PROVE  Tail(s)[i] \in Range(s) \ {Head(s)}
      BY <1>3 DEF Range
    <2>1. i + 1 \in 1 .. Len(s) /\ i + 1 # 1 /\ Tail(s)[i] = s[i + 1]
      BY <1>1, <1>2
    <2> QED
      BY <2>1, <1>1, <1>2 DEF Range, Distinct
  <1>6. Distinct(Tail(s))
    BY <1>1, <1>2, <1>3 DEF Distinct
  <1>7. Head(s) \in Range(s) /\ Head(s) \in S
    BY <1>1, <1>2 DEF Range
  <1> QED
    BY <1>2, <1>4, <1>5, <1>6, <1>7

\* The list that init() builds holds each of the first n connections once.
LEMMA InitialListFacts ==
  ASSUME NEW n \in Nat
  PROVE  LET s == [i \in 1 .. n |-> i]
         IN  s \in Seq(Nat \ {0}) /\ Range(s) = 1 .. n /\ Distinct(s) /\ Len(s) = n
  <1> DEFINE s == [i \in 1 .. n |-> i]
  <1>1. s \in Seq(Nat \ {0})
    BY IsASeq
  <1>2. Range(s) = 1 .. n
    BY DEF Range
  <1>3. Distinct(s)
    BY DEF Distinct
  <1> QED
    BY <1>1, <1>2, <1>3
=============================================================================
