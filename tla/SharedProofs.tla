---------------------------- MODULE SharedProofs ----------------------------
(***************************************************************************)
(* Theorems about the two structures the threads of one process share: the *)
(* replay cache (ReplayCache), for any threads, KELs, estimates, caches    *)
(* and limits, and the request clock (MonoClock), for any hubs and         *)
(* threads, any skew window and any largest timestamp.                     *)
(*                                                                         *)
(* Inv says of every cache that Sound relates its map, its list and its    *)
(* byte count, and of every call that its answer is the replay of the KEL  *)
(* it was given.                                                           *)
(*                                                                         *)
(* ClockInv ties the counter of a target to its history: CounterOK, it is  *)
(* at or above every timestamp handed out and every floor adopted for it.  *)
(***************************************************************************)
EXTENDS MCShared, FiniteSetTheorems, SequenceTheorems, WellFoundedInduction, TLAPS

\* The bytes of the entries of keys, by the estimate of each KEL.
Held(keys) == UNION {{k} \X (1..Cost[k]) : k \in keys}

\* C has the fields of a ReplayCache.
Fields(C) ==
  C = [byKEL |-> C.byKEL, lru |-> C.lru, bytes |-> C.bytes, hits |-> C.hits, misses |-> C.misses]

\* A cache made with max, last used in the order u: the map and the list hold the same KELs, each
\* with its own replay, they cost what the cache counts, and they are what was used last.
Sound(C, u, max) ==
  /\ Fields(C) /\ C.hits \in Nat /\ C.misses \in Nat
  /\ C.lru \in Seq(KELs) /\ IsInjective(C.lru)
  /\ u \in Seq(KELs) /\ IsInjective(u)
  /\ IsPrefix(C.lru, u)
  /\ C.byKEL = [k \in ToSet(C.lru) |-> [states |-> replay(k), cost |-> Cost[k]]]
  /\ C.bytes = Cardinality(Held(ToSet(C.lru)))
  /\ C.bytes <= max

-----------------------------------------------------------------------------
(* The recency list. *)

\* IsPrefix, element by element.
LEMMA PrefixFacts ==
  ASSUME NEW s \in Seq(KELs), NEW u \in Seq(KELs)
  PROVE  IsPrefix(s, u) <=> Len(s) <= Len(u) /\ \A i \in 1..Len(s) : s[i] = u[i]
<1>1. SubSeq(s, 1, Len(s)) = s
  OBVIOUS
<1>2. ASSUME Len(s) <= Len(u)
      PROVE  SubSeq(u, 1, Len(s)) = s <=> \A i \in 1..Len(s) : s[i] = u[i]
  <2> DEFINE v == SubSeq(u, 1, Len(s))
  <2>1. v \in Seq(KELs) /\ Len(v) = Len(s) /\ \A i \in 1..Len(s) : v[i] = u[i]
    BY <1>2
  <2> HIDE DEF v
  <2>2. v = s <=> \A i \in 1..Len(s) : v[i] = s[i]
    BY <2>1, SeqEqual
  <2> QED
    BY <2>1, <2>2 DEF v
<1> QED
  BY <1>1, <1>2 DEF IsPrefix

\* A KEL that is not in the list is put before it.
LEMMA PushFacts ==
  ASSUME NEW s \in Seq(KELs), IsInjective(s), NEW k \in KELs, k \notin ToSet(s)
  PROVE  LET t == <<k>> \o s
         IN  /\ t \in Seq(KELs) /\ IsInjective(t) /\ ToSet(t) = ToSet(s) \cup {k}
             /\ Len(t) = Len(s) + 1 /\ t[1] = k
             /\ \A i \in 2..Len(t) : t[i] = s[i - 1]
<1> DEFINE t == <<k>> \o s
<1>1. /\ t \in Seq(KELs) /\ Len(t) = Len(s) + 1 /\ t[1] = k
      /\ \A i \in 2..Len(t) : t[i] = s[i - 1]
  OBVIOUS
<1> HIDE DEF t
<1>2. \A i \in 1..Len(s) : s[i] # k /\ t[i + 1] = s[i]
  BY <1>1 DEF ToSet
<1>3. IsInjective(t)
  <2> SUFFICES ASSUME NEW i \in 1..Len(t), NEW j \in 1..Len(t), t[i] = t[j] PROVE i = j
    BY <1>1 DEF IsInjective
  <2>1. CASE i = 1 \/ j = 1
    BY <1>1, <1>2, <2>1
  <2>2. CASE i # 1 /\ j # 1
    <3>1. i - 1 \in 1..Len(s) /\ j - 1 \in 1..Len(s) /\ s[i - 1] = s[j - 1]
      BY <1>1, <2>2
    <3>2. i - 1 = j - 1
      BY <3>1 DEF IsInjective
    <3> QED
      BY <3>2
  <2> QED
    BY <2>1, <2>2
<1>4. ToSet(t) = ToSet(s) \cup {k}
  <2>1. ASSUME NEW i \in 1..Len(t) PROVE t[i] = k \/ \E j \in 1..Len(s) : s[j] = t[i]
    <3>1. CASE i = 1
      BY <1>1, <3>1
    <3>2. CASE i # 1
      BY <1>1, <3>2
    <3> QED
      BY <3>1, <3>2
  <2>2. 1 \in 1..Len(t) /\ \A j \in 1..Len(s) : j + 1 \in 1..Len(t)
    BY <1>1
  <2>3. DOMAIN t = 1..Len(t) /\ DOMAIN s = 1..Len(s)
    BY <1>1
  <2>4. ToSet(t) \subseteq ToSet(s) \cup {k}
    BY <2>1, <2>3 DEF ToSet
  <2>5. ToSet(s) \cup {k} \subseteq ToSet(t)
    BY <1>1, <1>2, <2>2, <2>3 DEF ToSet
  <2> QED
    BY <2>4, <2>5
<1> QED
  BY <1>1, <1>3, <1>4 DEF t

\* A member is moved to the front, and those that were before it move back by one.
LEMMA MoveFacts ==
  ASSUME NEW s \in Seq(KELs), IsInjective(s), NEW j \in 1..Len(s)
  PROVE  LET t == ToFront(s, s[j])
         IN  /\ t \in Seq(KELs) /\ IsInjective(t) /\ ToSet(t) = ToSet(s)
             /\ Len(t) = Len(s) /\ t[1] = s[j]
             /\ \A i \in 2..Len(s) : t[i] = IF i <= j THEN s[i - 1] ELSE s[i]
<1> DEFINE k == s[j]
           t == ToFront(s, k)
           a == SubSeq(s, 1, j - 1)
           b == SubSeq(s, j + 1, Len(s))
           I == {i \in 1..Len(s) : s[i] = k}
<1>1. I = {j}
  BY DEF IsInjective
<1>2. SelectInSeq(s, LAMBDA v : v = k) = j
  <2>1. Min(I) = j
    BY <1>1 DEF Min
  <2>2. SelectInSeq(s, LAMBDA v : v = k) = IF I # {} THEN Min(I) ELSE 0
    BY DEF SelectInSeq
  <2> QED
    BY <1>1, <2>1, <2>2
<1>3. t = <<k>> \o (a \o b)
  BY <1>2 DEF ToFront, RemoveFirst, RemoveAt
<1>4. /\ a \in Seq(KELs) /\ Len(a) = j - 1 /\ \A i \in 1..Len(a) : a[i] = s[i]
      /\ b \in Seq(KELs) /\ Len(b) = Len(s) - j /\ \A i \in 1..Len(b) : b[i] = s[j + i]
      /\ k \in KELs
  OBVIOUS
<1> HIDE DEF a, b, k
<1>5. /\ t \in Seq(KELs) /\ Len(t) = Len(s) /\ t[1] = k
      /\ \A i \in 2..Len(s) : t[i] = IF i <= j THEN s[i - 1] ELSE s[i]
  <2> DEFINE c == a \o b
  <2>1. /\ c \in Seq(KELs) /\ Len(c) = Len(s) - 1
        /\ \A i \in 1..Len(c) : c[i] = IF i <= j - 1 THEN s[i] ELSE s[i + 1]
    <3>1. /\ c \in Seq(KELs) /\ Len(c) = Len(a) + Len(b)
          /\ \A i \in 1..Len(a) + Len(b) : c[i] = IF i <= Len(a) THEN a[i] ELSE b[i - Len(a)]
      BY <1>4, ConcatProperties
    <3> HIDE DEF c
    <3>2. Len(c) = Len(s) - 1
      BY <1>4, <3>1
    <3>3. ASSUME NEW i \in 1..Len(c) PROVE c[i] = IF i <= j - 1 THEN s[i] ELSE s[i + 1]
      <4>1. CASE i <= j - 1
        BY <1>4, <3>1, <3>2, <4>1
      <4>2. CASE ~(i <= j - 1)
        <5>1. c[i] = b[i - (j - 1)] /\ i - (j - 1) \in 1..Len(b)
          BY <1>4, <3>1, <3>2, <4>2
        <5>2. b[i - (j - 1)] = s[j + (i - (j - 1))] /\ j + (i - (j - 1)) = i + 1
          BY <1>4, <5>1
        <5> QED
          BY <4>2, <5>1, <5>2
      <4> QED
        BY <4>1, <4>2
    <3> QED
      BY <3>1, <3>2, <3>3
  <2> HIDE DEF c
  <2>2. t = <<k>> \o c
    BY <1>3 DEF c
  <2>3. t \in Seq(KELs) /\ Len(t) = Len(c) + 1 /\ t[1] = k /\ \A i \in 2..Len(t) : t[i] = c[i - 1]
    BY <1>4, <2>1, <2>2
  <2> HIDE DEF t
  <2>4. Len(c) + 1 = Len(s)
    <3> HIDE DEF k, a, b
    <3> QED
      BY <2>1
  <2>5. ASSUME NEW i \in 2..Len(s) PROVE t[i] = IF i <= j THEN s[i - 1] ELSE s[i]
    <3>1. i - 1 \in 1..Len(c) /\ i \in 2..Len(t) /\ (i - 1) + 1 = i
      BY <2>1, <2>3
    <3>2. t[i] = c[i - 1]
      BY <2>3, <3>1
    <3>3. c[i - 1] = IF i - 1 <= j - 1 THEN s[i - 1] ELSE s[(i - 1) + 1]
      BY <2>1, <3>1
    <3>4. i - 1 <= j - 1 <=> i <= j
      OBVIOUS
    <3> QED
      BY <3>1, <3>2, <3>3, <3>4
  <2> QED
    BY <2>3, <2>4, <2>5
<1> HIDE DEF t
<1>6. k = s[j]
  BY DEF k
<1> DEFINE from(i) == IF i = 1 THEN j ELSE IF i <= j THEN i - 1 ELSE i
<1>7. ASSUME NEW i \in 1..Len(s) PROVE from(i) \in 1..Len(s) /\ t[i] = s[from(i)]
  <2>1. CASE i = 1
    BY <1>5, <1>6, <2>1
  <2>2. CASE i # 1 /\ i <= j
    BY <1>5, <2>2
  <2>3. CASE i # 1 /\ i > j
    BY <1>5, <2>3
  <2> QED
    BY <2>1, <2>2, <2>3
<1>8. IsInjective(t)
  <2> SUFFICES ASSUME NEW x \in 1..Len(s), NEW y \in 1..Len(s), t[x] = t[y] PROVE x = y
    BY <1>5 DEF IsInjective
  <2>1. from(x) \in 1..Len(s) /\ from(y) \in 1..Len(s) /\ s[from(x)] = s[from(y)]
    BY <1>7
  <2>2. from(x) = from(y)
    <3> HIDE DEF from
    <3> QED
      BY <2>1 DEF IsInjective
  <2> QED
    BY <2>2
<1>9. ToSet(t) = ToSet(s)
  <2>1. \A m \in 1..Len(s) : \E i \in 1..Len(t) : t[i] = s[m]
    <3> TAKE m \in 1..Len(s)
    <3>1. CASE m = j
      BY <1>5, <1>6, <3>1
    <3>2. CASE m < j
      <4>1. m + 1 \in 2..Len(s) /\ m + 1 <= j /\ (m + 1) - 1 = m
        BY <3>2
      <4> QED
        BY <1>5, <4>1
    <3>3. CASE m > j
      BY <1>5, <3>3
    <3> QED
      BY <3>1, <3>2, <3>3
  <2>2. \A i \in 1..Len(t) : \E m \in 1..Len(s) : t[i] = s[m]
    <3> HIDE DEF from
    <3> QED
      BY <1>5, <1>7
  <2>3. DOMAIN t = 1..Len(t) /\ DOMAIN s = 1..Len(s)
    BY <1>5
  <2> QED
    BY <2>1, <2>2, <2>3 DEF ToSet
<1> QED
  BY <1>5, <1>8, <1>9 DEF t, k

\* A KEL that is not there is only put first.
LEMMA NewFirst ==
  ASSUME NEW u \in Seq(KELs), NEW k \in KELs, k \notin ToSet(u)
  PROVE  ToFront(u, k) = <<k>> \o u
<1>1. ~\E i \in 1..Len(u) : u[i] = k
  BY DEF ToSet
<1>2. RemoveFirst(u, k) = u
  BY <1>1 DEF RemoveFirst
<1> QED
  BY <1>2 DEF ToFront

\* Using a KEL puts it first among those used, once.
LEMMA UsedFacts ==
  ASSUME NEW u \in Seq(KELs), IsInjective(u), NEW k \in KELs
  PROVE  ToFront(u, k) \in Seq(KELs) /\ IsInjective(ToFront(u, k))
<1>1. CASE k \in ToSet(u)
  <2>1. PICK j \in 1..Len(u) : u[j] = k
    BY <1>1 DEF ToSet
  <2> QED
    BY <2>1, MoveFacts
<1>2. CASE k \notin ToSet(u)
  <2>1. ToFront(u, k) = <<k>> \o u
    BY <1>2, NewFirst
  <2> QED
    BY <1>2, <2>1, PushFacts
<1> QED
  BY <1>1, <1>2

\* A hit moves one KEL to the front of both.
LEMMA HitFirst ==
  ASSUME NEW s \in Seq(KELs), IsInjective(s), NEW u \in Seq(KELs), IsInjective(u),
         IsPrefix(s, u), NEW k \in ToSet(s)
  PROVE  IsPrefix(ToFront(s, k), ToFront(u, k))
<1>1. PICK j \in 1..Len(s) : s[j] = k
  BY DEF ToSet
<1>2. Len(s) <= Len(u) /\ \A i \in 1..Len(s) : s[i] = u[i]
  BY PrefixFacts
<1>3. j \in 1..Len(u) /\ u[j] = k
  BY <1>1, <1>2
<1> DEFINE t == ToFront(s, k)
           v == ToFront(u, k)
<1>4. /\ t \in Seq(KELs) /\ Len(t) = Len(s) /\ t[1] = k
      /\ \A i \in 2..Len(s) : t[i] = IF i <= j THEN s[i - 1] ELSE s[i]
  BY <1>1, MoveFacts
<1>5. /\ v \in Seq(KELs) /\ Len(v) = Len(u) /\ v[1] = k
      /\ \A i \in 2..Len(u) : v[i] = IF i <= j THEN u[i - 1] ELSE u[i]
  BY <1>3, MoveFacts
<1> HIDE DEF t, v
<1>6. \A i \in 1..Len(t) : t[i] = v[i]
  <2> TAKE i \in 1..Len(t)
  <2>1. CASE i = 1
    BY <1>4, <1>5, <2>1
  <2>2. CASE i # 1
    <3>1. i \in 2..Len(s) /\ i \in 2..Len(u) /\ s[i] = u[i] /\ s[i - 1] = u[i - 1]
      BY <1>2, <1>4, <2>2
    <3> QED
      BY <1>4, <1>5, <3>1
  <2> QED
    BY <2>1, <2>2
<1> QED
  BY <1>2, <1>4, <1>5, <1>6, PrefixFacts DEF t, v

\* A new entry goes before the n that stay.
LEMMA StoreFirst ==
  ASSUME NEW s \in Seq(KELs), IsInjective(s), NEW u \in Seq(KELs), IsInjective(u),
         IsPrefix(s, u), NEW k \in KELs, k \notin ToSet(s), NEW n \in 0..Len(s)
  PROVE  IsPrefix(<<k>> \o SubSeq(s, 1, n), ToFront(u, k))
<1> DEFINE a == SubSeq(s, 1, n)
           t == <<k>> \o a
           v == ToFront(u, k)
<1>1. a \in Seq(KELs) /\ Len(a) = n /\ \A i \in 1..n : a[i] = s[i]
  OBVIOUS
<1> HIDE DEF a
<1>2. t \in Seq(KELs) /\ Len(t) = n + 1 /\ t[1] = k /\ \A i \in 2..Len(t) : t[i] = s[i - 1]
  BY <1>1
<1>3. Len(s) <= Len(u) /\ \A i \in 1..Len(s) : s[i] = u[i]
  BY PrefixFacts
<1> HIDE DEF t
<1>4. v \in Seq(KELs) /\ n + 1 <= Len(v) /\ v[1] = k /\ \A i \in 2..n + 1 : v[i] = u[i - 1]
  <2>1. CASE k \notin ToSet(u)
    <3>1. v = <<k>> \o u
      BY <2>1, NewFirst
    <3>2. /\ v \in Seq(KELs) /\ Len(v) = Len(u) + 1 /\ v[1] = k
          /\ \A i \in 2..Len(v) : v[i] = u[i - 1]
      BY <2>1, <3>1, PushFacts
    <3> HIDE DEF v
    <3> QED
      BY <1>3, <3>2
  <2>2. CASE k \in ToSet(u)
    <3>1. PICK j \in 1..Len(u) : u[j] = k
      BY <2>2 DEF ToSet
    <3>2. j > Len(s)
      BY <1>3, <3>1 DEF ToSet
    <3>3. /\ v \in Seq(KELs) /\ Len(v) = Len(u) /\ v[1] = k
          /\ \A i \in 2..Len(u) : v[i] = IF i <= j THEN u[i - 1] ELSE u[i]
      BY <3>1, MoveFacts
    <3> HIDE DEF v
    <3> QED
      BY <1>3, <3>1, <3>2, <3>3
  <2> QED
    BY <2>1, <2>2
<1> HIDE DEF v
<1>5. \A i \in 1..Len(t) : t[i] = v[i]
  <2> TAKE i \in 1..Len(t)
  <2>1. CASE i = 1
    BY <1>2, <1>4, <2>1
  <2>2. CASE i # 1
    <3>1. i \in 2..Len(t) /\ i \in 2..n + 1 /\ i - 1 \in 1..Len(s)
      BY <1>2, <2>2
    <3> QED
      BY <1>2, <1>3, <1>4, <3>1
  <2> QED
    BY <2>1, <2>2
<1> QED
  BY <1>2, <1>4, <1>5, PrefixFacts DEF t, a, v

-----------------------------------------------------------------------------
(* What entries cost. *)

\* The KELs of a list are finitely many.
LEMMA FiniteList ==
  ASSUME NEW s \in Seq(KELs)
  PROVE  IsFiniteSet(ToSet(s))
<1> DEFINE f == [i \in 1..Len(s) |-> s[i]]
<1>1. f \in Surjection(1..Len(s), ToSet(s))
  BY DEF Surjection, ToSet, Range
<1>2. IsFiniteSet(1..Len(s))
  BY FS_Interval
<1> QED
  BY <1>1, <1>2, FS_Surjection

\* A cache's Size is the estimates of its KELs, added: it is finite, one KEL's is its cost, and
\* what is taken out is subtracted.
LEMMA HeldFacts ==
  ASSUME NEW S \in SUBSET KELs, IsFiniteSet(S)
  PROVE  /\ IsFiniteSet(Held(S)) /\ Cardinality(Held(S)) \in Nat
         /\ \A R \in SUBSET S : Cardinality(Held(S \ R)) = Cardinality(Held(S)) - Cardinality(Held(R))
         /\ \A k \in KELs \ S : Cardinality(Held(S \cup {k})) = Cardinality(Held(S)) + Cost[k]
<1>1. ASSUME NEW k \in KELs
      PROVE  IsFiniteSet({k} \X (1..Cost[k])) /\ Cardinality({k} \X (1..Cost[k])) = Cost[k]
  <2>1. Cost[k] \in Nat \ {0}
    BY CacheAssumption
  <2>2. IsFiniteSet(1..Cost[k]) /\ Cardinality(1..Cost[k]) = Cost[k]
    BY <2>1, FS_Interval
  <2>3. IsFiniteSet({k}) /\ Cardinality({k}) = 1
    BY FS_Singleton
  <2>4. /\ IsFiniteSet({k} \X (1..Cost[k]))
        /\ Cardinality({k} \X (1..Cost[k])) = Cardinality({k}) * Cardinality(1..Cost[k])
    BY <2>2, <2>3, FS_Product
  <2>5. 1 * Cost[k] = Cost[k]
    BY <2>1
  <2> QED
    BY <2>2, <2>3, <2>4, <2>5
<1>2. ASSUME NEW T \in SUBSET S PROVE IsFiniteSet(Held(T))
  <2> DEFINE f == [k \in T |-> {k} \X (1..Cost[k])]
             U == {{k} \X (1..Cost[k]) : k \in T}
  <2>1. f \in Surjection(T, U)
    BY DEF Surjection
  <2>2. IsFiniteSet(T)
    BY FS_Subset
  <2>3. IsFiniteSet(U)
    BY <2>1, <2>2, FS_Surjection
  <2>4. \A V \in U : IsFiniteSet(V)
    BY <1>1
  <2> HIDE DEF U
  <2>5. IsFiniteSet(UNION U)
    BY <2>3, <2>4, FS_UNION
  <2> QED
    BY <2>5 DEF U, Held
<1>3. Cardinality(Held(S)) \in Nat
  BY <1>2, FS_CardinalityType
<1>4. ASSUME NEW R \in SUBSET S
      PROVE  Cardinality(Held(S \ R)) = Cardinality(Held(S)) - Cardinality(Held(R))
  <2>1. Held(S \ R) = Held(S) \ Held(R)
    BY DEF Held
  <2>2. Held(S) \cap Held(R) = Held(R)
    BY DEF Held
  <2>3. IsFiniteSet(Held(S))
    BY <1>2
  <2> QED
    BY <2>1, <2>2, <2>3, FS_Difference
<1>5. ASSUME NEW k \in KELs \ S
      PROVE  Cardinality(Held(S \cup {k})) = Cardinality(Held(S)) + Cost[k]
  <2>1. Held(S \cup {k}) = Held(S) \cup ({k} \X (1..Cost[k]))
    BY DEF Held
  <2>2. Held(S) \cap ({k} \X (1..Cost[k])) = {}
    BY DEF Held
  <2>3. Cardinality(Held(S) \cap ({k} \X (1..Cost[k]))) = 0
    BY <2>2, FS_EmptySet
  <2>4. IsFiniteSet(Held(S))
    BY <1>2
  <2>5. Cost[k] \in Nat
    BY CacheAssumption
  <2> DEFINE A == Held(S)
             B == {k} \X (1..Cost[k])
  <2>6. IsFiniteSet(A) /\ IsFiniteSet(B) /\ Cardinality(B) = Cost[k] /\ Cardinality(A \cap B) = 0
    BY <1>1, <2>3, <2>4
  <2>7. Cardinality(A) \in Nat
    BY <1>3
  <2> HIDE DEF A, B
  <2>8. Cardinality(A \cup B) = Cardinality(A) + Cardinality(B) - Cardinality(A \cap B)
    BY <2>6, FS_Union
  <2>9. Cardinality(A \cup B) = Cardinality(A) + Cost[k]
    BY <2>5, <2>6, <2>7, <2>8
  <2> QED
    BY <2>1, <2>9 DEF A, B
<1> QED
  BY <1>2, <1>3, <1>4, <1>5

\* The longest front that leaves room is one of those that do.
LEMMA LongestFacts ==
  ASSUME NEW n \in Nat, NEW S \in SUBSET (0..n), S # {}
  PROVE  Longest(S) \in S
<1> DEFINE T == {n - m : m \in S}
<1>1. T \in SUBSET Nat /\ T # {}
  <2>1. \A m \in S : n - m \in Nat
    OBVIOUS
  <2>2. T \subseteq Nat
    BY <2>1
  <2> QED
    BY <2>2
<1>2. PICK x \in T : \A y \in T : ~(<<y, x>> \in OpToRel(<, Nat))
  BY <1>1, NatLessThanWellFounded, WFMin
<1>3. \A y \in T : ~(y < x)
  BY <1>1, <1>2 DEF OpToRel
<1>4. PICK m \in S : x = n - m
  BY <1>2
<1>5. \A l \in S : l <= m
  <2> TAKE l \in S
  <2>1. n - l \in T /\ ~(n - l < x)
    BY <1>3
  <2> QED
    BY <1>4, <2>1
<1> QED
  BY <1>5 DEF Longest

-----------------------------------------------------------------------------
(* Under the lock. *)

\* What a sound cache holds, and what Size is of part of it.
LEMMA SoundFacts ==
  ASSUME NEW C, NEW u, NEW max, Sound(C, u, max)
  PROVE  /\ DOMAIN C.byKEL = ToSet(C.lru) /\ ToSet(C.lru) \in SUBSET KELs
         /\ \A k \in DOMAIN C.byKEL :
              /\ C.byKEL[k] = [states |-> replay(k), cost |-> Cost[k]]
              /\ C.byKEL[k].states = replay(k)
         /\ IsFiniteSet(ToSet(C.lru))
         /\ \A keys \in SUBSET ToSet(C.lru) : Size(C, keys) = Cardinality(Held(keys))
<1>1. DOMAIN C.byKEL = ToSet(C.lru) /\ ToSet(C.lru) \in SUBSET KELs
  BY DEF Sound, ToSet
<1>2. \A k \in DOMAIN C.byKEL :
        /\ C.byKEL[k] = [states |-> replay(k), cost |-> Cost[k]]
        /\ C.byKEL[k].states = replay(k) /\ C.byKEL[k].cost = Cost[k]
  BY <1>1 DEF Sound
<1>3. IsFiniteSet(ToSet(C.lru))
  BY FiniteList DEF Sound
<1>4. ASSUME NEW keys \in SUBSET ToSet(C.lru) PROVE Size(C, keys) = Cardinality(Held(keys))
  <2>1. {{k} \X (1..C.byKEL[k].cost) : k \in keys} = {{k} \X (1..Cost[k]) : k \in keys}
    BY <1>1, <1>2
  <2> QED
    BY <2>1 DEF Size, Held
<1> QED
  BY <1>1, <1>2, <1>3, <1>4

\* A hit leaves a sound cache.
LEMMA HitOK ==
  ASSUME NEW C, NEW u, NEW max, Sound(C, u, max), NEW k \in DOMAIN C.byKEL
  PROVE  Sound(hit(C, k), ToFront(u, k), max)
<1> DEFINE D == hit(C, k)
           v == ToFront(u, k)
           lru == ToFront(C.lru, k)
<1>1. k \in ToSet(C.lru) /\ k \in KELs
  BY SoundFacts
<1>2. PICK j \in 1..Len(C.lru) : C.lru[j] = k
  BY <1>1 DEF ToSet, Sound
<1>3. lru \in Seq(KELs) /\ IsInjective(lru) /\ ToSet(lru) = ToSet(C.lru)
  BY <1>2, MoveFacts DEF Sound
<1>4. v \in Seq(KELs) /\ IsInjective(v)
  BY <1>1, UsedFacts DEF Sound
<1>5. IsPrefix(lru, v)
  BY <1>1, HitFirst DEF Sound
<1>6. D = [byKEL |-> C.byKEL, lru |-> lru, bytes |-> C.bytes, hits |-> C.hits + 1, misses |-> C.misses]
  <2>1. Fields(C)
    BY DEF Sound
  <2> HIDE DEF lru
  <2>2. D = [C EXCEPT !.lru = lru, !.hits = C.hits + 1]
    BY DEF hit, lru
  <2> HIDE DEF D
  <2> QED
    BY <2>1, <2>2 DEF Fields
<1> HIDE DEF D, lru, v
<1>7. /\ D.byKEL = C.byKEL /\ D.lru = lru /\ D.bytes = C.bytes
      /\ D.hits = C.hits + 1 /\ D.misses = C.misses /\ Fields(D)
  BY <1>6 DEF Fields
<1>8. Sound(D, v, max)
  BY <1>3, <1>4, <1>5, <1>7 DEF Sound
<1> QED
  BY <1>8 DEF D, v

\* So does a miss.
LEMMA MissOK ==
  ASSUME NEW C, NEW u, NEW max, Sound(C, u, max)
  PROVE  Sound([C EXCEPT !.misses = @ + 1], u, max)
<1> DEFINE D == [C EXCEPT !.misses = @ + 1]
<1>1. D = [byKEL |-> C.byKEL, lru |-> C.lru, bytes |-> C.bytes, hits |-> C.hits, misses |-> C.misses + 1]
  BY DEF Sound, Fields
<1> HIDE DEF D
<1>2. /\ D.byKEL = C.byKEL /\ D.lru = C.lru /\ D.bytes = C.bytes
      /\ D.hits = C.hits /\ D.misses = C.misses + 1 /\ Fields(D)
  BY <1>1 DEF Fields
<1>3. Sound(D, u, max)
  BY <1>2 DEF Sound
<1> QED
  BY <1>3 DEF D

\* An answer that is stored finds room, and leaves a sound cache.
LEMMA StoreOK ==
  ASSUME NEW C, NEW u, NEW max \in Nat, Sound(C, u, max), NEW k \in KELs,
         ~skips(C, k, Cost[k], max)
  PROVE  /\ fits(C, Cost[k], max) # {}
         /\ Sound(evictAndStore(C, k, [states |-> replay(k), cost |-> Cost[k]], max), ToFront(u, k), max)
<1> DEFINE e == [states |-> replay(k), cost |-> Cost[k]]
           S == fits(C, Cost[k], max)
           L == Len(C.lru)
           back(n) == ToSet(SubSeq(C.lru, n + 1, L))
<1>1. Cost[k] \in Nat /\ Cost[k] <= max /\ k \notin ToSet(C.lru)
  BY CacheAssumption, SoundFacts DEF skips
<1>2. C.lru \in Seq(KELs) /\ L \in Nat
  BY DEF Sound
<1>3. ASSUME NEW n \in 0..L
      PROVE  /\ back(n) = {C.lru[i] : i \in n + 1..L} /\ back(n) \in SUBSET ToSet(C.lru)
             /\ ToSet(SubSeq(C.lru, 1, n)) = ToSet(C.lru) \ back(n)
             /\ SubSeq(C.lru, 1, n) \in Seq(KELs) /\ IsInjective(SubSeq(C.lru, 1, n))
  <2> DEFINE a == SubSeq(C.lru, 1, n)
             b == SubSeq(C.lru, n + 1, L)
  <2>1. a \in Seq(KELs) /\ Len(a) = n /\ \A i \in 1..n : a[i] = C.lru[i]
    BY <1>2
  <2>2. b \in Seq(KELs) /\ Len(b) = L - n /\ \A i \in 1..L - n : b[i] = C.lru[n + i]
    BY <1>2
  <2> HIDE DEF a, b
  <2>3. ToSet(b) = {C.lru[i] : i \in n + 1..L}
    <3>1. \A i \in n + 1..L : i - n \in 1..Len(b) /\ b[i - n] = C.lru[i]
      BY <1>2, <2>2
    <3>2. \A i \in 1..Len(b) : n + i \in n + 1..L /\ b[i] = C.lru[n + i]
      BY <1>2, <2>2
    <3>3. ToSet(b) = {b[i] : i \in 1..Len(b)}
      BY <2>2 DEF ToSet
    <3>4. {b[i] : i \in 1..Len(b)} \subseteq {C.lru[i] : i \in n + 1..L}
      BY <3>2
    <3>5. {C.lru[i] : i \in n + 1..L} \subseteq {b[i] : i \in 1..Len(b)}
      BY <3>1
    <3> QED
      BY <3>3, <3>4, <3>5
  <2>4. ToSet(a) = {C.lru[i] : i \in 1..n}
    BY <2>1 DEF ToSet
  <2>5. ToSet(C.lru) = {C.lru[i] : i \in 1..L}
    BY <1>2 DEF ToSet
  <2>6. \A i, j \in 1..L : C.lru[i] = C.lru[j] => i = j
    BY <1>2 DEF Sound, IsInjective
  <2>7. ToSet(a) = ToSet(C.lru) \ ToSet(b) /\ ToSet(b) \in SUBSET ToSet(C.lru)
    <3>1. \A i \in 1..n, j \in n + 1..L : C.lru[i] # C.lru[j]
      BY <1>2, <2>6
    <3>2. \A i \in 1..L : i \in 1..n \/ i \in n + 1..L
      BY <1>2
    <3>3. \A i \in 1..n : i \in 1..L
      BY <1>2
    <3>4. \A i \in n + 1..L : i \in 1..L
      BY <1>2
    <3> QED
      BY <2>3, <2>4, <2>5, <3>1, <3>2, <3>3, <3>4
  <2>8. IsInjective(a)
    BY <1>2, <2>1, <2>6 DEF IsInjective
  <2> QED
    BY <2>1, <2>3, <2>7, <2>8 DEF a, b
<1>4. ASSUME NEW n \in 0..L
      PROVE  C.bytes - Size(C, back(n)) = Cardinality(Held(ToSet(C.lru) \ back(n)))
  <2>1. Size(C, back(n)) = Cardinality(Held(back(n)))
    BY <1>3, SoundFacts
  <2>2. back(n) \in SUBSET ToSet(C.lru)
    BY <1>3
  <2>3. ToSet(C.lru) \in SUBSET KELs /\ IsFiniteSet(ToSet(C.lru))
    BY SoundFacts
  <2>4. C.bytes = Cardinality(Held(ToSet(C.lru)))
    BY DEF Sound
  <2> HIDE DEF back
  <2>5. Cardinality(Held(ToSet(C.lru) \ back(n)))
          = Cardinality(Held(ToSet(C.lru))) - Cardinality(Held(back(n)))
    BY <2>2, <2>3, HeldFacts
  <2> QED
    BY <2>1, <2>4, <2>5
<1>5. S = {n \in 0..L : C.bytes - Size(C, back(n)) + Cost[k] <= max}
  BY DEF fits
<1> HIDE DEF back
<1>6. 0 \in S
  <2>1. ToSet(C.lru) \ back(0) = {}
    BY <1>2, <1>3 DEF ToSet
  <2>2. Held({}) = {}
    BY DEF Held
  <2>3. Cardinality(Held({})) = 0
    BY <2>2, FS_EmptySet
  <2>4. 0 \in 0..L
    BY <1>2
  <2>5. C.bytes - Size(C, back(0)) = 0
    BY <1>4, <2>1, <2>3, <2>4
  <2> QED
    BY <1>1, <1>5, <2>4, <2>5
<1> DEFINE n == Longest(S)
<1>7. n \in 0..L /\ C.bytes - Size(C, back(n)) + Cost[k] <= max
  <2>1. S \in SUBSET (0..L)
    BY <1>5
  <2>2. n \in S
    <3> HIDE DEF S
    <3> QED
      BY <1>2, <1>6, <2>1, LongestFacts
  <2> QED
    BY <1>5, <2>2
<1> DEFINE kept == SubSeq(C.lru, 1, n)
           gone == back(n)
           lru == <<k>> \o kept
           byKEL == [x \in (DOMAIN C.byKEL \ gone) \cup {k} |-> IF x = k THEN e ELSE C.byKEL[x]]
           bytes == C.bytes - Size(C, gone) + e.cost
           D == evictAndStore(C, k, e, max)
           v == ToFront(u, k)
<1>8. D = [byKEL |-> byKEL, lru |-> lru, bytes |-> bytes, hits |-> C.hits, misses |-> C.misses]
  <2>1. Fields(C)
    BY DEF Sound
  <2>2. kept = SubSeq(C.lru, 1, n) /\ gone = ToSet(SubSeq(C.lru, n + 1, Len(C.lru)))
    BY DEF back
  <2>3. D = [C EXCEPT !.byKEL = byKEL, !.lru = lru, !.bytes = bytes]
    BY <2>2 DEF evictAndStore
  <2> HIDE DEF D, byKEL, lru, bytes
  <2> QED
    BY <2>1, <2>3 DEF Fields
<1> HIDE DEF n, S
<1>9. /\ kept \in Seq(KELs) /\ IsInjective(kept) /\ ToSet(kept) = ToSet(C.lru) \ gone
      /\ k \notin ToSet(kept)
  BY <1>1, <1>3, <1>7
<1>10. lru \in Seq(KELs) /\ IsInjective(lru) /\ ToSet(lru) = ToSet(kept) \cup {k}
  BY <1>9, PushFacts
<1>11. v \in Seq(KELs) /\ IsInjective(v)
  BY UsedFacts DEF Sound
<1>12. IsPrefix(lru, v)
  BY <1>1, <1>7, StoreFirst DEF Sound
<1>13. byKEL = [x \in ToSet(lru) |-> [states |-> replay(x), cost |-> Cost[x]]]
  BY <1>9, <1>10, SoundFacts
<1>14. bytes = Cardinality(Held(ToSet(lru)))
  <2>1. bytes = Cardinality(Held(ToSet(kept))) + Cost[k]
    BY <1>4, <1>7, <1>9
  <2>2. ToSet(kept) \in SUBSET KELs /\ IsFiniteSet(ToSet(kept))
    <3> HIDE DEF kept
    <3> QED
      BY <1>9, FiniteList, SoundFacts
  <2>3. Cardinality(Held(ToSet(kept) \cup {k})) = Cardinality(Held(ToSet(kept))) + Cost[k]
    <3> HIDE DEF kept
    <3> QED
      BY <1>9, <2>2, HeldFacts
  <2> QED
    BY <1>10, <2>1, <2>3
<1>15. bytes <= max
  BY <1>7
<1> HIDE DEF D, lru, byKEL, bytes, v, e, kept
<1>16. /\ D.byKEL = byKEL /\ D.lru = lru /\ D.bytes = bytes
       /\ D.hits = C.hits /\ D.misses = C.misses /\ Fields(D)
  BY <1>8 DEF Fields
<1>17. Sound(D, v, max)
  BY <1>10, <1>11, <1>12, <1>13, <1>14, <1>15, <1>16 DEF Sound
<1> QED
  BY <1>6, <1>17 DEF D, v, e, S

-----------------------------------------------------------------------------
(* Each step keeps the invariant. *)

\* The call of a thread is one Replay may be in: it never runs out of entries to drop, and what it
\* returns is what replaying gives.
CallOK(x) ==
  /\ x \in Calls
  /\ x.pc # "panicked"
  /\ x.pc = "returned" => x.answer = replay(x.kel)

Inv ==
  /\ installed \in Caches \cup {None}
  /\ DOMAIN call = Threads /\ call = [h \in Threads |-> call[h]]
  /\ \A h \in Threads : CallOK(call[h])
  /\ DOMAIN cache = Caches /\ cache = [c \in Caches |-> cache[c]]
  /\ DOMAIN used = Caches /\ used = [c \in Caches |-> used[c]]
  /\ \A c \in Caches : Sound(cache[c], used[c], MaxBytes[c])

\* A call that has its answer is one Replay may be in.
LEMMA ReturnedOK ==
  ASSUME NEW k \in KELs
  PROVE  CallOK(Returned(k, replay(k)))
BY CacheAssumption DEF CallOK, Calls, Returned, replay

\* The invariant holds at first.
LEMMA InitInv == Init => Inv
<1> SUFFICES ASSUME Init PROVE Inv
  OBVIOUS
<1>1. \A h \in Threads : CallOK(call[h])
  BY DEF Init, CallOK, Calls, Idle
<1>2. ASSUME NEW c \in Caches PROVE Sound(cache[c], used[c], MaxBytes[c])
  <2> DEFINE C == cache[c]
  <2>1. C = NewReplayCache /\ used[c] = <<>>
    BY DEF Init
  <2>2. /\ C.byKEL = <<>> /\ C.lru = <<>> /\ C.bytes = 0 /\ C.hits = 0 /\ C.misses = 0
        /\ Fields(C)
    BY <2>1 DEF NewReplayCache, Fields
  <2>3. ToSet(<<>>) = {} /\ IsInjective(<<>>) /\ IsPrefix(<<>>, <<>>)
    BY DEF ToSet, IsInjective, IsPrefix
  <2>4. <<>> = [k \in ToSet(<<>>) |-> [states |-> replay(k), cost |-> Cost[k]]]
    BY <2>3
  <2>5. Cardinality(Held(ToSet(<<>>))) = 0
    BY <2>3, FS_EmptySet DEF Held
  <2>6. MaxBytes[c] \in Nat
    BY CacheAssumption
  <2> QED
    BY <2>1, <2>2, <2>3, <2>4, <2>5, <2>6 DEF Sound
<1> QED
  BY <1>1, <1>2 DEF Init, Inv

\* A step of one thread that leaves the caches alone.
LEMMA CallInv ==
  ASSUME Inv, NEW h \in Threads, NEW x, CallOK(x), call' = [call EXCEPT ![h] = x],
         UNCHANGED <<installed, cache, used>>
  PROVE  Inv'
<1>1. call'[h] = x /\ \A g \in Threads \ {h} : call'[g] = call[g]
  BY DEF Inv
<1>2. DOMAIN call' = Threads /\ call' = [g \in Threads |-> call'[g]]
  BY DEF Inv
<1>3. \A g \in Threads : CallOK(call'[g])
  BY <1>1 DEF Inv
<1> QED
  BY <1>2, <1>3 DEF Inv

\* A step of one thread in one cache.
LEMMA CacheInv ==
  ASSUME Inv, NEW h \in Threads, NEW x, CallOK(x), call' = [call EXCEPT ![h] = x],
         NEW c \in Caches, NEW C, cache' = [cache EXCEPT ![c] = C],
         NEW u, used' = [used EXCEPT ![c] = u], Sound(C, u, MaxBytes[c]), UNCHANGED installed
  PROVE  Inv'
<1>1. call'[h] = x /\ \A g \in Threads \ {h} : call'[g] = call[g]
  BY DEF Inv
<1>2. DOMAIN call' = Threads /\ call' = [g \in Threads |-> call'[g]]
  BY DEF Inv
<1>3. \A g \in Threads : CallOK(call'[g])
  BY <1>1 DEF Inv
<1>4. cache'[c] = C /\ used'[c] = u
      /\ \A d \in Caches \ {c} : cache'[d] = cache[d] /\ used'[d] = used[d]
  BY DEF Inv
<1>5. /\ DOMAIN cache' = Caches /\ cache' = [d \in Caches |-> cache'[d]]
      /\ DOMAIN used' = Caches /\ used' = [d \in Caches |-> used'[d]]
  BY DEF Inv
<1>6. \A d \in Caches : Sound(cache'[d], used'[d], MaxBytes[d])
  BY <1>4 DEF Inv
<1> QED
  BY <1>2, <1>3, <1>5, <1>6 DEF Inv

\* Replay reads the pointer to the installed cache.
LEMMA ReplayInv == ASSUME Inv, NEW h \in Threads, NEW k \in KELs, Replay(h, k) PROVE Inv'
<1> DEFINE x == IF installed = None \/ k \notin Encodable THEN Returned(k, replay(k))
                ELSE [pc |-> "lookup", kel |-> k, c |-> installed]
<1>1. CallOK(x)
  <2>1. CASE installed = None \/ k \notin Encodable
    BY <2>1, ReturnedOK
  <2>2. CASE ~(installed = None \/ k \notin Encodable)
    <3>1. installed \in Caches
      BY <2>2 DEF Inv
    <3> QED
      BY <2>2, <3>1 DEF CallOK, Calls
  <2> QED
    BY <2>1, <2>2
<1>2. call' = [call EXCEPT ![h] = x] /\ UNCHANGED <<installed, cache, used>>
  BY DEF Replay
<1> HIDE DEF x
<1> QED
  BY <1>1, <1>2, CallInv

\* The first critical section.
LEMMA LookupInv == ASSUME Inv, NEW h \in Threads, Lookup(h) PROVE Inv'
<1> DEFINE k == call[h].kel
           c == call[h].c
           C == cache[c]
<1>1. call[h].pc = "lookup"
  BY DEF Lookup
<1>2. k \in KELs /\ c \in Caches /\ call[h] = [pc |-> "lookup", kel |-> k, c |-> c]
  BY <1>1 DEF Inv, CallOK, Calls, Idle
<1>3. Sound(C, used[c], MaxBytes[c])
  BY <1>2 DEF Inv
<1>4. UNCHANGED installed
  BY DEF Lookup
<1>5. CASE k \in DOMAIN C.byKEL
  <2>1. /\ cache' = [cache EXCEPT ![c] = hit(C, k)]
        /\ used' = [used EXCEPT ![c] = ToFront(used[c], k)]
        /\ call' = [call EXCEPT ![h] = Returned(k, cached(C.byKEL[k]))]
    BY <1>5 DEF Lookup
  <2>2. cached(C.byKEL[k]) = replay(k)
    BY <1>3, <1>5, SoundFacts DEF cached
  <2>3. Sound(hit(C, k), ToFront(used[c], k), MaxBytes[c])
    BY <1>3, <1>5, HitOK
  <2>4. CallOK(Returned(k, cached(C.byKEL[k])))
    BY <1>2, <2>2, ReturnedOK
  <2> HIDE DEF k, c, C
  <2> QED
    BY <1>2, <1>4, <2>1, <2>3, <2>4, CacheInv
<1>6. CASE k \notin DOMAIN C.byKEL
  <2> DEFINE x == [call[h] EXCEPT !.pc = "replaying"]
             D == [C EXCEPT !.misses = @ + 1]
  <2>1. cache' = [cache EXCEPT ![c] = D] /\ call' = [call EXCEPT ![h] = x] /\ used' = used
    BY <1>6 DEF Lookup
  <2>2. Sound(D, used[c], MaxBytes[c])
    BY <1>3, MissOK
  <2>3. CallOK(x)
    <3>1. x = [pc |-> "replaying", kel |-> k, c |-> c]
      BY <1>2
    <3> HIDE DEF k, c, x
    <3> QED
      BY <1>2, <3>1 DEF CallOK, Calls
  <2>4. used' = [used EXCEPT ![c] = used[c]]
    BY <2>1 DEF Inv
  <2> HIDE DEF k, c, C, x, D
  <2> QED
    BY <1>2, <1>4, <2>1, <2>2, <2>3, <2>4, CacheInv
<1> QED
  BY <1>5, <1>6

\* The second one.
LEMMA StoreInv == ASSUME Inv, NEW h \in Threads, Store(h) PROVE Inv'
<1> DEFINE k == call[h].kel
           c == call[h].c
           C == cache[c]
           e == [states |-> replay(k), cost |-> Cost[k]]
           max == MaxBytes[c]
<1>1. call[h].pc = "replaying"
  BY DEF Store
<1>2. k \in KELs /\ c \in Caches
  BY <1>1 DEF Inv, CallOK, Calls, Idle
<1>3. Sound(C, used[c], max) /\ max \in Nat
  BY <1>2, CacheAssumption DEF Inv
<1>4. UNCHANGED installed
  BY DEF Store
<1>5. CallOK(Returned(k, replay(k)))
  BY <1>2, ReturnedOK
<1>6. CASE skips(C, k, Cost[k], max)
  <2>1. call' = [call EXCEPT ![h] = Returned(k, replay(k))] /\ UNCHANGED <<cache, used>>
    BY <1>6 DEF Store
  <2> QED
    BY <1>4, <1>5, <2>1, CallInv
<1>7. CASE ~skips(C, k, Cost[k], max)
  <2>1. /\ fits(C, Cost[k], max) # {}
        /\ Sound(evictAndStore(C, k, e, max), ToFront(used[c], k), max)
    BY <1>2, <1>3, <1>7, StoreOK
  <2>2. /\ cache' = [cache EXCEPT ![c] = evictAndStore(C, k, e, max)]
        /\ used' = [used EXCEPT ![c] = ToFront(used[c], k)]
        /\ call' = [call EXCEPT ![h] = Returned(k, replay(k))]
    BY <1>7, <2>1 DEF Store
  <2> HIDE DEF k, c, C, e
  <2> QED
    BY <1>2, <1>4, <1>5, <2>1, <2>2, CacheInv
<1> QED
  BY <1>6, <1>7

\* Every step keeps the invariant.
LEMMA NextInv == Inv /\ [Next]_vars => Inv'
<1> SUFFICES ASSUME Inv, [Next]_vars PROVE Inv'
  OBVIOUS
<1>1. CASE UNCHANGED vars
  BY <1>1 DEF vars, Inv
<1>2. ASSUME NEW c \in Caches \cup {None}, SetReplayCache(c) PROVE Inv'
  BY <1>2 DEF SetReplayCache, Inv
<1>3. ASSUME NEW h \in Threads, Return(h) PROVE Inv'
  <2>1. CallOK(Idle)
    BY DEF CallOK, Calls, Idle
  <2> QED
    BY <1>3, <2>1, CallInv DEF Return
<1> QED
  BY <1>1, <1>2, <1>3, ReplayInv, LookupInv, StoreInv DEF Next

-----------------------------------------------------------------------------
(* The theorems. *)

\* The invariant holds in every reachable state.
THEOREM Invariance == Spec => []Inv
<1>1. Inv /\ [Next]_vars => Inv'
  BY NextInv
<1> QED
  BY InitInv, <1>1, PTL DEF Spec

\* What Replay returns is what replaying the KEL gives, whichever cache, thread or earlier caller
\* the answer came from (ReplayCache.replay).
THEOREM Answers == Spec => []AnswerIsReplay
<1>1. Inv => AnswerIsReplay
  BY DEF Inv, CallOK, AnswerIsReplay
<1> QED
  BY Invariance, <1>1, PTL

\* The map and the list agree, bytes are what the entries cost and within the limit, the entries
\* are those used last, and the eviction loop never runs out of them (ReplayCache.replay).
THEOREM CacheIsSound == Spec => []CacheSound
<1>1. ASSUME Inv, NEW c \in Caches
      PROVE  /\ Sound(cache[c], used[c], MaxBytes[c])
             /\ DOMAIN cache[c].byKEL = ToSet(cache[c].lru)
             /\ cache[c].bytes = Size(cache[c], DOMAIN cache[c].byKEL)
  <2> DEFINE C == cache[c]
  <2>1. Sound(C, used[c], MaxBytes[c])
    BY <1>1 DEF Inv
  <2>2. DOMAIN C.byKEL = ToSet(C.lru) /\ C.bytes = Cardinality(Held(ToSet(C.lru)))
    BY <2>1, SoundFacts DEF Sound
  <2> HIDE DEF C
  <2>3. Size(C, ToSet(C.lru)) = Cardinality(Held(ToSet(C.lru)))
    BY <2>1, SoundFacts
  <2> QED
    BY <2>1, <2>2, <2>3 DEF C
<1>2. Inv => MapMatchesList /\ BytesBounded /\ RecencyOrder
  BY <1>1 DEF MapMatchesList, BytesBounded, RecencyOrder, Sound
<1>3. Inv => NeverPanics
  BY DEF Inv, CallOK, NeverPanics
<1>4. Inv => TypeOK
  <2> SUFFICES ASSUME Inv PROVE TypeOK
    OBVIOUS
  <2>1. call \in [Threads -> Calls]
    BY DEF Inv, CallOK
  <2>2. ASSUME NEW c \in Caches
        PROVE  /\ DOMAIN cache[c].byKEL \subseteq KELs
               /\ \A k \in DOMAIN cache[c].byKEL : cache[c].byKEL[k] \in Entry
               /\ cache[c].lru \in Seq(KELs)
               /\ cache[c].bytes \in Int /\ cache[c].hits \in Nat /\ cache[c].misses \in Nat
    <3>1. /\ Sound(cache[c], used[c], MaxBytes[c])
          /\ DOMAIN cache[c].byKEL = ToSet(cache[c].lru) /\ ToSet(cache[c].lru) \in SUBSET KELs
          /\ IsFiniteSet(ToSet(cache[c].lru))
      BY <1>1, SoundFacts
    <3>2. ASSUME NEW k \in DOMAIN cache[c].byKEL PROVE cache[c].byKEL[k] \in Entry
      <4>1. cache[c].byKEL[k] = [states |-> replay(k), cost |-> Cost[k]] /\ k \in KELs
        BY <3>1, SoundFacts
      <4> QED
        BY <4>1, CacheAssumption DEF Entry, replay
    <3>3. cache[c].bytes \in Int
      BY <3>1, HeldFacts DEF Sound
    <3> QED
      BY <3>1, <3>2, <3>3 DEF Sound
  <2> QED
    BY <2>1, <2>2 DEF TypeOK, Inv
<1> QED
  BY Invariance, <1>2, <1>3, <1>4, PTL DEF CacheSound
-----------------------------------------------------------------------------
(* The request clock. *)

\* Cardinality means the same in MonoClock.
LEMMA ClockCardinality == \A S : Clock!Cardinality(S) = Cardinality(S)
  BY Zenon DEF Clock!Cardinality, Cardinality

\* The counter of t dominates what was issued and adopted for t.
CounterOK(t) ==
  /\ issued[t] # {} => last[t] # None
  /\ \A ts \in issued[t] : ts <= last[t]
  /\ IsFiniteSet(issued[t])

\* A request in flight carries an issued timestamp, and a raised one waits below the counter.
RequestOK(h) ==
  /\ req[h].pc = "sent" => req[h].ts \in issued[req[h].target]
  /\ req[h].pc = "raised" => last[req[h].target] # None /\ req[h].floor <= last[req[h].target]

ClockInv ==
  /\ Clock!TypeOK
  /\ \A t \in Targets : CounterOK(t)
  /\ \A h \in Threads : RequestOK(h)
  /\ Clock!NoCollision
  /\ Clock!RetryAboveFloor
  /\ Clock!SkewBounded

-----------------------------------------------------------------------------
(* The two methods. *)

\* NextTS never goes back, and is ahead of the clock by at most a step from the last value.
LEMMA NextTSFacts ==
  ASSUME NEW l \in Clock!Times \cup {None}, NEW now \in Clock!Times
  PROVE  /\ Clock!NextTS(l, now) \in Clock!Times
         /\ Clock!NextTS(l, now) >= now
         /\ l # None => Clock!NextTS(l, now) >= l
         /\ l # None /\ Clock!NextTS(l, now) = l => l = MaxInt64
         /\ Clock!NextTS(l, now) > now => l # None /\ Clock!NextTS(l, now) <= l + 1
  BY ClockAssumption DEF Clock!NextTS, Clock!Times

\* RaiseTo never lowers the last value, and keeps to the clamp.
LEMMA RaiseFacts ==
  ASSUME NEW l \in Clock!Times \cup {None}, NEW floor \in Clock!Times, NEW now \in Clock!Times,
         Clock!RaiseAccepts(floor, now)
  PROVE  /\ Clock!RaiseTo(l, floor) \in Clock!Times
         /\ Clock!RaiseTo(l, floor) >= floor
         /\ l # None => Clock!RaiseTo(l, floor) >= l
         /\ floor <= now + (MaxSkewMillis - FloorClampMillis)
         /\ Clock!RaiseTo(l, floor) # floor => l # None /\ Clock!RaiseTo(l, floor) = l
  BY ClockAssumption DEF Clock!RaiseAccepts, Clock!raiseLimit, Clock!RaiseTo, Clock!Times

\* Later is the maximum.
LEMMA LaterFacts ==
  ASSUME NEW a \in Clock!Times, NEW b \in Clock!Times
  PROVE  Clock!Later(a, b) \in Clock!Times /\ Clock!Later(a, b) >= a /\ Clock!Later(a, b) >= b
  BY ClockAssumption DEF Clock!Later, Clock!Times

\* The arithmetic of the skew bound.
LEMMA SumFacts ==
  ASSUME NEW x \in Int, NEW l \in Int, NEW a \in Int, NEW b \in Int, NEW n \in Int, NEW m \in Int,
         NEW s \in Int, l <= a + n + s, b >= a,
         (x <= l /\ m >= n) \/ (x <= l + 1 /\ m = n + 1)
  PROVE  x <= b + m + s
  OBVIOUS

-----------------------------------------------------------------------------
(* Each step keeps the invariant. *)

\* The invariant holds at first.
LEMMA InitClock == Clock!Init => ClockInv
<1> SUFFICES ASSUME Clock!Init PROVE ClockInv
  OBVIOUS
<1>1. Clock!TypeOK
  BY ClockAssumption DEF Clock!Init, Clock!TypeOK, Clock!Times, Clock!Request
<1>2. \A t \in Targets : CounterOK(t)
  BY FS_EmptySet DEF Clock!Init, CounterOK
<1>3. \A h \in Threads : req[h].pc = "idle"
  BY DEF Clock!Init, Clock!Idle
<1>4. \A h \in Threads : RequestOK(h)
  BY <1>3 DEF RequestOK
<1>5. Clock!NoCollision /\ Clock!RetryAboveFloor
  BY <1>3 DEF Clock!NoCollision, Clock!RetryAboveFloor
<1>6. Clock!SkewBounded
  BY DEF Clock!Init, Clock!SkewBounded
<1> QED
  BY <1>1, <1>2, <1>4, <1>5, <1>6 DEF ClockInv

\* Taking a timestamp: a thread that sends, or retries above a floor the counter reached.
LEMMA StampInv ==
  ASSUME ClockInv, NEW h \in Threads, NEW t \in Targets, NEW now \in Clock!Times,
         NEW floor \in Clock!Times \cup {None},
         floor # None => last[t] # None /\ floor <= last[t],
         Clock!Stamp(h, t, now, floor)
  PROVE  ClockInv' /\ (\A ts \in issued'[t] \ issued[t], old \in issued[t] : ts > old)
<1> DEFINE ts == Clock!NextTS(last[t], now)
           r == [pc |-> "sent", target |-> t, ts |-> ts, floor |-> floor]
<1>0. /\ last' = [last EXCEPT ![t] = ts]
      /\ issued' = [issued EXCEPT ![t] = issued[t] \cup {ts}]
      /\ req' = [req EXCEPT ![h] = r]
      /\ hiNow' = Clock!Later(hiNow, now)
      /\ raised' = raised
  BY DEF Clock!Stamp
<1>1. Clock!TypeOK
  BY DEF ClockInv
<1>2. last[t] \in Clock!Times \cup {None} /\ hiNow \in Clock!Times /\ issued[t] \in SUBSET Clock!Times
  BY <1>1 DEF Clock!TypeOK
<1>3. /\ ts \in Clock!Times /\ ts >= now
      /\ last[t] # None => ts >= last[t]
      /\ last[t] # None /\ ts = last[t] => last[t] = MaxInt64
      /\ ts > now => last[t] # None /\ ts <= last[t] + 1
  BY <1>2, NextTSFacts
<1> HIDE DEF ts
<1>4. hiNow' \in Clock!Times /\ hiNow' >= hiNow /\ hiNow' >= now
  BY <1>0, <1>2, LaterFacts
<1>5. Clock!TypeOK'
  <2>1. r \in Clock!Request
    BY <1>3 DEF Clock!Request
  <2> QED
    BY <1>0, <1>1, <1>3, <1>4, <2>1 DEF Clock!TypeOK
<1>6. /\ last'[t] = ts /\ issued'[t] = issued[t] \cup {ts}
      /\ \A u \in Targets \ {t} : last'[u] = last[u] /\ issued'[u] = issued[u]
      /\ req'[h] = r /\ \A g \in Threads \ {h} : req'[g] = req[g]
  BY <1>0, <1>1 DEF Clock!TypeOK
<1>7. CounterOK(t) /\ (\A u \in Targets : CounterOK(u))
  BY DEF ClockInv
<1>8. \A x \in issued[t] : x <= ts /\ (x = ts => ts = MaxInt64)
  <2> TAKE x \in issued[t]
  <2>1. last[t] # None /\ last[t] \in Clock!Times /\ x <= last[t] /\ x \in Clock!Times
    BY <1>2, <1>7 DEF CounterOK
  <2> QED
    BY <1>3, <2>1, ClockAssumption DEF Clock!Times
<1>9. \A u \in Targets : CounterOK(u)'
  <2> TAKE u \in Targets
  <2>1. CASE u = t
    <3>1. IsFiniteSet(issued[t] \cup {ts})
      BY <1>7, FS_AddElement DEF CounterOK
    <3>2. ts # None /\ ts <= ts
      BY <1>3, ClockAssumption DEF Clock!Times
    <3> QED
      BY <1>6, <1>8, <2>1, <3>1, <3>2 DEF CounterOK
  <2>2. CASE u # t
    BY <1>6, <1>7, <2>2 DEF CounterOK
  <2> QED
    BY <2>1, <2>2
<1>10. \A g \in Threads : RequestOK(g)'
  <2> TAKE g \in Threads
  <2>1. CASE g = h
    BY <1>6, <2>1 DEF RequestOK
  <2>2. CASE g # h
    <3>1. req'[g] = req[g] /\ RequestOK(g)
      BY <1>6, <2>2 DEF ClockInv
    <3>2. CASE req[g].pc = "sent"
      <4>1. req[g].target \in Targets
        BY <1>1, <3>2 DEF Clock!TypeOK, Clock!Request, Clock!Idle
      <4>2. issued[req[g].target] \subseteq issued'[req[g].target]
        BY <1>6, <4>1
      <4> QED
        BY <3>1, <3>2, <4>2 DEF RequestOK
    <3>3. CASE req[g].pc = "raised"
      <4>1. req[g].target \in Targets /\ req[g].floor \in Clock!Times
        BY <1>1, <3>3 DEF Clock!TypeOK, Clock!Request, Clock!Idle
      <4>2. CASE req[g].target # t
        BY <1>6, <3>1, <3>3, <4>1, <4>2 DEF RequestOK
      <4>3. CASE req[g].target = t
        <5>1. last[t] # None /\ req[g].floor <= last[t] /\ last[t] \in Clock!Times
          BY <1>2, <3>1, <3>3, <4>3 DEF RequestOK
        <5>2. req[g].floor <= ts /\ ts # None
          BY <1>3, <4>1, <5>1, ClockAssumption DEF Clock!Times
        <5> QED
          BY <1>6, <3>1, <3>3, <4>3, <5>2 DEF RequestOK
      <4> QED
        BY <4>2, <4>3
    <3> QED
      BY <3>1, <3>2, <3>3 DEF RequestOK
  <2> QED
    BY <2>1, <2>2
<1>11. Clock!NoCollision'
  <2> SUFFICES ASSUME NEW f \in Threads, NEW g \in Threads, f # g,
                      req'[f].pc = "sent", req'[g].pc = "sent",
                      req'[f].target = req'[g].target, req'[f].ts = req'[g].ts
               PROVE  req'[f].ts = MaxInt64
    BY DEF Clock!NoCollision
  <2>1. ASSUME NEW k \in Threads \ {h}, req[k].pc = "sent", req[k].target = t, req[k].ts = ts
        PROVE  ts = MaxInt64
    <3>1. ts \in issued[t]
      BY <2>1 DEF ClockInv, RequestOK
    <3> QED
      BY <1>8, <3>1
  <2>2. CASE f = h
    BY <1>6, <2>1, <2>2
  <2>3. CASE g = h
    BY <1>6, <2>1, <2>3
  <2>4. CASE f # h /\ g # h
    BY <1>6, <2>4 DEF ClockInv, Clock!NoCollision
  <2> QED
    BY <2>2, <2>3, <2>4
<1>12. Clock!RetryAboveFloor'
  <2>1. floor # None => ts > floor \/ ts = MaxInt64
    <3> SUFFICES ASSUME floor # None PROVE ts > floor \/ ts = MaxInt64
      OBVIOUS
    <3>1. last[t] \in Clock!Times /\ floor \in Clock!Times /\ floor <= last[t] /\ last[t] # None
      BY <1>2
    <3> QED
      BY <1>3, <3>1, ClockAssumption DEF Clock!Times
  <2> QED
    BY <1>6, <2>1 DEF ClockInv, Clock!RetryAboveFloor
<1>13. Clock!SkewBounded'
  <2> SUFFICES ASSUME NEW u \in Targets, last'[u] # None
               PROVE  last'[u] <= hiNow' + Cardinality(issued'[u])
                        + (IF u \in raised THEN MaxSkewMillis - FloorClampMillis ELSE 0)
    BY <1>0, ClockCardinality DEF Clock!SkewBounded
  <2> DEFINE S == IF u \in raised THEN MaxSkewMillis - FloorClampMillis ELSE 0
  <2>1. S \in Nat
    BY ClockAssumption
  <2> HIDE DEF S
  <2>2. last[u] # None => last[u] <= hiNow + Cardinality(issued[u]) + S
    BY ClockCardinality DEF ClockInv, Clock!SkewBounded, S
  <2>3. Cardinality(issued[u]) \in Nat /\ IsFiniteSet(issued[u]) /\ last[u] \in Clock!Times \cup {None}
    BY <1>1, <1>7, FS_CardinalityType DEF CounterOK, Clock!TypeOK
  <2>4. CASE u # t
    <3>1. last'[u] = last[u] /\ issued'[u] = issued[u]
      BY <1>6, <2>4
    <3> QED
      BY <1>2, <1>4, <2>1, <2>2, <2>3, <3>1, ClockAssumption DEF Clock!Times, S
  <2>5. CASE u = t
    <3> DEFINE n == Cardinality(issued[t])
               m == Cardinality(issued[t] \cup {ts})
    <3>1. m = IF ts \in issued[t] THEN n ELSE n + 1
      BY <2>3, <2>5, FS_AddElement
    <3>2. n \in Nat /\ m \in Nat /\ m >= n
      BY <2>3, <2>5, <3>1
    <3>3. issued'[u] = issued[t] \cup {ts} /\ last'[u] = ts
      BY <1>6, <2>5
    <3> HIDE DEF n, m
    <3>4. ts <= hiNow' + m + S
      <4>1. CASE ts = now
        BY <1>3, <1>4, <2>1, <3>2, <4>1, ClockAssumption DEF Clock!Times
      <4>2. CASE ts # now
        <5>1. last[t] # None /\ ts <= last[t] + 1 /\ last[t] \in Clock!Times /\ last[t] <= hiNow + n + S
          BY <1>2, <1>3, <2>2, <2>5, <4>2, ClockAssumption DEF Clock!Times, n
        <5>2. /\ ts \in Int /\ last[t] \in Int /\ hiNow \in Int /\ S \in Int
              /\ n \in Int /\ m \in Int
          BY <1>2, <1>3, <2>1, <3>2, <5>1, ClockAssumption DEF Clock!Times
        <5>3. PICK hi \in Int : hi = hiNow' /\ hi >= hiNow
          BY <1>4 DEF Clock!Times
        <5>4. (ts <= last[t] /\ m >= n) \/ (ts <= last[t] + 1 /\ m = n + 1)
          <6>1. CASE ts \in issued[t]
            BY <1>7, <3>2, <6>1 DEF CounterOK
          <6>2. CASE ts \notin issued[t]
            BY <3>1, <5>1, <6>2 DEF m, n
          <6> QED
            BY <6>1, <6>2
        <5>5. ts <= hi + m + S
          BY <5>1, <5>2, <5>3, <5>4, SumFacts
        <5> QED
          BY <5>3, <5>5
      <4> QED
        BY <4>1, <4>2
    <3> QED
      BY <3>3, <3>4 DEF m, S
  <2> QED
    BY <2>4, <2>5
<1>14. \A x \in issued'[t] \ issued[t], old \in issued[t] : x > old
  <2> TAKE x \in issued'[t] \ issued[t], old \in issued[t]
  <2>1. x = ts /\ old <= ts /\ old # ts /\ old \in Clock!Times
    BY <1>2, <1>6, <1>8
  <2> QED
    BY <1>3, <2>1, ClockAssumption DEF Clock!Times
<1> QED
  BY <1>5, <1>9, <1>10, <1>11, <1>12, <1>13, <1>14 DEF ClockInv

\* Steps that touch one thread's request only.
LEMMA RequestInv ==
  ASSUME ClockInv, NEW h \in Threads, NEW r \in Clock!Request, r.pc # "sent", r.pc # "raised",
         req' = [req EXCEPT ![h] = r], UNCHANGED <<last, issued, raised, hiNow>>
  PROVE  ClockInv'
<1>1. Clock!TypeOK
  BY DEF ClockInv
<1>2. Clock!TypeOK' /\ req'[h] = r /\ \A g \in Threads \ {h} : req'[g] = req[g]
  BY <1>1 DEF Clock!TypeOK
<1>3. \A t \in Targets : CounterOK(t)'
  BY DEF ClockInv, CounterOK
<1>4. \A g \in Threads : RequestOK(g)'
  <2> TAKE g \in Threads
  <2>1. CASE g = h
    BY <1>2, <2>1 DEF RequestOK
  <2>2. CASE g # h
    BY <1>2, <2>2 DEF ClockInv, RequestOK
  <2> QED
    BY <2>1, <2>2
<1>5. Clock!NoCollision' /\ Clock!RetryAboveFloor'
  BY <1>2 DEF ClockInv, Clock!NoCollision, Clock!RetryAboveFloor
<1>6. Clock!SkewBounded'
  BY DEF ClockInv, Clock!SkewBounded
<1> QED
  BY <1>2, <1>3, <1>4, <1>5, <1>6 DEF ClockInv

\* Adopting a floor moves the counter up, and no further than the window allows.
LEMMA AdoptInv ==
  ASSUME ClockInv, NEW h \in Threads, NEW t \in Targets, NEW now \in Clock!Times, NEW floor \in Clock!Times,
         req[h].pc = "stale", req[h].target = t, req[h].floor = floor,
         Clock!RaiseAccepts(floor, now),
         hiNow' = Clock!Later(hiNow, now),
         last' = [last EXCEPT ![t] = Clock!RaiseTo(last[t], floor)],
         raised' = raised \cup {t},
         req' = [req EXCEPT ![h] = [req[h] EXCEPT !.pc = "raised"]],
         UNCHANGED issued
  PROVE  ClockInv'
<1> DEFINE l == Clock!RaiseTo(last[t], floor)
           r == [req[h] EXCEPT !.pc = "raised"]
<1>1. Clock!TypeOK
  BY DEF ClockInv
<1>2. last[t] \in Clock!Times \cup {None} /\ hiNow \in Clock!Times /\ issued[t] \in SUBSET Clock!Times
  BY <1>1 DEF Clock!TypeOK
<1>3. /\ l \in Clock!Times /\ l >= floor
      /\ last[t] # None => l >= last[t]
      /\ floor <= now + (MaxSkewMillis - FloorClampMillis)
      /\ l # floor => last[t] # None /\ l = last[t]
  BY <1>2, RaiseFacts
<1>4. l # None
  BY <1>3, ClockAssumption DEF Clock!Times
<1>5. hiNow' \in Clock!Times /\ hiNow' >= hiNow /\ hiNow' >= now
  BY <1>2, LaterFacts
<1>6. r \in Clock!Request /\ r.pc = "raised" /\ r.target = t /\ r.floor = floor
  BY <1>1 DEF Clock!TypeOK, Clock!Request, Clock!Idle
<1> HIDE DEF l, r
<1>7. /\ last' = [last EXCEPT ![t] = l] /\ req' = [req EXCEPT ![h] = r]
  BY DEF l, r
<1>8. Clock!TypeOK'
  BY <1>1, <1>3, <1>5, <1>6, <1>7 DEF Clock!TypeOK
<1>9. /\ last'[t] = l /\ \A u \in Targets \ {t} : last'[u] = last[u]
      /\ req'[h] = r /\ \A g \in Threads \ {h} : req'[g] = req[g]
  BY <1>1, <1>7 DEF Clock!TypeOK
<1>10. \A u \in Targets : CounterOK(u)'
  <2> TAKE u \in Targets
  <2>1. CASE u # t
    BY <1>9, <2>1 DEF ClockInv, CounterOK
  <2>2. CASE u = t
    <3>1. CounterOK(t)
      BY DEF ClockInv
    <3>2. \A ts \in issued[t] : ts <= l
      <4> TAKE ts \in issued[t]
      <4>1. ts \in Clock!Times /\ last[t] \in Clock!Times /\ last[t] # None /\ ts <= last[t]
        BY <1>2, <3>1 DEF CounterOK
      <4> QED
        BY <1>3, <4>1, ClockAssumption DEF Clock!Times
    <3> QED
      BY <1>4, <1>9, <2>2, <3>1, <3>2 DEF CounterOK
  <2> QED
    BY <2>1, <2>2
<1>11. \A g \in Threads : RequestOK(g)'
  <2> TAKE g \in Threads
  <2>1. CASE g = h
    BY <1>3, <1>4, <1>6, <1>9, <2>1, ClockAssumption DEF RequestOK, Clock!Times
  <2>2. CASE g # h
    <3>1. req'[g] = req[g] /\ RequestOK(g)
      BY <1>9, <2>2 DEF ClockInv
    <3>2. CASE req[g].pc = "raised"
      <4>1. req[g].target \in Targets /\ req[g].floor \in Clock!Times
        BY <1>1, <3>2 DEF Clock!TypeOK, Clock!Request, Clock!Idle
      <4>2. CASE req[g].target # t
        BY <1>9, <3>1, <3>2, <4>1, <4>2 DEF RequestOK
      <4>3. CASE req[g].target = t
        <5>1. last[t] # None /\ req[g].floor <= last[t] /\ last[t] \in Clock!Times
          BY <1>2, <3>1, <3>2, <4>3 DEF RequestOK
        <5>2. req[g].floor <= l
          BY <1>3, <4>1, <5>1, ClockAssumption DEF Clock!Times
        <5> QED
          BY <1>4, <1>9, <3>1, <3>2, <4>3, <5>2 DEF RequestOK
      <4> QED
        BY <4>2, <4>3
    <3> QED
      BY <3>1, <3>2 DEF RequestOK
  <2> QED
    BY <2>1, <2>2
<1>12. Clock!NoCollision' /\ Clock!RetryAboveFloor'
  BY <1>6, <1>9 DEF ClockInv, Clock!NoCollision, Clock!RetryAboveFloor
<1>13. Clock!SkewBounded'
  <2> SUFFICES ASSUME NEW u \in Targets, last'[u] # None
               PROVE  last'[u] <= hiNow' + Cardinality(issued[u])
                        + (IF u \in raised' THEN MaxSkewMillis - FloorClampMillis ELSE 0)
    BY ClockCardinality DEF Clock!SkewBounded
  <2> DEFINE W == MaxSkewMillis - FloorClampMillis
             n == Cardinality(issued[u])
             S == IF u \in raised THEN W ELSE 0
  <2>1. W \in Nat /\ S \in Nat /\ S <= W
    BY ClockAssumption
  <2>2. n \in Nat
    BY FS_CardinalityType DEF ClockInv, CounterOK
  <2>3. last[u] # None => last[u] <= hiNow + n + S
    BY ClockCardinality DEF ClockInv, Clock!SkewBounded
  <2>4. last[u] \in Clock!Times \cup {None}
    BY <1>1 DEF Clock!TypeOK
  <2>5. /\ l \in Int /\ floor \in Int /\ now \in Int /\ hiNow \in Int /\ hiNow' \in Int
        /\ (last[u] # None => last[u] \in Int)
    BY <1>2, <1>3, <1>5, <2>4, ClockAssumption DEF Clock!Times
  <2>6. floor <= now + W
    BY <1>3
  <2> HIDE DEF W, n, S
  <2>7. CASE u # t
    <3>1. last'[u] = last[u] /\ (u \in raised' <=> u \in raised)
      BY <1>9, <2>7
    <3>2. last[u] <= hiNow' + n + S
      BY <1>5, <2>1, <2>2, <2>3, <2>5, <2>7, <3>1
    <3> QED
      BY <3>1, <3>2 DEF n, S, W
  <2>8. CASE u = t
    <3>1. l <= hiNow' + n + W
      <4>1. CASE l = floor
        BY <1>5, <2>1, <2>2, <2>5, <2>6, <4>1
      <4>2. CASE l # floor
        <5>1. l = last[u] /\ last[u] # None
          BY <1>3, <2>8, <4>2
        <5> QED
          BY <1>5, <2>1, <2>2, <2>3, <2>5, <5>1
      <4> QED
        BY <4>1, <4>2
    <3>2. last'[u] = l /\ u \in raised'
      BY <1>9, <2>8
    <3> QED
      BY <3>1, <3>2 DEF n, W
  <2> QED
    BY <2>7, <2>8
<1> QED
  BY <1>8, <1>10, <1>11, <1>12, <1>13 DEF ClockInv

\* A floor beyond the window is refused: only the clock was read.
LEMMA RefusedInv ==
  ASSUME ClockInv, NEW h \in Threads, NEW now \in Clock!Times, hiNow' = Clock!Later(hiNow, now),
         req' = [req EXCEPT ![h] = Clock!Idle], UNCHANGED <<last, raised, issued>>
  PROVE  ClockInv'
<1>1. Clock!TypeOK
  BY DEF ClockInv
<1>2. hiNow \in Clock!Times /\ hiNow' \in Clock!Times /\ hiNow' >= hiNow
  BY <1>1, LaterFacts DEF Clock!TypeOK
<1>3. Clock!TypeOK' /\ req'[h] = Clock!Idle /\ \A g \in Threads \ {h} : req'[g] = req[g]
  BY <1>1, <1>2 DEF Clock!TypeOK, Clock!Request
<1>4. \A t \in Targets : CounterOK(t)'
  BY DEF ClockInv, CounterOK
<1>5. \A g \in Threads : RequestOK(g)'
  <2> TAKE g \in Threads
  <2>1. CASE g = h
    BY <1>3, <2>1 DEF RequestOK, Clock!Idle
  <2>2. CASE g # h
    BY <1>3, <2>2 DEF ClockInv, RequestOK
  <2> QED
    BY <2>1, <2>2
<1>6. Clock!NoCollision' /\ Clock!RetryAboveFloor'
  BY <1>3 DEF ClockInv, Clock!NoCollision, Clock!RetryAboveFloor, Clock!Idle
<1>7. Clock!SkewBounded'
  <2> SUFFICES ASSUME NEW u \in Targets, last[u] # None
               PROVE  last[u] <= hiNow' + Cardinality(issued[u])
                        + (IF u \in raised THEN MaxSkewMillis - FloorClampMillis ELSE 0)
    BY ClockCardinality DEF Clock!SkewBounded
  <2> DEFINE n == Cardinality(issued[u])
             S == IF u \in raised THEN MaxSkewMillis - FloorClampMillis ELSE 0
  <2>1. S \in Nat
    BY ClockAssumption
  <2>2. n \in Nat
    BY FS_CardinalityType DEF ClockInv, CounterOK
  <2>3. last[u] <= hiNow + n + S
    BY ClockCardinality DEF ClockInv, Clock!SkewBounded
  <2>4. last[u] \in Int /\ hiNow \in Int /\ hiNow' \in Int
    BY <1>1, <1>2, ClockAssumption DEF Clock!TypeOK, Clock!Times
  <2> HIDE DEF n, S
  <2>5. last[u] <= hiNow' + n + S
    BY <1>2, <2>1, <2>2, <2>3, <2>4
  <2> QED
    BY <2>5 DEF n, S
<1> QED
  BY <1>3, <1>4, <1>5, <1>6, <1>7 DEF ClockInv

-----------------------------------------------------------------------------
(* Every step. *)

\* What a step does to the timestamps handed out.
Increasing == \A t \in Targets : \A ts \in issued'[t] \ issued[t], old \in issued[t] : ts > old

\* A step that takes a timestamp for t touches no other hub's.
LEMMA StampStep ==
  ASSUME ClockInv, NEW h \in Threads, NEW t \in Targets, NEW now \in Clock!Times,
         NEW floor \in Clock!Times \cup {None},
         floor # None => last[t] # None /\ floor <= last[t],
         Clock!Stamp(h, t, now, floor)
  PROVE  ClockInv' /\ Increasing
<1>1. ClockInv' /\ (\A ts \in issued'[t] \ issued[t], old \in issued[t] : ts > old)
  BY StampInv
<1>2. \A u \in Targets \ {t} : issued'[u] = issued[u]
  BY DEF Clock!Stamp, ClockInv, Clock!TypeOK
<1> QED
  BY <1>1, <1>2 DEF Increasing

\* Every step.
LEMMA NextClock == ClockInv /\ [Clock!Next]_(Clock!vars) => ClockInv' /\ (Increasing \/ UNCHANGED Clock!vars)
<1> SUFFICES ASSUME ClockInv, [Clock!Next]_(Clock!vars) PROVE ClockInv' /\ (Increasing \/ UNCHANGED Clock!vars)
  OBVIOUS
<1>1. CASE UNCHANGED Clock!vars
  BY <1>1 DEF Clock!vars, ClockInv, Clock!TypeOK, CounterOK, RequestOK, Clock!NoCollision, Clock!RetryAboveFloor, Clock!SkewBounded
<1>2. ASSUME NEW h \in Threads, NEW t \in Targets, Clock!Send(h, t) PROVE ClockInv' /\ Increasing
  <2>1. PICK now \in Clock!Times : Clock!Stamp(h, t, now, None)
    BY <1>2 DEF Clock!Send
  <2> QED
    BY <2>1, StampStep
<1>3. ASSUME NEW h \in Threads, Clock!Done(h) PROVE ClockInv' /\ Increasing
  <2>1. Clock!Idle \in Clock!Request /\ Clock!Idle.pc # "sent" /\ Clock!Idle.pc # "raised"
    BY DEF Clock!Request, Clock!Idle
  <2> QED
    BY <1>3, <2>1, RequestInv DEF Clock!Done, Increasing
<1>4. ASSUME NEW h \in Threads, Clock!Refuse(h) PROVE ClockInv' /\ Increasing
  <2>1. req[h].target \in Targets
    BY <1>4 DEF Clock!Refuse, ClockInv, Clock!TypeOK, Clock!Request, Clock!Idle
  <2>2. PICK floor \in Clock!Times :
          req' = [req EXCEPT ![h] = [pc |-> "stale", target |-> req[h].target, floor |-> floor]]
    BY <1>4 DEF Clock!Refuse
  <2> DEFINE r == [pc |-> "stale", target |-> req[h].target, floor |-> floor]
  <2>3. r \in Clock!Request /\ r.pc # "sent" /\ r.pc # "raised"
    BY <2>1 DEF Clock!Request
  <2>4. UNCHANGED <<last, issued, raised, hiNow>>
    BY <1>4 DEF Clock!Refuse
  <2> HIDE DEF r
  <2>5. req' = [req EXCEPT ![h] = r]
    BY <2>2 DEF r
  <2> QED
    BY <2>3, <2>4, <2>5, RequestInv DEF Increasing
<1>5. ASSUME NEW h \in Threads, Clock!RaiseFloor(h) PROVE ClockInv' /\ Increasing
  <2>1. req[h].pc = "stale" /\ req[h].target \in Targets /\ req[h].floor \in Clock!Times
    BY <1>5 DEF Clock!RaiseFloor, ClockInv, Clock!TypeOK, Clock!Request, Clock!Idle
  <2>2. PICK now \in Clock!Times :
          /\ hiNow' = Clock!Later(hiNow, now)
          /\ IF Clock!RaiseAccepts(req[h].floor, now)
             THEN /\ last' = [last EXCEPT ![req[h].target] = Clock!RaiseTo(@, req[h].floor)]
                  /\ raised' = raised \cup {req[h].target}
                  /\ req' = [req EXCEPT ![h] = [@ EXCEPT !.pc = "raised"]]
             ELSE /\ req' = [req EXCEPT ![h] = Clock!Idle]
                  /\ UNCHANGED <<last, raised>>
    BY <1>5 DEF Clock!RaiseFloor
  <2>3. UNCHANGED issued
    BY <1>5 DEF Clock!RaiseFloor
  <2>4. CASE Clock!RaiseAccepts(req[h].floor, now)
    <3>1. ClockInv'
      BY <2>1, <2>2, <2>3, <2>4, AdoptInv
    <3> QED
      BY <2>3, <3>1 DEF Increasing
  <2>5. CASE ~Clock!RaiseAccepts(req[h].floor, now)
    BY <2>2, <2>3, <2>5, RefusedInv DEF Increasing
  <2> QED
    BY <2>4, <2>5
<1>6. ASSUME NEW h \in Threads, Clock!Retry(h) PROVE ClockInv' /\ Increasing
  <2>1. req[h].pc = "raised" /\ req[h].target \in Targets /\ req[h].floor \in Clock!Times
    BY <1>6 DEF Clock!Retry, ClockInv, Clock!TypeOK, Clock!Request, Clock!Idle
  <2>2. last[req[h].target] # None /\ req[h].floor <= last[req[h].target]
    BY <2>1 DEF ClockInv, RequestOK
  <2>3. PICK now \in Clock!Times : Clock!Stamp(h, req[h].target, now, req[h].floor)
    BY <1>6 DEF Clock!Retry
  <2> QED
    BY <2>1, <2>2, <2>3, StampStep
<1> QED
  BY <1>1, <1>2, <1>3, <1>4, <1>5, <1>6 DEF Clock!Next

-----------------------------------------------------------------------------
(* The theorems. *)

\* The invariant holds in every reachable state.
THEOREM ClockInvariance == Clock!Spec => []ClockInv
<1>1. ClockInv /\ [Clock!Next]_(Clock!vars) => ClockInv'
  BY NextClock
<1> QED
  BY InitClock, <1>1, PTL DEF Clock!Spec

\* Every counter and every timestamp handed out (MonoClock.Next) is one of the int64 range.
THEOREM ClockTyping == Clock!Spec => []Clock!TypeOK
<1>1. ClockInv => Clock!TypeOK
  BY DEF ClockInv
<1> QED
  BY ClockInvariance, <1>1, PTL

\* Threads sharing a MonoClock never sign two requests to one hub with one timestamp, below
\* the last timestamp of the range.
THEOREM Distinct == Clock!Spec => []Clock!NoCollision
<1>1. ClockInv => Clock!NoCollision
  BY DEF ClockInv
<1> QED
  BY ClockInvariance, <1>1, PTL

\* After Raise returns true, the retry's Next is above the floor the hub named.
THEOREM Retried == Clock!Spec => []Clock!RetryAboveFloor
<1>1. ClockInv => Clock!RetryAboveFloor
  BY DEF ClockInv
<1> QED
  BY ClockInvariance, <1>1, PTL

\* No floor a hub names pushes a counter beyond the window (Raise's limit).
THEOREM Bounded == Clock!Spec => []Clock!SkewBounded
<1>1. ClockInv => Clock!SkewBounded
  BY DEF ClockInv
<1> QED
  BY ClockInvariance, <1>1, PTL

\* Timestamps to a hub are handed out in strictly increasing order (MonoClock.Next).
THEOREM Increases == Clock!Spec => StrictlyIncreasing
<1>1. ClockInv /\ [Clock!Next]_(Clock!vars) => [Increasing]_(Clock!vars)
  BY NextClock
<1> QED
  BY ClockInvariance, <1>1, PTL DEF Clock!Spec, StrictlyIncreasing, Clock!StrictlyIncreasing, Increasing

\* All of StampsSound, for any number of threads and hubs and any int64 width.
THEOREM ClockSound == Clock!Spec => []StampsSound
<1>1. Clock!TypeOK /\ Clock!NoCollision /\ Clock!RetryAboveFloor /\ Clock!SkewBounded => StampsSound
  BY DEF StampsSound, Clock!StampsSound
<1> QED
  BY <1>1, ClockTyping, Distinct, Retried, Bounded, PTL
=============================================================================
