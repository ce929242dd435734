------------------------------ MODULE ListFacts ------------------------------
(***************************************************************************)
(* Facts that the proofs share: about the least and the greatest of a set  *)
(* of numbers, and about lists without repetitions (the queue and the idle *)
(* threads of a pool, the uploads of a page).                              *)
(***************************************************************************)
EXTENDS Naturals, FiniteSets, Sequences, SequencesExt, FiniteSetTheorems, SequenceTheorems,
        NaturalsInduction, WellFoundedInduction, TLAPS

\* Of a list, the members of T that fewer than `room` others come before.
Before(list, T, k) == {l \in 1 .. k - 1 : list[l] \in T}
FirstOnes(list, T, room) ==
    {list[k] : k \in {k \in DOMAIN list : list[k] \in T /\ Cardinality(Before(list, T, k)) < room}}

LEMMA LeastOf ==
  ASSUME NEW S \in SUBSET Nat, S # {}
  PROVE  \E m \in S : \A n \in S : m <= n
  <1>1. IsWellFoundedOn(OpToRel(<, Nat), Nat)
    BY NatLessThanWellFounded
  <1>2. \E m \in S : \A n \in S : ~ (<<n, m>> \in OpToRel(<, Nat))
    BY <1>1, WFMin
  <1>3. \E m \in S : \A n \in S : ~ (n < m)
    BY <1>2 DEF OpToRel
  <1> QED
    BY <1>3

\* A finite set of numbers has a greatest one.
LEMMA GreatestOf ==
  ASSUME NEW S \in SUBSET Nat, IsFiniteSet(S), S # {}
  PROVE  \E m \in S : \A n \in S : n <= m
  <1> DEFINE Top(T) == \E m \in T : \A n \in T : n <= m
             Fails(T) == T \in SUBSET Nat /\ IsFiniteSet(T) /\ T # {} /\ ~Top(T)
             Bad == {n \in Nat : \E T : Fails(T) /\ Cardinality(T) = n}
  <1> SUFFICES ASSUME Fails(S) PROVE FALSE
    OBVIOUS
  <1>1. Cardinality(S) \in Bad
    BY FS_CardinalityType
  <1>2. PICK m \in Bad : \A n \in Bad : m <= n
    <2>1. Bad \in SUBSET Nat
      OBVIOUS
    <2> HIDE DEF Bad
    <2> QED
      BY <1>1, <2>1, LeastOf
  <1>3. PICK T : Fails(T) /\ Cardinality(T) = m
    BY <1>2
  <1>4. PICK x : x \in T
    BY <1>3
  <1> DEFINE U == T \ {x}
  <1>5. IsFiniteSet(U) /\ Cardinality(U) = m - 1 /\ Cardinality(U) \in Nat /\ m \in Nat
    BY <1>2, <1>3, <1>4, FS_RemoveElement, FS_CardinalityType
  <1>6. ~Fails(U)
    <2>1. ~(m <= m - 1)
      BY <1>5
    <2> HIDE DEF Fails, U
    <2> QED
      BY <1>2, <1>5, <2>1
  <1>7. CASE U = {}
    BY <1>3, <1>4, <1>7
  <1>8. CASE U # {}
    <2>1. PICK y \in U : \A n \in U : n <= y
      BY <1>3, <1>5, <1>6, <1>8
    <2>2. x \in Nat /\ y \in Nat /\ T \subseteq Nat
      BY <1>3, <1>4, <2>1
    <2>3. IF y <= x THEN \A n \in T : n <= x ELSE \A n \in T : n <= y
      BY <1>4, <2>1, <2>2
    <2> QED
      BY <1>3, <1>4, <2>1, <2>3
  <1> QED
    BY <1>7, <1>8

\* The image of numbers under a list without repetitions has as many members.
LEMMA AsManyItems ==
  ASSUME NEW list, NEW B, IsFiniteSet(B), B \subseteq DOMAIN list,
         \A k, l \in DOMAIN list : list[k] = list[l] => k = l
  PROVE  IsFiniteSet({list[l] : l \in B}) /\ Cardinality({list[l] : l \in B}) = Cardinality(B)
  <1> DEFINE T == {list[l] : l \in B}
             f == [l \in B |-> list[l]]
  <1>1. f \in Bijection(B, T)
    <2>1. f \in [B -> T] /\ \A k, l \in B : f[k] = f[l] => k = l
      OBVIOUS
    <2>2. \A x \in T : \E l \in B : f[l] = x
      OBVIOUS
    <2> HIDE DEF f, T
    <2> QED
      BY <2>1, <2>2 DEF Bijection, Injection, Surjection, IsInjective
  <1> QED
    BY <1>1, FS_Bijection DEF ExistsBijection

\* They are all of T, or as many as there is room for.
LEMMA FirstOnesFillRoom ==
  ASSUME NEW X, NEW list \in Seq(X), NEW T, NEW room \in Nat,
         \A k, l \in DOMAIN list : list[k] = list[l] => k = l
  PROVE  LET S == FirstOnes(list, T, room)
         IN  /\ IsFiniteSet(S) /\ S \subseteq T \cap Range(list) /\ Cardinality(S) <= room
             /\ \A x \in (T \cap Range(list)) \ S : Cardinality(S) = room
  <1> DEFINE n == Len(list)
             B(k) == Before(list, T, k)
             K == {k \in DOMAIN list : list[k] \in T /\ Cardinality(B(k)) < room}
             S == FirstOnes(list, T, room)
  <1>1. n \in Nat /\ DOMAIN list = 1 .. n /\ S = {list[k] : k \in K} /\ K \subseteq 1 .. n
    BY DEF FirstOnes
  <1>2. \A k \in 1 .. n : B(k) \subseteq 1 .. n /\ IsFiniteSet(B(k)) /\ Cardinality(B(k)) \in Nat
    <2> SUFFICES ASSUME NEW k \in 1 .. n
                 PROVE  B(k) \subseteq 1 .. n /\ IsFiniteSet(B(k)) /\ Cardinality(B(k)) \in Nat
      OBVIOUS
    <2>1. B(k) \subseteq 1 .. n
      BY <1>1 DEF Before
    <2>2. IsFiniteSet(1 .. n)
      BY <1>1, FS_Interval
    <2> QED
      BY <2>1, <2>2, FS_Subset, FS_CardinalityType
  <1>3. IsFiniteSet(K)
    <2>1. IsFiniteSet(1 .. n) /\ K \subseteq 1 .. n
      BY <1>1, FS_Interval
    <2> HIDE DEF K
    <2> QED
      BY <2>1, FS_Subset
  <1>4. IsFiniteSet(S) /\ Cardinality(S) = Cardinality(K) /\ Cardinality(K) \in Nat
    BY <1>1, <1>3, AsManyItems, FS_CardinalityType
  <1>5. S \subseteq T \cap Range(list)
    BY <1>1 DEF Range
  <1>6. Cardinality(K) <= room
    <2>1. CASE K = {}
      BY <2>1, FS_EmptySet
    <2>2. CASE K # {}
      <3>1. PICK m \in K : \A k \in K : k <= m
        <4> DEFINE R == {n - k : k \in K}
        <4>1. R \subseteq Nat /\ R # {}
          BY <1>1, <2>2
        <4>2. PICK r \in R : \A q \in R : r <= q
          BY <4>1, LeastOf
        <4>3. PICK m \in K : r = n - m
          BY <4>2
        <4>4. ASSUME NEW k \in K PROVE k <= m
          <5>1. n - m <= n - k
            BY <4>2, <4>3
          <5>2. k \in 1 .. n /\ m \in 1 .. n
            BY <1>1
          <5> HIDE DEF K, n
          <5> QED
            BY <1>1, <5>1, <5>2
        <4> QED
          BY <4>3, <4>4
      <3>2. m \in 1 .. n /\ Cardinality(B(m)) < room
        BY <1>1
      <3>3. K \subseteq B(m) \cup {m}
        <4> SUFFICES ASSUME NEW k \in K, k # m PROVE k \in B(m)
          OBVIOUS
        <4>1. k \in 1 .. n /\ k <= m /\ list[k] \in T /\ m \in 1 .. n
          BY <1>1, <3>1
        <4> QED
          BY <1>1, <4>1 DEF Before
      <3>4. IsFiniteSet(B(m) \cup {m}) /\ Cardinality(B(m) \cup {m}) <= Cardinality(B(m)) + 1
        <4> DEFINE C == B(m)
        <4>1. IsFiniteSet(C) /\ Cardinality(C) \in Nat
          BY <1>2, <3>2
        <4> HIDE DEF C
        <4>2. /\ IsFiniteSet(C \cup {m})
              /\ Cardinality(C \cup {m}) = IF m \in C THEN Cardinality(C) ELSE Cardinality(C) + 1
          BY <4>1, FS_AddElement
        <4>3. Cardinality(C \cup {m}) <= Cardinality(C) + 1
          BY <4>1, <4>2
        <4> QED
          BY <4>2, <4>3 DEF C
      <3>5. Cardinality(K) <= Cardinality(B(m) \cup {m}) /\ Cardinality(B(m) \cup {m}) \in Nat
        BY <3>3, <3>4, FS_Subset, FS_CardinalityType
      <3>6. Cardinality(B(m)) \in Nat
        BY <1>2, <3>2
      <3> HIDE DEF K, B
      <3> QED
        BY <1>4, <3>2, <3>4, <3>5, <3>6
    <2> QED
      BY <2>1, <2>2
  <1>7. ASSUME NEW x \in (T \cap Range(list)) \ S PROVE Cardinality(K) >= room
    <2> DEFINE Q == {k \in 1 .. n : list[k] \in T /\ k \notin K}
    <2>1. Q \subseteq Nat /\ Q # {}
      <3>1. PICK k \in 1 .. n : x = list[k]
        BY <1>1, <1>7 DEF Range
      <3>2. k \notin K
        BY <1>1, <1>7, <3>1
      <3> QED
        BY <1>1, <1>7, <3>1, <3>2
    <2>2. PICK q \in Q : \A k \in Q : q <= k
      BY <2>1, LeastOf
    <2>3. q \in 1 .. n /\ ~(Cardinality(B(q)) < room)
      BY <1>1, <2>2
    <2>4. B(q) \subseteq K
      <3> SUFFICES ASSUME NEW l \in B(q), l \notin K PROVE FALSE
        OBVIOUS
      <3>1. l \in 1 .. q - 1 /\ list[l] \in T /\ q \in 1 .. n
        BY <2>3 DEF Before
      <3>2. l \in Q
        BY <1>1, <3>1
      <3>3. q <= l
        BY <2>2, <3>2
      <3> QED
        BY <1>1, <3>1, <3>3
    <2>5. Cardinality(B(q)) <= Cardinality(K) /\ Cardinality(B(q)) \in Nat
      BY <1>2, <1>3, <2>3, <2>4, FS_Subset
    <2> HIDE DEF K, B
    <2> QED
      BY <1>4, <2>3, <2>5
  <1>8. \A x \in (T \cap Range(list)) \ S : Cardinality(S) = room
    BY <1>4, <1>6, <1>7
  <1> HIDE DEF S, K
  <1>9. IsFiniteSet(S) /\ S \subseteq T \cap Range(list) /\ Cardinality(S) <= room
    BY <1>4, <1>5, <1>6
  <1> QED
    BY <1>8, <1>9 DEF S

\* A list without one of its members.
Without(s, i) == RemoveAt(s, CHOOSE k \in DOMAIN s : s[k] = i)

LEMMA RemoveOne ==
  ASSUME NEW X, NEW s \in Seq(X), NEW i \in Range(s),
         \A k, l \in DOMAIN s : s[k] = s[l] => k = l
  PROVE  /\ Without(s, i) \in Seq(X)
         /\ \A k, l \in DOMAIN Without(s, i) : Without(s, i)[k] = Without(s, i)[l] => k = l
         /\ Range(Without(s, i)) = Range(s) \ {i}
  <1> DEFINE n == Len(s)
             m == CHOOSE k \in DOMAIN s : s[k] = i
             a == SubSeq(s, 1, m - 1)
             b == SubSeq(s, m + 1, n)
             w == a \o b
  <1>1. n \in Nat /\ DOMAIN s = 1 .. n /\ m \in 1 .. n /\ s[m] = i
    <2>1. \E k \in DOMAIN s : s[k] = i
      BY DEF Range
    <2> QED
      BY <2>1
  <1>2. Without(s, i) = w
    BY DEF Without, RemoveAt
  <1> HIDE DEF m
  <1>3. /\ a \in Seq(X) /\ Len(a) = m - 1 /\ \A k \in 1 .. m - 1 : a[k] = s[k]
        /\ b \in Seq(X) /\ Len(b) = n - m /\ \A k \in 1 .. n - m : b[k] = s[m + k]
    <2>1. m \in Nat /\ m >= 1 /\ m <= n /\ n \in Nat
      BY <1>1
    <2>2. a \in Seq(X) /\ Len(a) = m - 1 /\ \A k \in 1 .. m - 1 : a[k] = s[k]
      BY <1>1, <2>1
    <2>3. \A k \in m + 1 .. n : s[k] \in X
      BY <1>1, <2>1
    <2>4. /\ b \in Seq(X) /\ Len(b) = IF m + 1 <= n THEN n - (m + 1) + 1 ELSE 0
          /\ \A k \in 1 .. n - (m + 1) + 1 : b[k] = s[(m + 1) + k - 1]
      BY <2>1, <2>3, SubSeqProperties
    <2>5. Len(b) = n - m /\ n - (m + 1) + 1 = n - m
      BY <2>1, <2>4
    <2>6. ASSUME NEW k \in 1 .. n - m PROVE b[k] = s[m + k]
      <3>1. (m + 1) + k - 1 = m + k
        BY <2>1
      <3> QED
        BY <2>4, <2>5, <3>1
    <2> QED
      BY <2>2, <2>4, <2>5, <2>6
  <1> HIDE DEF a, b, n
  <1>4. /\ w \in Seq(X) /\ Len(w) = n - 1
        /\ \A k \in 1 .. n - 1 : w[k] = IF k < m THEN s[k] ELSE s[k + 1]
    <2>1. w \in Seq(X) /\ Len(w) = n - 1
      <3>1. w \in Seq(X) /\ Len(w) = Len(a) + Len(b)
        <4>1. a \in Seq(X) /\ b \in Seq(X)
          BY <1>3
        <4> QED
          BY <4>1
      <3>2. Len(a) + Len(b) = n - 1
        BY <1>1, <1>3
      <3> QED
        BY <3>1, <3>2
    <2>2. ASSUME NEW k \in 1 .. n - 1, k < m PROVE w[k] = s[k]
      BY <1>1, <1>3, <2>2
    <2>3. ASSUME NEW k \in 1 .. n - 1, ~(k < m) PROVE w[k] = s[k + 1]
      <3>1. w[k] = b[k - (m - 1)] /\ k - (m - 1) \in 1 .. n - m
        BY <1>1, <1>3, <2>3
      <3>2. b[k - (m - 1)] = s[m + (k - (m - 1))] /\ m + (k - (m - 1)) = k + 1
        BY <1>1, <1>3, <2>3, <3>1
      <3> QED
        BY <3>1, <3>2
    <2> QED
      BY <2>1, <2>2, <2>3
  <1> HIDE DEF w
  <1>5. DOMAIN w = 1 .. n - 1
    BY <1>1, <1>4
  <1>6. ASSUME NEW k \in 1 .. n - 1, NEW l \in 1 .. n - 1, w[k] = w[l] PROVE k = l
    <2> DEFINE at(x) == IF x < m THEN x ELSE x + 1
    <2>1. at(k) \in 1 .. n /\ at(l) \in 1 .. n
      BY <1>1
    <2>2. s[at(k)] = s[at(l)]
      BY <1>4, <1>6
    <2>3. at(k) = at(l)
      BY <1>1, <2>1, <2>2
    <2> QED
      BY <1>1, <2>3
  <1>7. Range(w) = Range(s) \ {i}
    <2>1. ASSUME NEW k \in 1 .. n - 1 PROVE w[k] \in Range(s) \ {i}
      <3> DEFINE x == IF k < m THEN k ELSE k + 1
      <3>1. x \in 1 .. n /\ x # m /\ m \in 1 .. n
        BY <1>1
      <3>2. w[k] = s[x]
        BY <1>4
      <3> HIDE DEF x
      <3>3. s[x] \in Range(s) /\ s[x] # i
        BY <1>1, <3>1 DEF Range
      <3> QED
        BY <3>2, <3>3
    <2>2. ASSUME NEW k \in 1 .. n, s[k] # i PROVE \E l \in 1 .. n - 1 : w[l] = s[k]
      <3>1. CASE k < m
        <4>1. k \in 1 .. n - 1
          BY <1>1, <3>1
        <4> QED
          BY <1>4, <3>1, <4>1
      <3>2. CASE k > m
        <4>1. k - 1 \in 1 .. n - 1 /\ ~(k - 1 < m) /\ (k - 1) + 1 = k
          BY <1>1, <3>2
        <4> QED
          BY <1>4, <4>1
      <3> QED
        BY <1>1, <2>2, <3>1, <3>2
    <2>3. Range(w) = {w[k] : k \in 1 .. n - 1} /\ Range(s) = {s[k] : k \in 1 .. n}
      BY <1>1, <1>5 DEF Range
    <2> QED
      BY <2>1, <2>2, <2>3
  <1> QED
    BY <1>2, <1>4, <1>5, <1>6, <1>7

LEMMA AppendOne ==
  ASSUME NEW X, NEW s \in Seq(X), NEW i \in X, i \notin Range(s),
         \A k, l \in DOMAIN s : s[k] = s[l] => k = l
  PROVE  /\ Append(s, i) \in Seq(X)
         /\ \A k, l \in DOMAIN Append(s, i) : Append(s, i)[k] = Append(s, i)[l] => k = l
         /\ Range(Append(s, i)) = Range(s) \cup {i}
  <1> DEFINE n == Len(s)
             w == Append(s, i)
  <1>1. n \in Nat /\ DOMAIN s = 1 .. n /\ \A k \in 1 .. n : s[k] # i
    BY DEF Range
  <1>2. w \in Seq(X) /\ DOMAIN w = 1 .. n + 1 /\ w[n + 1] = i /\ \A k \in 1 .. n : w[k] = s[k]
    BY <1>1
  <1> HIDE DEF w, n
  <1>3. ASSUME NEW k \in 1 .. n + 1, NEW l \in 1 .. n + 1, w[k] = w[l] PROVE k = l
    BY <1>1, <1>2, <1>3
  <1>4. Range(w) = Range(s) \cup {i}
    BY <1>1, <1>2 DEF Range
  <1> QED
    BY <1>2, <1>3, <1>4 DEF w

\* A list without its first, and without its last member.
LEMMA TailOne ==
  ASSUME NEW X, NEW s \in Seq(X), s # <<>>, \A k, l \in DOMAIN s : s[k] = s[l] => k = l
  PROVE  /\ Tail(s) \in Seq(X) /\ Len(Tail(s)) = Len(s) - 1
         /\ \A k, l \in DOMAIN Tail(s) : Tail(s)[k] = Tail(s)[l] => k = l
         /\ Range(s) = Range(Tail(s)) \cup {s[1]} /\ s[1] \notin Range(Tail(s)) /\ s[1] \in X
         /\ Head(s) = s[1]
  <1> DEFINE n == Len(s)
             w == Tail(s)
  <1>1. n \in Nat /\ n >= 1 /\ DOMAIN s = 1 .. n /\ 1 \in 1 .. n
    OBVIOUS
  <1>2. w \in Seq(X) /\ Len(w) = n - 1 /\ DOMAIN w = 1 .. n - 1 /\ \A k \in 1 .. n - 1 : w[k] = s[k + 1]
    BY <1>1
  <1>3. s[1] \in X /\ Head(s) = s[1]
    BY <1>1
  <1> HIDE DEF w, n
  <1>4. ASSUME NEW k \in 1 .. n - 1, NEW l \in 1 .. n - 1, w[k] = w[l] PROVE k = l
    <2>1. k + 1 \in 1 .. n /\ l + 1 \in 1 .. n /\ s[k + 1] = s[l + 1]
      BY <1>1, <1>2, <1>4
    <2>2. k + 1 = l + 1
      BY <1>1, <2>1
    <2> QED
      BY <1>1, <2>2
  <1>5. ASSUME NEW k \in 1 .. n - 1 PROVE w[k] \in Range(s) /\ w[k] # s[1]
    <2>1. k + 1 \in 1 .. n /\ k + 1 # 1 /\ w[k] = s[k + 1]
      BY <1>1, <1>2
    <2> QED
      BY <1>1, <2>1 DEF Range
  <1>6. ASSUME NEW k \in 1 .. n, k # 1 PROVE s[k] \in Range(w)
    <2>1. k - 1 \in 1 .. n - 1 /\ (k - 1) + 1 = k
      BY <1>1, <1>6
    <2>2. w[k - 1] = s[k]
      BY <1>2, <2>1
    <2> QED
      BY <1>2, <2>1, <2>2 DEF Range
  <1>7. Range(w) = {w[k] : k \in 1 .. n - 1} /\ Range(s) = {s[k] : k \in 1 .. n}
    BY <1>1, <1>2 DEF Range
  <1>8. Range(s) = Range(w) \cup {s[1]} /\ s[1] \notin Range(w)
    BY <1>1, <1>5, <1>6, <1>7
  <1> QED
    BY <1>2, <1>3, <1>4, <1>8 DEF n, w

LEMMA FrontOne ==
  ASSUME NEW X, NEW s \in Seq(X), s # <<>>, \A k, l \in DOMAIN s : s[k] = s[l] => k = l
  PROVE  LET w == SubSeq(s, 1, Len(s) - 1)
         IN  /\ w \in Seq(X) /\ Len(w) = Len(s) - 1
             /\ \A k, l \in DOMAIN w : w[k] = w[l] => k = l
             /\ Range(s) = Range(w) \cup {s[Len(s)]} /\ s[Len(s)] \notin Range(w) /\ s[Len(s)] \in X
  <1> DEFINE n == Len(s)
             w == SubSeq(s, 1, n - 1)
  <1>1. n \in Nat /\ n >= 1 /\ DOMAIN s = 1 .. n /\ n \in 1 .. n
    OBVIOUS
  <1>2. w \in Seq(X) /\ Len(w) = n - 1 /\ DOMAIN w = 1 .. n - 1 /\ \A k \in 1 .. n - 1 : w[k] = s[k]
    BY <1>1
  <1> HIDE DEF w, n
  <1>3. \A k \in 1 .. n - 1 : k \in 1 .. n /\ k # n
    BY <1>1
  <1>4. \A k \in 1 .. n : k # n => k \in 1 .. n - 1
    BY <1>1
  <1>5. Range(w) = {w[k] : k \in 1 .. n - 1} /\ Range(s) = {s[k] : k \in 1 .. n}
    BY <1>1, <1>2 DEF Range
  <1>6. Range(s) = Range(w) \cup {s[n]} /\ s[n] \notin Range(w)
    BY <1>1, <1>2, <1>3, <1>4, <1>5
  <1>7. \A k, l \in DOMAIN w : w[k] = w[l] => k = l
    BY <1>1, <1>2, <1>3
  <1>8. s[n] \in X
    BY <1>1
  <1> QED
    BY <1>2, <1>6, <1>7, <1>8 DEF n, w

\* Head and tail have the members of a list, and two lists joined those of both.
LEMMA RangeOfTail ==
  ASSUME NEW X, NEW s \in Seq(X), s # <<>>
  PROVE  Head(s) \in X /\ Tail(s) \in Seq(X) /\ Range(s) = {Head(s)} \cup Range(Tail(s))
  <1> DEFINE n == Len(s)
             w == Tail(s)
  <1>1. n \in Nat /\ n >= 1 /\ DOMAIN s = 1 .. n /\ 1 \in 1 .. n /\ Head(s) = s[1]
    OBVIOUS
  <1>2. w \in Seq(X) /\ DOMAIN w = 1 .. n - 1 /\ \A k \in 1 .. n - 1 : w[k] = s[k + 1]
    BY <1>1
  <1> HIDE DEF w, n
  <1>3. Range(w) = {w[k] : k \in 1 .. n - 1} /\ Range(s) = {s[k] : k \in 1 .. n}
    BY <1>1, <1>2 DEF Range
  <1>4. ASSUME NEW k \in 1 .. n, k # 1 PROVE s[k] \in Range(w)
    <2>1. k - 1 \in 1 .. n - 1 /\ (k - 1) + 1 = k
      BY <1>1, <1>4
    <2>2. w[k - 1] = s[k]
      BY <1>2, <2>1
    <2> QED
      BY <1>3, <2>1, <2>2
  <1>5. ASSUME NEW k \in 1 .. n - 1 PROVE w[k] \in Range(s)
    <2>1. k + 1 \in 1 .. n
      BY <1>1
    <2> QED
      BY <1>2, <1>3, <2>1
  <1>6. Range(s) = {s[1]} \cup Range(w)
    BY <1>1, <1>3, <1>4, <1>5
  <1>7. s[1] \in X
    BY <1>1
  <1> QED
    BY <1>1, <1>2, <1>6, <1>7 DEF w

LEMMA RangeOfBoth ==
  ASSUME NEW X, NEW s \in Seq(X), NEW t \in Seq(X)
  PROVE  s \o t \in Seq(X) /\ Range(s \o t) = Range(s) \cup Range(t)
  <1> DEFINE n == Len(s)
             m == Len(t)
             w == s \o t
  <1>1. n \in Nat /\ m \in Nat /\ DOMAIN s = 1 .. n /\ DOMAIN t = 1 .. m
    OBVIOUS
  <1>2. /\ w \in Seq(X) /\ DOMAIN w = 1 .. n + m
        /\ \A k \in 1 .. n + m : w[k] = IF k <= n THEN s[k] ELSE t[k - n]
    BY <1>1
  <1> HIDE DEF w, n, m
  <1>3. Range(w) = {w[k] : k \in 1 .. n + m} /\ Range(s) = {s[k] : k \in 1 .. n} /\ Range(t) = {t[k] : k \in 1 .. m}
    BY <1>1, <1>2 DEF Range
  <1>4. ASSUME NEW k \in 1 .. n PROVE s[k] \in Range(w)
    <2>1. k \in 1 .. n + m /\ k <= n
      BY <1>1
    <2> QED
      BY <1>2, <1>3, <2>1
  <1>5. ASSUME NEW k \in 1 .. m PROVE t[k] \in Range(w)
    <2>1. n + k \in 1 .. n + m /\ ~(n + k <= n) /\ (n + k) - n = k
      BY <1>1
    <2>2. w[n + k] = t[k]
      BY <1>2, <2>1
    <2> QED
      BY <1>3, <2>1, <2>2
  <1>6. ASSUME NEW k \in 1 .. n + m PROVE w[k] \in Range(s) \cup Range(t)
    <2>1. k <= n => k \in 1 .. n
      BY <1>1
    <2>2. ~(k <= n) => k - n \in 1 .. m
      BY <1>1
    <2> QED
      BY <1>2, <1>3, <2>1, <2>2
  <1>7. Range(w) = Range(s) \cup Range(t)
    BY <1>3, <1>4, <1>5, <1>6
  <1> QED
    BY <1>2, <1>7 DEF w

\* Finitely many numbers can be put in order.
LEMMA NumbersInOrder ==
  ASSUME NEW S \in SUBSET Nat, IsFiniteSet(S)
  PROVE  \E s \in [1 .. Cardinality(S) -> S] : Range(s) = S /\ \A i, j \in DOMAIN s : i < j => s[i] < s[j]
  <1> DEFINE Sorts(s, T) == Range(s) = T /\ \A i, j \in DOMAIN s : i < j => s[i] < s[j]
             Sorted(T) == \E s \in [1 .. Cardinality(T) -> T] : Sorts(s, T)
             Fails(T) == T \in SUBSET Nat /\ IsFiniteSet(T) /\ ~Sorted(T)
             Bad == {n \in Nat : \E T : Fails(T) /\ Cardinality(T) = n}
  <1> SUFFICES ASSUME Fails(S) PROVE FALSE
    OBVIOUS
  <1>1. Cardinality(S) \in Bad
    BY FS_CardinalityType
  <1>2. PICK m \in Bad : \A n \in Bad : m <= n
    <2>1. Bad \in SUBSET Nat
      OBVIOUS
    <2> HIDE DEF Bad
    <2> QED
      BY <1>1, <2>1, LeastOf
  <1>3. PICK T : Fails(T) /\ Cardinality(T) = m
    BY <1>2
  <1>4. CASE T = {}
    <2> DEFINE s == [i \in 1 .. 0 |-> i]
    <2>1. Cardinality(T) = 0
      BY <1>4, FS_EmptySet
    <2>2. s \in [1 .. 0 -> T] /\ Sorts(s, T)
      BY <1>4 DEF Range
    <2> QED
      BY <1>3, <2>1, <2>2
  <1>5. CASE T # {}
    <2>1. T \in SUBSET Nat /\ IsFiniteSet(T)
      BY <1>3
    <2>2. PICK top \in T : \A n \in T : n <= top
      BY <1>5, <2>1, GreatestOf
    <2> DEFINE U == T \ {top}
    <2>3. IsFiniteSet(U) /\ Cardinality(U) = m - 1 /\ Cardinality(U) \in Nat /\ m \in Nat /\ U \in SUBSET Nat
      BY <1>2, <1>3, <2>1, <2>2, FS_RemoveElement, FS_CardinalityType
    <2>4. ~Fails(U)
      <3>1. ~(m <= m - 1)
        BY <2>3
      <3> HIDE DEF Fails, U
      <3> QED
        BY <1>2, <2>3, <3>1
    <2>5. Sorted(U)
      BY <2>3, <2>4
    <2>6. PICK u \in [1 .. m - 1 -> U] : Sorts(u, U)
      BY <2>3, <2>5
    <2> DEFINE s == [i \in 1 .. m |-> IF i = m THEN top ELSE u[i]]
    <2>7. m >= 1
      BY <2>3
    <2>8. \A i \in 1 .. m - 1 : u[i] \in T /\ u[i] # top /\ u[i] < top
      <3> SUFFICES ASSUME NEW i \in 1 .. m - 1 PROVE u[i] \in T /\ u[i] # top /\ u[i] < top
        OBVIOUS
      <3>1. u[i] \in T /\ u[i] # top
        BY <2>6
      <3>2. u[i] \in Nat /\ top \in Nat /\ u[i] <= top
        BY <2>1, <2>2, <3>1
      <3> QED
        BY <3>1, <3>2
    <2>9. s \in [1 .. m -> T]
      BY <2>2, <2>3, <2>7, <2>8
    <2>10. ASSUME NEW i \in 1 .. m, NEW j \in 1 .. m, i < j PROVE s[i] < s[j]
      BY <2>3, <2>6, <2>8, <2>10
    <2>11. Range(s) = T
      <3>1. U = {u[i] : i \in 1 .. m - 1}
        BY <2>6 DEF Range
      <3>2. \A x \in U : \E i \in 1 .. m : s[i] = x
        <4> SUFFICES ASSUME NEW x \in U PROVE \E i \in 1 .. m : s[i] = x
          OBVIOUS
        <4>1. PICK i \in 1 .. m - 1 : u[i] = x
          BY <3>1
        <4> QED
          BY <2>3, <4>1
      <3>3. s[m] = top /\ m \in 1 .. m
        BY <2>3, <2>7
      <3>4. Range(s) = {s[i] : i \in 1 .. m}
        BY DEF Range
      <3> HIDE DEF s
      <3> QED
        BY <2>2, <2>9, <3>2, <3>3, <3>4
    <2>12. Sorts(s, T)
      BY <2>10, <2>11
    <2> HIDE DEF s, Sorts
    <2>13. Sorted(T)
      BY <1>3, <2>9, <2>12
    <2> QED
      BY <1>3, <2>13
  <1> QED
    BY <1>4, <1>5
=============================================================================
