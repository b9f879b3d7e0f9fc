---------------------------- MODULE DoctorProofs ----------------------------
(***************************************************************************)
(* Proofs about models.yaml and the profiles for every set of models,      *)
(* roles, commands and files: what a choice makes of both views of the     *)
(* preferences, what the guard of models.yaml is worth, which change       *)
(* verify.sh can accept, and that time never makes a profile current       *)
(* again.                                                                  *)
(***************************************************************************)
EXTENDS Doctor, SequenceTheorems, FiniteSetTheorems, TLAPS

-----------------------------------------------------------------------------
(* Finite sets in order.                                                    *)

LEMMA LeastNatural ==
    ASSUME NEW T, T \subseteq Nat, T # {}
    PROVE  \E n \in T : \A m \in T : n <= m
<1> DEFINE R == {ss \in Nat \X Nat : ss[1] < ss[2]}
<1>1. IsWellFoundedOn(R, Nat)
  BY NatLessThanWellFounded, Zenon DEF OpToRel
<1>2. PICK x \in T : \A y \in T : ~ (<<y, x>> \in R)
  <2> HIDE DEF R
  <2> QED BY <1>1, WFMin
<1>3. \A y \in T : x <= y
  <2> TAKE y \in T
  <2>1. <<y, x>> \notin R
    BY <1>2
  <2> QED BY <2>1
<1> QED BY <1>3

\* p goes through S, n places, in the order R.
Orders(p, n, S, R) ==
    /\ p \in [1..n -> S]
    /\ \A j, k \in 1..n : j < k => <<p[j], p[k]>> \in R
    /\ \A x \in S : \E k \in 1..n : p[k] = x

StrictOrder(S, R) ==
    /\ \A x \in S : <<x, x>> \notin R
    /\ \A x, y, z \in S : <<x, y>> \in R /\ <<y, z>> \in R => <<x, z>> \in R
    /\ \A x, y \in S : x # y => <<x, y>> \in R \/ <<y, x>> \in R

\* As many places as elements, in order: none is left out.
LEMMA OrderedIsAll ==
    ASSUME NEW S, IsFiniteSet(S), NEW R, \A x \in S : <<x, x>> \notin R,
           NEW p \in [1..Cardinality(S) -> S],
           \A j, k \in 1..Cardinality(S) : j < k => <<p[j], p[k]>> \in R
    PROVE  Orders(p, Cardinality(S), S, R)
<1> DEFINE n == Cardinality(S)
<1>1. n \in Nat
  BY FS_CardinalityType
<1>2. ASSUME NEW j \in 1..n, NEW k \in 1..n, p[j] = p[k] PROVE j = k
  <2>1. j \in Nat /\ k \in Nat /\ p[j] \in S /\ p[k] \in S
    OBVIOUS
  <2>2. ~(j < k) /\ ~(k < j)
    BY <1>2, <2>1
  <2> QED BY <2>1, <2>2
<1>3. p \in Injection(1..n, S)
  BY <1>2 DEF Injection, IsInjective
<1>4. IsFiniteSet(1..n) /\ Cardinality(1..n) = n
  BY <1>1, FS_Interval
<1> HIDE DEF n
<1>5. p \in Surjection(1..n, S)
  BY <1>3, <1>4, FS_Injection DEF n
<1> QED BY <1>5 DEF Orders, Surjection, n

\* A finite set has its elements in order: the place of an element is the number
\* of those up to it.
LEMMA FiniteIsOrdered ==
    ASSUME NEW S, IsFiniteSet(S), NEW R, StrictOrder(S, R)
    PROVE  \E p \in [1..Cardinality(S) -> S] :
              \A j, k \in 1..Cardinality(S) : j < k => <<p[j], p[k]>> \in R
<1> DEFINE n == Cardinality(S)
           upto(x) == {y \in S : y = x \/ <<y, x>> \in R}
           rank == [x \in S |-> Cardinality(upto(x))]
<1>1. n \in Nat
  BY FS_CardinalityType
<1>2. ASSUME NEW x \in S
      PROVE  IsFiniteSet(upto(x)) /\ rank[x] \in 1..n
  <2>1. upto(x) \subseteq S /\ x \in upto(x)
    OBVIOUS
  <2>2. IsFiniteSet(upto(x)) /\ Cardinality(upto(x)) <= n
    BY <2>1, FS_Subset
  <2>3. Cardinality(upto(x)) \in Nat /\ Cardinality(upto(x)) # 0
    <3> HIDE DEF upto
    <3> QED BY <2>1, <2>2, FS_CardinalityType, FS_EmptySet
  <2> QED BY <1>1, <2>2, <2>3
<1>3. ASSUME NEW x \in S, NEW y \in S, <<x, y>> \in R
      PROVE  rank[x] < rank[y]
  <2>1. upto(x) \subseteq upto(y) /\ y \notin upto(x) /\ y \in upto(y)
    BY <1>3 DEF StrictOrder
  <2>2. IsFiniteSet(upto(y)) /\ rank[x] \in Nat /\ rank[y] \in Nat
    BY <1>2
  <2>3. Cardinality(upto(x)) <= Cardinality(upto(y)) /\ Cardinality(upto(x)) # Cardinality(upto(y))
    <3> HIDE DEF upto
    <3> QED BY <2>1, <2>2, FS_Subset
  <2> QED BY <2>2, <2>3
<1>4. rank \in Surjection(S, 1..n)
  <2>1. rank \in [S -> 1..n]
    BY <1>2
  <2>2. \A x, y \in S : rank[x] = rank[y] => x = y
    <3> SUFFICES ASSUME NEW x \in S, NEW y \in S, rank[x] = rank[y], x # y PROVE FALSE
      OBVIOUS
    <3>1. rank[x] \in Nat /\ rank[y] \in Nat /\ (<<x, y>> \in R \/ <<y, x>> \in R)
      BY <1>2 DEF StrictOrder
    <3> HIDE DEF rank
    <3> QED BY <1>3, <3>1
  <2>3. rank \in Injection(S, 1..n)
    <3> HIDE DEF rank
    <3> QED BY <2>1, <2>2 DEF Injection, IsInjective
  <2>4. IsFiniteSet(1..n) /\ Cardinality(1..n) = n
    BY <1>1, FS_Interval
  <2> HIDE DEF rank
  <2> QED BY <2>3, <2>4, FS_Injection
<1> HIDE DEF rank
<1> DEFINE p == [k \in 1..n |-> CHOOSE x \in S : rank[x] = k]
<1>5. \A k \in 1..n : p[k] \in S /\ rank[p[k]] = k
  BY <1>4 DEF Surjection
<1>6. p \in [1..n -> S]
  BY <1>5
<1>7. \A j, k \in 1..n : j < k => <<p[j], p[k]>> \in R
  <2> SUFFICES ASSUME NEW j \in 1..n, NEW k \in 1..n, j < k PROVE <<p[j], p[k]>> \in R
    OBVIOUS
  <2>1. p[j] \in S /\ p[k] \in S /\ rank[p[j]] = j /\ rank[p[k]] = k /\ j \in Nat /\ k \in Nat
    BY <1>5
  <2> HIDE DEF p
  <2>2. <<p[k], p[j]>> \notin R /\ p[j] # p[k]
    BY <1>3, <2>1
  <2> QED BY <2>1, <2>2 DEF StrictOrder
<1> HIDE DEF p
<1> QED BY <1>6, <1>7

-----------------------------------------------------------------------------
(* Positions in order, and the elements that stand there.                  *)

\* p goes through I, n positions, upwards.
Climbs(p, n, I) ==
    /\ p \in [1..n -> I]
    /\ \A j, k \in 1..n : j < k => p[j] < p[k]
    /\ \A i \in I : \E k \in 1..n : p[k] = i

LEMMA StrictIsInjective ==
    ASSUME NEW I, I \subseteq Nat, NEW n \in Nat, NEW p \in [1..n -> I],
           \A j, k \in 1..n : j < k => p[j] < p[k]
    PROVE  p \in Injection(1..n, I)
<1>1. ASSUME NEW j \in 1..n, NEW k \in 1..n, p[j] = p[k] PROVE j = k
  <2>1. p[j] \in Nat /\ p[k] \in Nat /\ j \in Nat /\ k \in Nat
    <3>1. p[j] \in I /\ p[k] \in I
      OBVIOUS
    <3>2. p[j] \in Nat /\ p[k] \in Nat
      BY <3>1, Zenon
    <3> QED BY <3>2
  <2>2. j < k => p[j] < p[k]
    OBVIOUS
  <2>3. k < j => p[k] < p[j]
    OBVIOUS
  <2> QED BY <1>1, <2>1, <2>2, <2>3
<1> QED BY <1>1 DEF Injection, IsInjective

LEMMA ClimbCounts ==
    ASSUME NEW I, I \subseteq Nat, NEW n \in Nat, NEW p, Climbs(p, n, I)
    PROVE  IsFiniteSet(I) /\ Cardinality(I) = n
<1>1. p \in Bijection(1..n, I)
  <2>1. p \in [1..n -> I] /\ \A j, k \in 1..n : j < k => p[j] < p[k]
    BY DEF Climbs
  <2>2. p \in Injection(1..n, I)
    BY <2>1, StrictIsInjective
  <2> QED BY <2>2 DEF Climbs, Bijection, Surjection
<1>2. ExistsBijection(1..n, I)
  BY <1>1 DEF ExistsBijection
<1> QED BY <1>2, FS_NatBijection, FS_CountingElements

\* There is one way up only: where two differ first, the smaller step is one the
\* other has missed.
LEMMA OneClimb ==
    ASSUME NEW I, I \subseteq Nat, NEW n \in Nat,
           NEW p, Climbs(p, n, I), NEW q, Climbs(q, n, I)
    PROVE  p = q
<1> DEFINE apart == {k \in 1..n : p[k] # q[k]}
<1>1. CASE apart = {}
  BY <1>1 DEF Climbs
<1>2. CASE apart # {}
  <2>1. PICK k \in apart : \A m \in apart : k <= m
    <3>1. apart \subseteq Nat
      OBVIOUS
    <3> HIDE DEF apart
    <3> QED BY <1>2, <3>1, LeastNatural
  <2>2. k \in 1..n /\ p[k] \in Nat /\ q[k] \in Nat /\ p[k] # q[k]
    BY DEF Climbs
  <2>3. \A j \in 1..n : j < k => p[j] = q[j]
    BY <2>1
  <2>4. ASSUME NEW a, Climbs(a, n, I), NEW b, Climbs(b, n, I), a[k] < b[k],
               \A j \in 1..n : j < k => a[j] = b[j]
        PROVE  FALSE
    <3>1. PICK j \in 1..n : b[j] = a[k]
      BY <2>2, <2>4 DEF Climbs
    <3>2. a[k] \in Nat /\ b[k] \in Nat /\ b[j] \in Nat
      BY <2>2, <2>4 DEF Climbs
    <3>3. CASE j < k
      BY <2>2, <2>4, <3>1, <3>2, <3>3 DEF Climbs
    <3>4. CASE j = k
      BY <2>4, <3>1, <3>2, <3>4
    <3>5. CASE k < j
      BY <2>2, <2>4, <3>1, <3>2, <3>5 DEF Climbs
    <3> QED BY <2>2, <3>3, <3>4, <3>5
  <2> HIDE DEF apart
  <2>5. p[k] < q[k] \/ q[k] < p[k]
    BY <2>2
  <2> QED BY <2>3, <2>4, <2>5
<1> QED BY <1>1, <1>2

LEMMA AscendingClimbs ==
    ASSUME NEW I, I \subseteq Nat, IsFiniteSet(I)
    PROVE  Cardinality(I) \in Nat /\ Climbs(Ascending(I), Cardinality(I), I)
<1> DEFINE n == Cardinality(I)
           R == {ij \in I \X I : ij[1] < ij[2]}
           p == Ascending(I)
<1>1. n \in Nat
  BY FS_CardinalityType
<1>2. \A i, j \in I : <<i, j>> \in R <=> i < j
  OBVIOUS
<1> HIDE DEF R
<1>3. StrictOrder(I, R)
  <2>1. \A i \in I : i \in Nat
    OBVIOUS
  <2> QED BY <1>2, <2>1 DEF StrictOrder
<1>4. PICK f \in [1..n -> I] : \A j, k \in 1..n : j < k => <<f[j], f[k]>> \in R
  BY <1>3, FiniteIsOrdered
<1>5. p \in [1..n -> I] /\ \A j, k \in DOMAIN p : j < k => p[j] < p[k]
  <2>1. DOMAIN f = 1..n /\ \A j, k \in DOMAIN f : j < k => f[j] < f[k]
    BY <1>2, <1>4
  <2> QED BY <2>1 DEF Ascending
<1> HIDE DEF p
<1>6. \A j, k \in 1..n : j < k => <<p[j], p[k]>> \in R
  BY <1>2, <1>5
<1>7. \A i \in I : <<i, i>> \notin R
  BY <1>3 DEF StrictOrder
<1>8. Orders(p, n, I, R)
  BY <1>5, <1>6, <1>7, OrderedIsAll
<1> QED BY <1>1, <1>5, <1>8 DEF Climbs, Orders, p, n

LEMMA SubsequenceFacts ==
    ASSUME NEW S, NEW s \in Seq(S), NEW I, I \subseteq DOMAIN s
    PROVE  LET t == Subsequence(s, I)
           IN  /\ t \in Seq(S) /\ Len(t) \in Nat /\ DOMAIN t = 1..Len(t)
               /\ IsFiniteSet(I) /\ Len(t) = Cardinality(I)
               /\ Climbs(Ascending(I), Len(t), I)
               /\ \A k \in 1..Len(t) : t[k] = s[Ascending(I)[k]] /\ Ascending(I)[k] \in I
<1> DEFINE p == Ascending(I)
           n == Cardinality(I)
           t == Subsequence(s, I)
<1>1. DOMAIN s = 1..Len(s) /\ Len(s) \in Nat
  BY LenProperties
<1>2. IsFiniteSet(I) /\ I \subseteq Nat
  <2>1. IsFiniteSet(1..Len(s))
    BY <1>1, FS_Interval
  <2> QED BY <1>1, <2>1, FS_Subset
<1>3. n \in Nat /\ Climbs(p, n, I)
  BY <1>2, AscendingClimbs
<1>4. p \in [1..n -> I]
  BY <1>3 DEF Climbs
<1>5. t = [k \in 1..n |-> s[p[k]]]
  BY <1>4 DEF Subsequence
<1>6. \A k \in 1..n : p[k] \in I /\ s[p[k]] \in S
  <2> TAKE k \in 1..n
  <2>1. p[k] \in I
    BY <1>4
  <2>2. p[k] \in 1..Len(s)
    BY <1>1, <2>1
  <2> QED BY <2>1, <2>2, ElementOfSeq
<1> HIDE DEF p, n
<1>7. t \in [1..n -> S]
  BY <1>5, <1>6
<1>8. t \in Seq(S) /\ Len(t) = n /\ DOMAIN t = 1..n
  <2> HIDE DEF t
  <2> QED BY <1>3, <1>7, SeqDef
<1>9. \A k \in 1..n : t[k] = s[p[k]]
  BY <1>5
<1> QED BY <1>2, <1>3, <1>6, <1>8, <1>9 DEF p, n

\* A sequence that has at each position what s has at the next of I is the
\* subsequence.
LEMMA SubsequenceIs ==
    ASSUME NEW S, NEW s \in Seq(S), NEW I, I \subseteq DOMAIN s,
           NEW t \in Seq(S), NEW p, Climbs(p, Len(t), I),
           \A k \in 1..Len(t) : t[k] = s[p[k]]
    PROVE  t = Subsequence(s, I)
<1> DEFINE u == Subsequence(s, I)
           q == Ascending(I)
<1>1. /\ u \in Seq(S) /\ Len(u) = Cardinality(I) /\ Climbs(q, Len(u), I)
      /\ \A k \in 1..Len(u) : u[k] = s[q[k]]
  BY SubsequenceFacts
<1>2. I \subseteq Nat /\ Len(t) \in Nat
  BY LenProperties
<1> HIDE DEF u, q
<1>3. Len(t) = Len(u)
  BY <1>1, <1>2, ClimbCounts
<1>4. p = q
  BY <1>1, <1>2, <1>3, OneClimb
<1>5. \A k \in 1..Len(t) : t[k] = u[k]
  BY <1>1, <1>3, <1>4
<1>6. t = u
  BY <1>1, <1>3, <1>5, SeqEqual
<1> QED BY <1>6 DEF u

LEMMA SubsequenceElements ==
    ASSUME NEW S, NEW s \in Seq(S), NEW I, I \subseteq DOMAIN s
    PROVE  ToSet(Subsequence(s, I)) = {s[i] : i \in I}
<1> DEFINE t == Subsequence(s, I)
           p == Ascending(I)
<1>1. /\ DOMAIN t = 1..Len(t) /\ Climbs(p, Len(t), I)
      /\ \A k \in 1..Len(t) : t[k] = s[p[k]] /\ p[k] \in I
  BY SubsequenceFacts
<1> HIDE DEF t, p
<1>2. ToSet(t) = {s[i] : i \in I}
  BY <1>1 DEF ToSet, Climbs
<1> QED BY <1>2 DEF t

LEMMA SubsequenceTwice ==
    ASSUME NEW S, NEW s \in Seq(S), NEW I, I \subseteq DOMAIN s,
           NEW J, J \subseteq DOMAIN Subsequence(s, I)
    PROVE  /\ {Ascending(I)[k] : k \in J} \subseteq DOMAIN s
           /\ Subsequence(Subsequence(s, I), J) = Subsequence(s, {Ascending(I)[k] : k \in J})
<1> DEFINE t == Subsequence(s, I)
           p == Ascending(I)
           u == Subsequence(t, J)
           q == Ascending(J)
           K == {p[k] : k \in J}
           n == Len(u)
           r == [k \in 1..n |-> p[q[k]]]
<1>1. /\ t \in Seq(S) /\ DOMAIN t = 1..Len(t) /\ Climbs(p, Len(t), I)
      /\ \A k \in 1..Len(t) : t[k] = s[p[k]] /\ p[k] \in I
  BY SubsequenceFacts
<1>2. J \subseteq DOMAIN t
  OBVIOUS
<1> HIDE DEF t
<1>3. /\ u \in Seq(S) /\ n \in Nat /\ Climbs(q, n, J)
      /\ \A k \in 1..n : u[k] = t[q[k]] /\ q[k] \in J
  BY <1>1, <1>2, SubsequenceFacts
<1> HIDE DEF u, q, n, p
<1>4. K \subseteq I /\ K \subseteq DOMAIN s
  BY <1>1, <1>2
<1>5. \A k \in 1..n : u[k] = s[r[k]] /\ r[k] \in K
  BY <1>1, <1>2, <1>3
<1>6. Climbs(r, n, K)
  <2>1. r \in [1..n -> K]
    BY <1>5
  <2>2. ASSUME NEW j \in 1..n, NEW k \in 1..n, j < k PROVE r[j] < r[k]
    <3>1. q[j] < q[k] /\ q[j] \in 1..Len(t) /\ q[k] \in 1..Len(t)
      BY <1>1, <1>2, <1>3, <2>2 DEF Climbs
    <3>2. p[q[j]] < p[q[k]]
      BY <1>1, <3>1 DEF Climbs
    <3> QED BY <3>2
  <2>3. ASSUME NEW i \in K PROVE \E k \in 1..n : r[k] = i
    <3>1. PICK l \in J : i = p[l]
      OBVIOUS
    <3>2. PICK k \in 1..n : q[k] = l
      BY <1>3 DEF Climbs
    <3> QED BY <3>1, <3>2
  <2> HIDE DEF r, K
  <2> QED BY <2>1, <2>2, <2>3 DEF Climbs
<1> HIDE DEF r, K
<1>7. u = Subsequence(s, K)
  BY <1>3, <1>4, <1>5, <1>6, SubsequenceIs DEF n
<1> QED BY <1>4, <1>7 DEF u, t, K, p

\* The positions of a sequence where an element stands for the first time.
FirstPlaces(s) == {i \in DOMAIN s : \A j \in 1..(i - 1) : s[j] # s[i]}

LEMMA FirstsAtFirstPlaces ==
    ASSUME NEW s
    PROVE  Firsts(s) = Subsequence(s, FirstPlaces(s)) /\ FirstPlaces(s) \subseteq DOMAIN s
  BY DEF Firsts, FirstPlaces

\* What precedes stays out of what follows.
LEMMA WithoutInFront ==
    ASSUME NEW S, NEW s \in Seq(S), NEW t \in Seq(S), NEW m
    PROVE  LET A == {i \in DOMAIN s : s[i] # m} \cup (Len(s) + 1)..(Len(s) + Len(t))
           IN  A \subseteq DOMAIN (s \o t) /\ Without(s, m) \o t = Subsequence(s \o t, A)
<1> DEFINE K == {i \in DOMAIN s : s[i] # m}
           A == K \cup (Len(s) + 1)..(Len(s) + Len(t))
           u == Subsequence(s, K)
           p == Ascending(K)
           l == Len(s)
           n == Len(u)
           w == u \o t
           q == [k \in 1..(n + Len(t)) |-> IF k <= n THEN p[k] ELSE l + (k - n)]
<1>1. /\ DOMAIN s = 1..l /\ l \in Nat /\ DOMAIN t = 1..Len(t) /\ Len(t) \in Nat
      /\ s \o t \in Seq(S) /\ DOMAIN (s \o t) = 1..(l + Len(t))
      /\ \A i \in 1..(l + Len(t)) : (s \o t)[i] = IF i <= l THEN s[i] ELSE t[i - l]
  BY LenProperties, ConcatProperties
<1>2. K \subseteq DOMAIN s
  OBVIOUS
<1>3. /\ u \in Seq(S) /\ n \in Nat /\ Climbs(p, n, K)
      /\ \A k \in 1..n : u[k] = s[p[k]] /\ p[k] \in K
  <2> HIDE DEF K
  <2> QED BY <1>2, SubsequenceFacts
<1>4. A \subseteq DOMAIN (s \o t)
  BY <1>1
<1> HIDE DEF u, p, n, l
<1>5. /\ w \in Seq(S) /\ Len(w) = n + Len(t)
      /\ \A k \in 1..(n + Len(t)) : w[k] = IF k <= n THEN u[k] ELSE t[k - n]
  BY <1>3, ConcatProperties DEF n
<1>6. Climbs(q, n + Len(t), A)
  <2>1. ASSUME NEW k \in 1..(n + Len(t))
        PROVE  /\ q[k] \in A
               /\ IF k <= n THEN q[k] = p[k] /\ p[k] \in 1..l ELSE q[k] = l + (k - n)
    <3>1. CASE k <= n
      <4>1. k \in 1..n
        BY <1>1, <1>3, <3>1
      <4>2. p[k] \in K
        BY <1>3, <4>1
      <4> QED BY <1>1, <3>1, <4>2
    <3>2. CASE ~(k <= n)
      <4>1. q[k] = l + (k - n)
        BY <3>2
      <4>2. l + (k - n) \in (l + 1)..(l + Len(t))
        BY <1>1, <1>3, <3>2
      <4> QED BY <3>2, <4>1, <4>2 DEF l
    <3> QED BY <3>1, <3>2
  <2>2. q \in [1..(n + Len(t)) -> A]
    BY <2>1
  <2>3. ASSUME NEW j \in 1..(n + Len(t)), NEW k \in 1..(n + Len(t)), j < k PROVE q[j] < q[k]
    <3>1. CASE k <= n
      <4>1. j \in 1..n /\ k \in 1..n /\ j <= n
        BY <1>1, <1>3, <2>3, <3>1
      <4>2. p[j] < p[k]
        BY <1>3, <2>3, <4>1 DEF Climbs
      <4> QED BY <2>1, <3>1, <4>1, <4>2
    <3>2. CASE ~(k <= n) /\ j <= n
      <4>1. q[j] \in 1..l /\ q[k] = l + (k - n)
        BY <2>1, <3>2
      <4> HIDE DEF q
      <4> QED BY <1>1, <1>3, <3>2, <4>1
    <3>3. CASE ~(k <= n) /\ ~(j <= n)
      <4>1. q[j] = l + (j - n) /\ q[k] = l + (k - n)
        BY <2>1, <3>3
      <4> HIDE DEF q
      <4> QED BY <1>1, <1>3, <2>3, <4>1
    <3> QED BY <3>1, <3>2, <3>3
  <2>4. ASSUME NEW i \in A PROVE \E k \in 1..(n + Len(t)) : q[k] = i
    <3>1. CASE i \in K
      <4>1. PICK k \in 1..n : p[k] = i
        BY <1>3, <3>1 DEF Climbs
      <4>2. k \in 1..(n + Len(t)) /\ k <= n
        BY <1>1, <1>3
      <4> QED BY <4>1, <4>2
    <3>2. CASE i \in (l + 1)..(l + Len(t))
      <4> DEFINE k == n + (i - l)
      <4>0. i \in Int /\ l + 1 <= i /\ i <= l + Len(t)
        BY <1>1, <3>2
      <4>1. k \in 1..(n + Len(t)) /\ ~(k <= n) /\ l + (k - n) = i
        <5> HIDE DEF A
        <5> QED BY <1>1, <1>3, <4>0
      <4>2. q[k] = i
        BY <4>1
      <4> QED BY <4>1, <4>2
    <3> QED BY <3>1, <3>2 DEF l
  <2> HIDE DEF q, A
  <2> QED BY <2>2, <2>3, <2>4 DEF Climbs
<1>7. \A k \in 1..Len(w) : w[k] = (s \o t)[q[k]]
  <2> SUFFICES ASSUME NEW k \in 1..(n + Len(t)) PROVE w[k] = (s \o t)[q[k]]
    BY <1>5
  <2>1. CASE k <= n
    <3>1. k \in 1..n
      BY <1>1, <1>3, <2>1
    <3>2. w[k] = u[k] /\ u[k] = s[p[k]] /\ q[k] = p[k] /\ p[k] \in 1..l
      BY <1>1, <1>3, <1>5, <2>1, <3>1
    <3>3. p[k] \in 1..(l + Len(t)) /\ p[k] <= l
      BY <1>1, <3>2
    <3> HIDE DEF w, q
    <3> QED BY <1>1, <3>2, <3>3
  <2>2. CASE ~(k <= n)
    <3>1. w[k] = t[k - n] /\ q[k] = l + (k - n)
      BY <1>5, <2>2
    <3>2. l + (k - n) \in 1..(l + Len(t)) /\ ~(l + (k - n) <= l) /\ (l + (k - n)) - l = k - n
      BY <1>1, <1>3, <2>2
    <3> HIDE DEF w, q
    <3> QED BY <1>1, <3>1, <3>2
  <2> QED BY <2>1, <2>2
<1> HIDE DEF q, w, A
<1>8. w = Subsequence(s \o t, A)
  BY <1>1, <1>4, <1>5, <1>6, <1>7, SubsequenceIs
<1> QED BY <1>4, <1>8 DEF w, u, A, l, Without

\* In front of everything else, an element bars its own later occurrences.
LEMMA FirstsOfCons ==
    ASSUME NEW S, NEW w \in Seq(S), NEW m \in S,
           NEW X, X = {k \in FirstPlaces(w) : w[k] # m}
    PROVE  Firsts(<<m>> \o w) = <<m>> \o Subsequence(w, X)
<1> DEFINE u == <<m>> \o w
           W == FirstPlaces(u)
           p == Ascending(X)
           n == Len(Subsequence(w, X))
           t == <<m>> \o Subsequence(w, X)
           q == [k \in 1..(n + 1) |-> IF k = 1 THEN 1 ELSE p[k - 1] + 1]
<1>1. /\ u \in Seq(S) /\ Len(u) = Len(w) + 1 /\ DOMAIN u = 1..(Len(w) + 1) /\ Len(w) \in Nat
      /\ DOMAIN w = 1..Len(w)
      /\ u[1] = m /\ \A k \in 1..Len(w) : u[k + 1] = w[k]
  <2>1. <<m>> \in Seq(S) /\ Len(<<m>>) = 1 /\ <<m>>[1] = m
    OBVIOUS
  <2>2. /\ u \in Seq(S) /\ Len(u) = 1 + Len(w)
        /\ \A i \in 1..(1 + Len(w)) : u[i] = IF i <= 1 THEN <<m>>[i] ELSE w[i - 1]
    BY <2>1, ConcatProperties
  <2>3. Len(w) \in Nat /\ DOMAIN w = 1..Len(w) /\ DOMAIN u = 1..Len(u)
    BY <2>2, LenProperties
  <2> HIDE DEF u
  <2>4. ASSUME NEW k \in 1..Len(w) PROVE u[k + 1] = w[k]
    <3>1. k + 1 \in 1..(1 + Len(w)) /\ ~(k + 1 <= 1) /\ (k + 1) - 1 = k
      BY <2>3
    <3> QED BY <2>2, <3>1
  <2>5. 1 \in 1..(1 + Len(w)) /\ 1 + Len(w) = Len(w) + 1
    BY <2>3
  <2> QED BY <2>1, <2>2, <2>3, <2>4, <2>5
<1>2. X \subseteq DOMAIN w
  BY DEF FirstPlaces
<1>3. /\ Subsequence(w, X) \in Seq(S) /\ n \in Nat /\ Climbs(p, n, X)
      /\ \A k \in 1..n : Subsequence(w, X)[k] = w[p[k]] /\ p[k] \in X
  <2> QED BY <1>2, SubsequenceFacts
<1> HIDE DEF u, p, n
<1>4. W = {1} \cup {k + 1 : k \in X}
  <2>1. 1 \in W
    BY <1>1 DEF FirstPlaces
  <2>2. ASSUME NEW k \in X PROVE k + 1 \in W
    <3>1. k \in 1..Len(w) /\ w[k] # m /\ \A j \in 1..(k - 1) : w[j] # w[k]
      BY <1>1 DEF FirstPlaces
    <3>2. ASSUME NEW j \in 1..((k + 1) - 1) PROVE u[j] # u[k + 1]
      <4>1. CASE j = 1
        BY <1>1, <3>1, <4>1
      <4>2. CASE j # 1
        <5>1. j - 1 \in 1..(k - 1) /\ j - 1 \in 1..Len(w) /\ (j - 1) + 1 = j
          BY <1>1, <3>1, <4>2
        <5>2. u[j] = w[j - 1]
          BY <1>1, <5>1
        <5> QED BY <1>1, <3>1, <5>1, <5>2
      <4> QED BY <4>1, <4>2
    <3>3. k + 1 \in 1..(Len(w) + 1)
      BY <1>1, <3>1
    <3> QED BY <1>1, <3>2, <3>3 DEF FirstPlaces
  <2>3. ASSUME NEW i \in W, i # 1 PROVE i - 1 \in X /\ (i - 1) + 1 = i
    <3>1. i \in 1..(Len(w) + 1) /\ \A j \in 1..(i - 1) : u[j] # u[i]
      BY <1>1 DEF FirstPlaces
    <3>2. i - 1 \in 1..Len(w) /\ (i - 1) + 1 = i /\ 1 \in 1..(i - 1)
      BY <1>1, <2>3, <3>1
    <3>3. u[i] = w[i - 1] /\ w[i - 1] # m
      BY <1>1, <3>1, <3>2
    <3>4. ASSUME NEW j \in 1..((i - 1) - 1) PROVE w[j] # w[i - 1]
      <4>1. j \in 1..Len(w) /\ j + 1 \in 1..(i - 1)
        BY <1>1, <3>2
      <4> QED BY <1>1, <3>1, <3>3, <4>1
    <3> QED BY <1>1, <3>2, <3>3, <3>4 DEF FirstPlaces
  <2> HIDE DEF W
  <2> QED BY <2>1, <2>2, <2>3
<1>5. /\ t \in Seq(S) /\ Len(t) = n + 1 /\ t[1] = m
      /\ \A k \in 1..(n + 1) : k # 1 => t[k] = w[p[k - 1]] /\ k - 1 \in 1..n
  <2>1. <<m>> \in Seq(S) /\ Len(<<m>>) = 1 /\ <<m>>[1] = m
    OBVIOUS
  <2>2. /\ t \in Seq(S) /\ Len(t) = 1 + n
        /\ \A i \in 1..(1 + n) : t[i] = IF i <= 1 THEN <<m>>[i] ELSE Subsequence(w, X)[i - 1]
    BY <1>3, <2>1, ConcatProperties DEF n
  <2> HIDE DEF t
  <2>3. ASSUME NEW k \in 1..(n + 1), k # 1 PROVE t[k] = w[p[k - 1]] /\ k - 1 \in 1..n
    <3>1. k \in 1..(1 + n) /\ ~(k <= 1) /\ k - 1 \in 1..n
      BY <1>3, <2>3
    <3> QED BY <1>3, <2>2, <3>1
  <2>4. Len(t) = n + 1 /\ t[1] = m
    <3>1. 1 \in 1..(1 + n) /\ 1 + n = n + 1
      BY <1>3
    <3>2. t[1] = IF 1 <= 1 THEN <<m>>[1] ELSE Subsequence(w, X)[1 - 1]
      BY <2>2, <3>1, Zenon
    <3> QED BY <2>1, <2>2, <3>1, <3>2
  <2>5. \A k \in 1..(n + 1) : k # 1 => t[k] = w[p[k - 1]] /\ k - 1 \in 1..n
    BY <2>3
  <2> QED BY <2>2, <2>4, <2>5
<1>6. Climbs(q, n + 1, W)
  <2>0. X \subseteq Nat
    BY <1>1, <1>2
  <2> HIDE DEF W, t
  <2>1. \A k \in 1..(n + 1) : q[k] \in W /\ q[k] = IF k = 1 THEN 1 ELSE p[k - 1] + 1
    BY <1>3, <1>4, <1>5
  <2>2. q \in [1..(n + 1) -> W]
    BY <2>1
  <2>3. ASSUME NEW j \in 1..(n + 1), NEW k \in 1..(n + 1), j < k PROVE q[j] < q[k]
    <3>1. k # 1 /\ k - 1 \in 1..n /\ p[k - 1] \in X
      <4>1. k # 1
        BY <1>3, <2>3
      <4> QED BY <1>3, <1>5, <4>1
    <3>2. p[k - 1] \in 1..Len(w) /\ q[k] = p[k - 1] + 1
      BY <1>1, <1>2, <2>1, <3>1
    <3>3. CASE j = 1
      <4> HIDE DEF q
      <4> QED BY <1>1, <2>1, <3>2, <3>3
    <3>4. CASE j # 1
      <4>1. j - 1 \in 1..n /\ j - 1 < k - 1
        BY <1>3, <1>5, <2>3, <3>4
      <4>2. p[j - 1] < p[k - 1] /\ p[j - 1] \in Nat /\ p[k - 1] \in Nat
        BY <1>3, <2>0, <3>1, <4>1 DEF Climbs
      <4>3. q[j] = p[j - 1] + 1
        BY <3>4
      <4> HIDE DEF q
      <4> QED BY <3>2, <4>2, <4>3
    <3> QED BY <3>3, <3>4
  <2>4. ASSUME NEW i \in W PROVE \E k \in 1..(n + 1) : q[k] = i
    <3>1. CASE i = 1
      <4>1. 1 \in 1..(n + 1)
        BY <1>3
      <4> QED BY <3>1, <4>1
    <3>2. CASE i # 1
      <4>1. PICK l \in X : i = l + 1
        BY <1>4, <3>2
      <4>2. PICK k \in 1..n : p[k] = l
        BY <1>3 DEF Climbs
      <4>3. k + 1 \in 1..(n + 1) /\ k + 1 # 1 /\ (k + 1) - 1 = k
        BY <1>3
      <4>4. q[k + 1] = i
        BY <4>1, <4>2, <4>3
      <4> QED BY <4>3, <4>4
    <3> QED BY <3>1, <3>2
  <2> HIDE DEF q
  <2> QED BY <2>2, <2>3, <2>4 DEF Climbs
<1>7. \A k \in 1..Len(t) : t[k] = u[q[k]]
  <2> SUFFICES ASSUME NEW k \in 1..(n + 1) PROVE t[k] = u[q[k]]
    BY <1>5
  <2>1. CASE k = 1
    BY <1>1, <1>5, <2>1
  <2>2. CASE k # 1
    <3>1. t[k] = w[p[k - 1]] /\ k - 1 \in 1..n /\ q[k] = p[k - 1] + 1
      BY <1>5, <2>2
    <3>2. p[k - 1] \in 1..Len(w)
      BY <1>1, <1>2, <1>3, <3>1
    <3> HIDE DEF q, t
    <3> QED BY <1>1, <3>1, <3>2
  <2> QED BY <2>1, <2>2
<1>8. W \subseteq DOMAIN u
  BY DEF FirstPlaces
<1> HIDE DEF W, q, t
<1>9. t = Subsequence(u, W)
  BY <1>1, <1>5, <1>6, <1>7, <1>8, SubsequenceIs
<1> QED BY <1>9, FirstsAtFirstPlaces DEF W, u, t

LEMMA WithoutOfFirsts ==
    ASSUME NEW S, NEW v \in Seq(S), NEW m
    PROVE  Without(Firsts(v), m) = Subsequence(v, {i \in FirstPlaces(v) : v[i] # m})
<1> DEFINE F == FirstPlaces(v)
           f == Subsequence(v, F)
           p == Ascending(F)
           J == {k \in DOMAIN f : f[k] # m}
           G == {i \in F : v[i] # m}
<1>1. F \subseteq DOMAIN v /\ Firsts(v) = f
  BY FirstsAtFirstPlaces
<1>2. /\ DOMAIN f = 1..Len(f) /\ Climbs(p, Len(f), F)
      /\ \A k \in 1..Len(f) : f[k] = v[p[k]] /\ p[k] \in F
  <2> HIDE DEF F
  <2> QED BY <1>1, SubsequenceFacts
<1>3. Subsequence(f, J) = Subsequence(v, {p[k] : k \in J})
  <2>1. J \subseteq DOMAIN f
    OBVIOUS
  <2> HIDE DEF J, F
  <2> QED BY <1>1, <2>1, SubsequenceTwice
<1> HIDE DEF f, p, F
<1>4. {p[k] : k \in J} = G
  <2>1. ASSUME NEW i \in G PROVE i \in {p[k] : k \in J}
    <3>1. PICK k \in 1..Len(f) : p[k] = i
      BY <1>2 DEF Climbs
    <3> QED BY <1>2, <3>1
  <2>2. ASSUME NEW k \in J PROVE p[k] \in G
    BY <1>2
  <2> QED BY <2>1, <2>2
<1> QED BY <1>1, <1>3, <1>4 DEF Without, F, f

\* Choosing m for a list that two lists make up: it comes first, and the rest is
\* as before without it.
LEMMA ChosenFirst ==
    ASSUME NEW S, NEW s \in Seq(S), NEW t \in Seq(S), NEW m \in S
    PROVE  Firsts((<<m>> \o Without(s, m)) \o t) = <<m>> \o Without(Firsts(s \o t), m)
<1> DEFINE v == s \o t
           A == {i \in DOMAIN s : s[i] # m} \cup (Len(s) + 1)..(Len(s) + Len(t))
           a == Ascending(A)
           w == Subsequence(v, A)
           X == {k \in FirstPlaces(w) : w[k] # m}
           G == {i \in FirstPlaces(v) : v[i] # m}
<1>1. /\ DOMAIN s = 1..Len(s) /\ Len(s) \in Nat /\ Len(t) \in Nat
      /\ v \in Seq(S) /\ DOMAIN v = 1..(Len(s) + Len(t))
      /\ \A i \in 1..(Len(s) + Len(t)) : v[i] = IF i <= Len(s) THEN s[i] ELSE t[i - Len(s)]
  BY LenProperties, ConcatProperties
<1>2. A \subseteq DOMAIN v /\ Without(s, m) \o t = w
  BY WithoutInFront
<1>3. \A i \in DOMAIN v : v[i] # m => i \in A
  <2> SUFFICES ASSUME NEW i \in DOMAIN v, v[i] # m, i \notin (Len(s) + 1)..(Len(s) + Len(t))
               PROVE  i \in DOMAIN s /\ s[i] # m
    OBVIOUS
  <2>1. i \in 1..(Len(s) + Len(t)) /\ i <= Len(s)
    BY <1>1
  <2> HIDE DEF v
  <2> QED BY <1>1, <2>1
<1>4. (<<m>> \o Without(s, m)) \o t = <<m>> \o w
  <2>1. Without(s, m) \in Seq(S)
    <3>1. {i \in DOMAIN s : s[i] # m} \subseteq DOMAIN s
      OBVIOUS
    <3> QED BY <3>1, SubsequenceFacts DEF Without
  <2> DEFINE first == <<m>>
  <2>2. first \in Seq(S)
    OBVIOUS
  <2> HIDE DEF w, first
  <2>3. (first \o Without(s, m)) \o t = first \o (Without(s, m) \o t)
    BY <2>1, <2>2, ConcatAssociative
  <2>4. first \o (Without(s, m) \o t) = first \o w
    BY <1>2
  <2>5. (first \o Without(s, m)) \o t = first \o w
    BY <2>3, <2>4
  <2> QED BY <2>5 DEF first
<1> HIDE DEF v, A
<1>5. /\ w \in Seq(S) /\ DOMAIN w = 1..Len(w) /\ Climbs(a, Len(w), A)
      /\ \A k \in 1..Len(w) : w[k] = v[a[k]] /\ a[k] \in A
  BY <1>1, <1>2, SubsequenceFacts
<1>6. Firsts(<<m>> \o w) = <<m>> \o Subsequence(w, X)
  <2>1. w \in Seq(S)
    BY <1>5
  <2>2. X = {k \in FirstPlaces(w) : w[k] # m}
    OBVIOUS
  <2> HIDE DEF w, X
  <2> QED BY <2>1, <2>2, FirstsOfCons
<1>7. Subsequence(w, X) = Subsequence(v, {a[k] : k \in X})
  <2>1. X \subseteq DOMAIN w
    BY DEF FirstPlaces
  <2> HIDE DEF X
  <2> QED BY <1>1, <1>2, <2>1, SubsequenceTwice
<1> HIDE DEF w, a
<1>8. {a[k] : k \in X} = G
  <2>1. ASSUME NEW k \in X PROVE a[k] \in G
    <3>1. k \in 1..Len(w) /\ w[k] # m /\ \A j \in 1..(k - 1) : w[j] # w[k]
      BY <1>5 DEF FirstPlaces
    <3>2. v[a[k]] = w[k] /\ a[k] \in DOMAIN v /\ a[k] \in Nat
      BY <1>1, <1>2, <1>5, <3>1
    <3>3. ASSUME NEW j \in 1..(a[k] - 1) PROVE v[j] # v[a[k]]
      <4> SUFFICES ASSUME v[j] = v[a[k]] PROVE FALSE
        OBVIOUS
      <4>1. j \in DOMAIN v /\ j < a[k]
        BY <1>1, <3>2
      <4>2. j \in A
        BY <1>3, <3>1, <3>2, <4>1
      <4>3. PICK l \in 1..Len(w) : a[l] = j
        BY <1>5, <4>2 DEF Climbs
      <4>4. ~(k < l) /\ k # l
        <5>1. k < l => a[k] < a[l]
          BY <1>5, <3>1 DEF Climbs
        <5> QED BY <3>2, <4>1, <4>3, <5>1
      <4>5. l \in 1..(k - 1)
        BY <3>1, <4>4
      <4> QED BY <1>5, <3>1, <3>2, <4>3, <4>5
    <3> QED BY <3>1, <3>2, <3>3 DEF FirstPlaces
  <2>2. ASSUME NEW i \in G PROVE i \in {a[k] : k \in X}
    <3>1. i \in DOMAIN v /\ v[i] # m /\ \A j \in 1..(i - 1) : v[j] # v[i]
      BY DEF FirstPlaces
    <3>2. PICK k \in 1..Len(w) : a[k] = i
      BY <1>3, <1>5, <3>1 DEF Climbs
    <3>3. ASSUME NEW j \in 1..(k - 1) PROVE w[j] # w[k]
      <4>1. j \in 1..Len(w) /\ j < k
        BY <1>5
      <4>2. a[j] < i /\ a[j] \in DOMAIN v
        BY <1>2, <1>5, <3>2, <4>1 DEF Climbs
      <4>3. a[j] \in 1..(i - 1)
        BY <1>1, <3>1, <4>2
      <4> QED BY <1>5, <3>1, <3>2, <4>1, <4>3
    <3> QED BY <1>5, <3>1, <3>2, <3>3 DEF FirstPlaces
  <2> HIDE DEF X, G
  <2> QED BY <2>1, <2>2
<1>9. Without(Firsts(v), m) = Subsequence(v, G)
  BY <1>1, WithoutOfFirsts
<1> QED BY <1>4, <1>6, <1>7, <1>8, <1>9 DEF v

-----------------------------------------------------------------------------
(* What a choice makes of a configuration.                                 *)

LEMMA ModelsOfChain ==
    ASSUME NEW chain \in Seq(Entry)
    PROVE  /\ ModelsOf(chain) \in Seq(Models) /\ Len(ModelsOf(chain)) = Len(chain)
           /\ DOMAIN ModelsOf(chain) = DOMAIN chain /\ DOMAIN chain = 1..Len(chain)
           /\ \A i \in DOMAIN chain : ModelsOf(chain)[i] = chain[i].model
<1>1. DOMAIN chain = 1..Len(chain) /\ Len(chain) \in Nat
  BY LenProperties
<1>2. \A i \in DOMAIN chain : chain[i].model \in Models
  <2> TAKE i \in DOMAIN chain
  <2>1. chain[i] \in Entry
    BY <1>1, ElementOfSeq
  <2> QED BY <2>1 DEF Entry
<1>3. ModelsOf(chain) = [i \in 1..Len(chain) |-> chain[i].model]
  BY <1>1 DEF ModelsOf
<1>4. ModelsOf(chain) \in [1..Len(chain) -> Models]
  BY <1>1, <1>2, <1>3
<1>5. ModelsOf(chain) \in Seq(Models)
  BY <1>1, <1>4, SeqDef
<1> QED BY <1>1, <1>3, <1>5

\* Two sequences of which one follows the other.
LEMMA ConsElements ==
    ASSUME NEW S, NEW m \in S, NEW v \in Seq(S)
    PROVE  LET u == <<m>> \o v
           IN  /\ u \in Seq(S) /\ Len(u) = Len(v) + 1 /\ DOMAIN u = 1..(Len(v) + 1)
               /\ Len(v) \in Nat /\ DOMAIN v = 1..Len(v)
               /\ u[1] = m /\ u # << >>
               /\ \A k \in 1..(Len(v) + 1) : k # 1 => k - 1 \in 1..Len(v) /\ u[k] = v[k - 1]
<1> DEFINE u == <<m>> \o v
<1>1. <<m>> \in Seq(S) /\ Len(<<m>>) = 1 /\ <<m>>[1] = m
  OBVIOUS
<1>2. /\ u \in Seq(S) /\ Len(u) = 1 + Len(v)
      /\ \A i \in 1..(1 + Len(v)) : u[i] = IF i <= 1 THEN <<m>>[i] ELSE v[i - 1]
  BY <1>1, ConcatProperties
<1>3. Len(v) \in Nat /\ DOMAIN v = 1..Len(v) /\ DOMAIN u = 1..Len(u)
  BY <1>2, LenProperties
<1> HIDE DEF u
<1>4. ASSUME NEW k \in 1..(Len(v) + 1), k # 1 PROVE k - 1 \in 1..Len(v) /\ u[k] = v[k - 1]
  <2>1. k \in 1..(1 + Len(v)) /\ ~(k <= 1) /\ k - 1 \in 1..Len(v)
    BY <1>3, <1>4
  <2> QED BY <1>2, <2>1
<1>5. 1 \in 1..(1 + Len(v)) /\ 1 + Len(v) = Len(v) + 1
  BY <1>3
<1>6. u[1] = IF 1 <= 1 THEN <<m>>[1] ELSE v[1 - 1]
  BY <1>2, <1>5, Zenon
<1>7. u[1] = m
  BY <1>1, <1>6
<1>8. u # << >>
  BY <1>2, <1>3, EmptySeq
<1>9. Len(u) = Len(v) + 1 /\ DOMAIN u = 1..(Len(v) + 1)
  BY <1>2, <1>3, <1>5
<1> QED BY <1>2, <1>3, <1>4, <1>7, <1>8, <1>9 DEF u

\* The model that is put in front of a chain was in it once.
LEMMA FrontOfChain ==
    ASSUME NEW chain \in Seq(Entry), NEW m \in Models,
           IsInjective(ModelsOf(chain)), m \in ToSet(ModelsOf(chain))
    PROVE  /\ ToFront(chain, m) \in Seq(Entry)
           /\ ModelsOf(ToFront(chain, m)) = <<m>> \o Without(ModelsOf(chain), m)
<1> DEFINE ms == ModelsOf(chain)
           A == {i \in DOMAIN chain : chain[i].model = m}
           B == {i \in DOMAIN chain : chain[i].model # m}
           a == Subsequence(chain, A)
           b == Subsequence(chain, B)
           c == a \o b
           v == Subsequence(ms, B)
           q == Ascending(B)
<1>1. /\ ms \in Seq(Models) /\ DOMAIN ms = DOMAIN chain /\ DOMAIN chain = 1..Len(chain)
      /\ \A i \in DOMAIN chain : ms[i] = chain[i].model
  BY ModelsOfChain
<1>2. PICK i \in DOMAIN chain : ms[i] = m
  BY <1>1 DEF ToSet
<1>3. A = {i}
  BY <1>1, <1>2 DEF IsInjective
<1>4. a \in Seq(Entry) /\ Len(a) = 1 /\ a[1].model = m
  <2>0. A \subseteq DOMAIN chain
    OBVIOUS
  <2>1. Cardinality(A) = 1
    BY <1>3, FS_Singleton
  <2>2. /\ a \in Seq(Entry) /\ Len(a) = Cardinality(A)
        /\ \A k \in 1..Len(a) : a[k] = chain[Ascending(A)[k]] /\ Ascending(A)[k] \in A
    <3> HIDE DEF A
    <3> QED BY <2>0, SubsequenceFacts
  <2>3. 1 \in 1..Len(a)
    <3> HIDE DEF a, A
    <3> QED BY <2>1, <2>2
  <2>4. a[1] = chain[Ascending(A)[1]] /\ Ascending(A)[1] \in A
    BY <2>2, <2>3
  <2>5. chain[Ascending(A)[1]].model = m
    BY <2>4
  <2> HIDE DEF a, A
  <2> QED BY <2>1, <2>2, <2>4, <2>5
<1>5. /\ b \in Seq(Entry) /\ Len(b) = Cardinality(B) /\ Len(b) \in Nat
      /\ \A k \in 1..Len(b) : b[k] = chain[q[k]] /\ q[k] \in B
  <2>1. B \subseteq DOMAIN chain
    OBVIOUS
  <2> HIDE DEF B
  <2> QED BY <2>1, SubsequenceFacts
<1>6. /\ v \in Seq(Models) /\ Len(v) = Cardinality(B)
      /\ \A k \in 1..Len(v) : v[k] = ms[q[k]]
  <2>1. B \subseteq DOMAIN ms
    BY <1>1
  <2> HIDE DEF B, ms
  <2> QED BY <1>1, <2>1, SubsequenceFacts
<1>7. B \subseteq DOMAIN chain
  OBVIOUS
<1>8. Without(ms, m) = v
  <2>1. {j \in DOMAIN ms : ms[j] # m} = B
    BY <1>1
  <2> HIDE DEF ms, B
  <2> QED BY <2>1 DEF Without
<1> HIDE DEF a, b, v, B, q, ms
<1>9. /\ c \in Seq(Entry) /\ Len(c) = 1 + Len(b)
      /\ \A k \in 1..(1 + Len(b)) : c[k] = IF k <= 1 THEN a[k] ELSE b[k - 1]
  <2>1. /\ c \in Seq(Entry) /\ Len(c) = Len(a) + Len(b)
        /\ \A k \in 1..(Len(a) + Len(b)) : c[k] = IF k <= Len(a) THEN a[k] ELSE b[k - Len(a)]
    BY <1>4, <1>5, ConcatProperties
  <2> HIDE DEF c
  <2> QED BY <1>4, <2>1
<1> HIDE DEF c
<1>10. /\ ModelsOf(c) \in Seq(Models) /\ Len(ModelsOf(c)) = 1 + Len(b)
       /\ \A k \in 1..(1 + Len(b)) : ModelsOf(c)[k] = c[k].model
  BY <1>9, ModelsOfChain
<1>11. /\ <<m>> \o v \in Seq(Models) /\ Len(<<m>> \o v) = Len(b) + 1 /\ (<<m>> \o v)[1] = m
       /\ \A k \in 1..(Len(b) + 1) : k # 1 => k - 1 \in 1..Len(b) /\ (<<m>> \o v)[k] = v[k - 1]
  <2>1. Len(v) = Len(b)
    BY <1>5, <1>6
  <2> QED BY <1>6, <2>1, ConsElements
<1> DEFINE f == <<m>> \o v
<1> HIDE DEF f
<1>12. \A k \in 1..(1 + Len(b)) : ModelsOf(c)[k] = f[k]
  <2> SUFFICES ASSUME NEW k \in 1..(1 + Len(b)) PROVE c[k].model = f[k]
    BY <1>10
  <2>1. CASE k = 1
    BY <1>4, <1>9, <1>11, <2>1 DEF f
  <2>2. CASE k # 1
    <3>1. k \in 1..(Len(b) + 1) /\ ~(k <= 1)
      BY <1>5, <2>2
    <3>2. k - 1 \in 1..Len(b) /\ f[k] = v[k - 1]
      BY <1>11, <2>2, <3>1 DEF f
    <3>3. v[k - 1] = ms[q[k - 1]] /\ b[k - 1] = chain[q[k - 1]] /\ q[k - 1] \in B
      BY <1>5, <1>6, <3>2
    <3> QED BY <1>1, <1>7, <1>9, <3>1, <3>2, <3>3
  <2> QED BY <2>1, <2>2
<1>13. ModelsOf(c) = f
  <2>1. f \in Seq(Models) /\ Len(f) = Len(b) + 1
    BY <1>11 DEF f
  <2> QED BY <1>5, <1>10, <1>12, <2>1, SeqEqual
<1>14. ToFront(chain, m) = c
  BY DEF ToFront, c, a, b, B
<1> QED BY <1>8, <1>9, <1>13, <1>14 DEF f, ms

LEMMA FrontIsInjective ==
    ASSUME NEW S, NEW v \in Seq(S), NEW m \in S, IsInjective(v)
    PROVE  IsInjective(<<m>> \o Without(v, m))
<1> DEFINE B == {i \in DOMAIN v : v[i] # m}
           w == Subsequence(v, B)
           q == Ascending(B)
           u == <<m>> \o w
<1>1. /\ w \in Seq(S) /\ Climbs(q, Len(w), B) /\ Len(w) \in Nat
      /\ \A k \in 1..Len(w) : w[k] = v[q[k]] /\ q[k] \in B
  <2>1. B \subseteq DOMAIN v
    OBVIOUS
  <2> HIDE DEF B
  <2> QED BY <2>1, SubsequenceFacts
<1>2. \A k \in 1..Len(w) : w[k] # m /\ q[k] \in DOMAIN v /\ q[k] \in Nat
  BY <1>1, LenProperties
<1> HIDE DEF w
<1>3. /\ DOMAIN u = 1..(Len(w) + 1) /\ u[1] = m
      /\ \A k \in 1..(Len(w) + 1) : k # 1 => k - 1 \in 1..Len(w) /\ u[k] = w[k - 1]
  BY <1>1, ConsElements
<1> HIDE DEF u, q, B
<1>4. ASSUME NEW j \in 1..Len(w), NEW k \in 1..Len(w), w[j] = w[k] PROVE j = k
  <2>1. q[j] = q[k]
    BY <1>1, <1>2, <1>4 DEF IsInjective
  <2>2. (j < k => q[j] < q[k]) /\ (k < j => q[k] < q[j])
    BY <1>1 DEF Climbs
  <2> QED BY <1>1, <1>2, <2>1, <2>2
<1>5. ASSUME NEW j \in 1..(Len(w) + 1), NEW k \in 1..(Len(w) + 1), u[j] = u[k] PROVE j = k
  <2>1. CASE j # 1 /\ k # 1
    <3>1. j - 1 = k - 1
      BY <1>3, <1>4, <1>5, <2>1
    <3> QED BY <1>1, <3>1
  <2>2. CASE j = 1 \/ k = 1
    BY <1>2, <1>3, <1>5, <2>2
  <2> QED BY <2>1, <2>2
<1>6. IsInjective(u)
  BY <1>3, <1>5 DEF IsInjective
<1> QED BY <1>6 DEF u, w, B, Without

LEMMA ChoiceTypes ==
    ASSUME NEW choice \in Selections
    PROVE  DOMAIN choice \subseteq Roles /\ \A r \in DOMAIN choice : choice[r] \in Models
  BY ConfigureAssumption DEF RoleChoices

LEMMA ConfigTypes ==
    ASSUME NEW c, Valid(c)
    PROVE  /\ \A r \in Roles :
                 /\ c.view[r].preferred \in Seq(Models) /\ c.view[r].fallback \in Seq(Models)
                 /\ c.view[r].hints \subseteq Labels
                 /\ c.view[r].preferred # << >> /\ c.view[r].fallback # << >>
                 /\ c.view[r].hints # {}
                 /\ c.view[r].preferred \o c.view[r].fallback \in Seq(Models)
           /\ HasPolicy(c) => c.policy \in [OperatorRoles -> Seq(Entry)]
<1>1. c \in Config
  BY DEF Valid
<1>2. ASSUME NEW r \in Roles PROVE c.view[r] \in View
  BY <1>1 DEF Config
<1>3. HasPolicy(c) => c.policy \in [OperatorRoles -> Seq(Entry)]
  BY <1>1 DEF Config, HasPolicy
<1>4. ASSUME NEW r \in Roles
      PROVE  /\ c.view[r].preferred \in Seq(Models) /\ c.view[r].fallback \in Seq(Models)
             /\ c.view[r].hints \subseteq Labels
  BY <1>2 DEF View
<1>5. ASSUME NEW r \in Roles
      PROVE  c.view[r].preferred \o c.view[r].fallback \in Seq(Models)
  BY <1>4, ConcatProperties
<1> QED BY <1>3, <1>4, <1>5 DEF Valid

\* Both views of a role, after a choice.
LEMMA ChosenView ==
    ASSUME NEW c, Valid(c), NEW choice \in Selections, NEW r \in Roles
    PROVE  LET v == RoleView(c, choice, r)
           IN  /\ v \in View /\ v.preferred # << >> /\ v.fallback # << >> /\ v.hints # {}
               /\ Firsts(v.preferred \o v.fallback) =
                    IF r \in DOMAIN choice
                    THEN <<choice[r]>> \o Without(Identifiers(c, r), choice[r])
                    ELSE Identifiers(c, r)
<1> DEFINE old == c.view[r]
           v == RoleView(c, choice, r)
<1>1. /\ old \in View /\ old.preferred \in Seq(Models) /\ old.fallback \in Seq(Models)
      /\ old.preferred # << >> /\ old.fallback # << >> /\ old.hints # {}
  BY ConfigTypes DEF Valid, Config
<1>2. Identifiers(c, r) = Firsts(old.preferred \o old.fallback)
  BY DEF Identifiers
<1>3. CASE r \notin DOMAIN choice
  BY <1>1, <1>2, <1>3 DEF RoleView
<1>4. CASE r \in DOMAIN choice
  <2> DEFINE m == choice[r]
             p == <<m>> \o Without(old.preferred, m)
  <2>1. m \in Models
    BY <1>4, ChoiceTypes
  <2>2. v = [old EXCEPT !.preferred = p]
    BY <1>4 DEF RoleView
  <2>3. p \in Seq(Models) /\ p # << >>
    <3>1. {i \in DOMAIN old.preferred : old.preferred[i] # m} \subseteq DOMAIN old.preferred
      OBVIOUS
    <3>2. Without(old.preferred, m) \in Seq(Models)
      BY <1>1, <3>1, SubsequenceFacts DEF Without
    <3> HIDE DEF m
    <3> QED BY <2>1, <3>2, ConsElements
  <2>4. Firsts(p \o old.fallback)
          = <<m>> \o Without(Firsts(old.preferred \o old.fallback), m)
    <3> DEFINE a == old.preferred
               b == old.fallback
    <3>1. a \in Seq(Models) /\ b \in Seq(Models)
      BY <1>1
    <3> HIDE DEF m, a, b
    <3>2. Firsts((<<m>> \o Without(a, m)) \o b) = <<m>> \o Without(Firsts(a \o b), m)
      BY <2>1, <3>1, ChosenFirst
    <3> QED BY <3>2 DEF a, b
  <2> HIDE DEF p
  <2>5. /\ v \in View /\ v.preferred = p /\ v.fallback = old.fallback /\ v.hints = old.hints
    BY <1>1, <2>2, <2>3 DEF View
  <2> HIDE DEF v, old
  <2>6. Firsts(v.preferred \o v.fallback) = <<choice[r]>> \o Without(Identifiers(c, r), choice[r])
    BY <1>2, <2>4, <2>5
  <2> QED BY <1>1, <1>4, <2>3, <2>5, <2>6 DEF v
<1> QED BY <1>3, <1>4

\* The chain of an operator role, after a choice of listed models.
LEMMA ChosenChain ==
    ASSUME NEW c, Valid(c), HasPolicy(c), NEW choice \in Selections,
           \A r \in DOMAIN choice : choice[r] \in ToSet(Identifiers(c, r)),
           NEW o \in OperatorRoles
    PROVE  /\ OperatorChain(c, choice, o) \in Seq(Entry)
           /\ ChainValid(OperatorChain(c, choice, o))
           /\ o \notin {OperatorOf[r] : r \in DOMAIN choice} =>
                 OperatorChain(c, choice, o) = c.policy[o]
           /\ \A r \in DOMAIN choice : OperatorOf[r] = o =>
                 ModelsOf(OperatorChain(c, choice, o))
                   = <<choice[r]>> \o Without(Identifiers(c, r), choice[r])
<1> DEFINE of == {r \in DOMAIN choice : OperatorOf[r] = o}
           chain == c.policy[o]
           new == OperatorChain(c, choice, o)
<1>1. chain \in Seq(Entry) /\ ChainValid(chain)
  BY ConfigTypes DEF Valid
<1>2. CASE of = {}
  <2>1. new = chain
    BY <1>2 DEF OperatorChain
  <2> QED BY <1>1, <1>2, <2>1
<1>3. CASE of # {}
  <2> DEFINE r == CHOOSE q \in of : TRUE
             m == choice[r]
  <2>1. r \in DOMAIN choice /\ OperatorOf[r] = o
    BY <1>3
  <2>2. new = ToFront(chain, m)
    BY <1>3 DEF OperatorChain
  <2> HIDE DEF r, new, chain
  <2>3. r \in Roles /\ m \in Models
    BY <2>1, ChoiceTypes
  <2>4. Identifiers(c, r) = ModelsOf(chain)
    BY <2>1, <2>3 DEF Valid, chain
  <2>5. m \in ToSet(ModelsOf(chain)) /\ IsInjective(ModelsOf(chain))
    BY <1>1, <2>1, <2>4 DEF ChainValid
  <2> HIDE DEF m
  <2>6. new \in Seq(Entry) /\ ModelsOf(new) = <<m>> \o Without(ModelsOf(chain), m)
    BY <1>1, <2>2, <2>3, <2>5, FrontOfChain
  <2>7. ModelsOf(chain) \in Seq(Models)
    BY <1>1, ModelsOfChain
  <2>8. IsInjective(ModelsOf(new))
    BY <2>3, <2>5, <2>6, <2>7, FrontIsInjective
  <2>9. new # << >>
    <3>1. {i \in DOMAIN ModelsOf(chain) : ModelsOf(chain)[i] # m} \subseteq DOMAIN ModelsOf(chain)
      OBVIOUS
    <3>2. Without(ModelsOf(chain), m) \in Seq(Models)
      BY <2>7, <3>1, SubsequenceFacts DEF Without
    <3> DEFINE w == Without(ModelsOf(chain), m)
    <3> HIDE DEF w
    <3>3. Len(<<m>> \o w) = Len(w) + 1 /\ Len(w) \in Nat
      BY <2>3, <3>2, ConsElements DEF w
    <3>4. Len(ModelsOf(new)) = Len(new)
      BY <2>6, ModelsOfChain
    <3>5. Len(new) # 0
      BY <2>6, <3>3, <3>4 DEF w
    <3> QED BY <3>5, EmptySeq
  <2>10. ASSUME NEW q \in DOMAIN choice, OperatorOf[q] = o
         PROVE  ModelsOf(new) = <<choice[q]>> \o Without(Identifiers(c, q), choice[q])
    <3>1. q = r
      BY <2>1, <2>3, <2>10, ChoiceTypes, PolicyAssumption
    <3> QED BY <2>4, <2>6, <3>1 DEF m
  <2>11. o \in {OperatorOf[q] : q \in DOMAIN choice}
    BY <2>1
  <2> QED BY <2>6, <2>8, <2>9, <2>10, <2>11 DEF ChainValid, new
<1> QED BY <1>2, <1>3

LEMMA ListedChoice ==
    ASSUME NEW c, Valid(c), NEW choice \in Selections,
           \A r \in DOMAIN choice : choice[r] \in ToSet(Identifiers(c, r))
    PROVE  LET new == Apply(c, choice)
           IN  /\ Applicable(c, choice)
               /\ \A r \in Roles :
                     Identifiers(new, r) =
                        IF r \in DOMAIN choice
                        THEN <<choice[r]>> \o Without(Identifiers(c, r), choice[r])
                        ELSE Identifiers(c, r)
               /\ \A o \in DOMAIN new.policy \ {OperatorOf[r] : r \in DOMAIN choice} :
                     new.policy[o] = c.policy[o]
<1> DEFINE new == Apply(c, choice)
           expected(r) == IF r \in DOMAIN choice
                          THEN <<choice[r]>> \o Without(Identifiers(c, r), choice[r])
                          ELSE Identifiers(c, r)
<1>1. /\ new.view = [r \in Roles |-> RoleView(c, choice, r)]
      /\ new.policy = IF HasPolicy(c)
                      THEN [o \in OperatorRoles |-> OperatorChain(c, choice, o)] ELSE << >>
      /\ new = [view |-> new.view, policy |-> new.policy]
  BY DEF Apply
<1> HIDE DEF new
<1>2. ASSUME NEW r \in Roles
      PROVE  /\ new.view[r] \in View
             /\ new.view[r].preferred # << >> /\ new.view[r].fallback # << >>
             /\ new.view[r].hints # {}
             /\ Identifiers(new, r) = expected(r)
  <2>1. new.view[r] = RoleView(c, choice, r)
    BY <1>1
  <2> DEFINE v == new.view[r]
  <2>2. Identifiers(new, r) = Firsts(v.preferred \o v.fallback)
    BY DEF Identifiers
  <2>3. /\ v \in View /\ v.preferred # << >> /\ v.fallback # << >> /\ v.hints # {}
        /\ Firsts(v.preferred \o v.fallback) = expected(r)
    BY <2>1, ChosenView
  <2> QED BY <2>2, <2>3
<1>3. new.view \in [Roles -> View]
  BY <1>1, <1>2
<1>4. \A r \in DOMAIN choice : r \in Roles
  BY ChoiceTypes
<1> HIDE DEF expected
<1>5. CASE ~HasPolicy(c)
  <2>1. new.policy = << >> /\ DOMAIN new.policy = {}
    BY <1>1, <1>5
  <2>2. ~HasPolicy(new)
    BY <2>1 DEF HasPolicy
  <2>3. new \in Config
    BY <1>1, <1>3, <2>1 DEF Config
  <2>4. Valid(new)
    BY <1>2, <2>2, <2>3 DEF Valid
  <2>5. Applicable(c, choice)
    BY <1>5, <2>4 DEF Applicable, new
  <2> QED BY <1>2, <2>1, <2>5 DEF new, expected
<1>6. CASE HasPolicy(c)
  <2>1. /\ new.policy = [o \in OperatorRoles |-> OperatorChain(c, choice, o)]
        /\ DOMAIN new.policy = OperatorRoles
    BY <1>1, <1>6
  <2>2. ASSUME NEW o \in OperatorRoles
        PROVE  /\ new.policy[o] \in Seq(Entry) /\ ChainValid(new.policy[o])
               /\ o \notin {OperatorOf[r] : r \in DOMAIN choice} => new.policy[o] = c.policy[o]
               /\ \A r \in DOMAIN choice : OperatorOf[r] = o =>
                     ModelsOf(new.policy[o])
                       = <<choice[r]>> \o Without(Identifiers(c, r), choice[r])
    <3> DEFINE chain == OperatorChain(c, choice, o)
    <3>1. new.policy[o] = chain
      BY <2>1
    <3>2. /\ chain \in Seq(Entry) /\ ChainValid(chain)
          /\ o \notin {OperatorOf[r] : r \in DOMAIN choice} => chain = c.policy[o]
          /\ \A r \in DOMAIN choice : OperatorOf[r] = o =>
                ModelsOf(chain) = <<choice[r]>> \o Without(Identifiers(c, r), choice[r])
      BY <1>6, ChosenChain
    <3> HIDE DEF chain
    <3> QED BY <3>1, <3>2
  <2>3. new.policy \in [OperatorRoles -> Seq(Entry)]
    BY <2>1, <2>2
  <2>4. new \in Config
    BY <1>1, <1>3, <2>3 DEF Config
  <2>5. ASSUME NEW r \in Roles
        PROVE  Identifiers(new, r) = ModelsOf(new.policy[OperatorOf[r]])
    <3>1. OperatorOf[r] \in OperatorRoles
      BY PolicyAssumption
    <3>2. CASE r \in DOMAIN choice
      BY <1>2, <2>2, <3>1, <3>2 DEF expected
    <3>3. CASE r \notin DOMAIN choice
      <4>1. OperatorOf[r] \notin {OperatorOf[q] : q \in DOMAIN choice}
        BY <1>4, <3>3, PolicyAssumption
      <4>2. new.policy[OperatorOf[r]] = c.policy[OperatorOf[r]]
        BY <2>2, <3>1, <4>1
      <4>3. Identifiers(c, r) = ModelsOf(c.policy[OperatorOf[r]])
        BY <1>6 DEF Valid
      <4>4. Identifiers(new, r) = Identifiers(c, r)
        BY <1>2, <3>3 DEF expected
      <4> QED BY <4>2, <4>3, <4>4
    <3> QED BY <3>2, <3>3
  <2>6. Valid(new)
    BY <1>2, <2>2, <2>4, <2>5 DEF Valid
  <2>7. \A r \in DOMAIN choice : choice[r] \in ToSet(ModelsOf(c.policy[OperatorOf[r]]))
    <3> TAKE r \in DOMAIN choice
    <3>1. Identifiers(c, r) = ModelsOf(c.policy[OperatorOf[r]])
      BY <1>4, <1>6 DEF Valid
    <3> QED BY <3>1
  <2>8. Applicable(c, choice)
    BY <2>6, <2>7 DEF Applicable, new
  <2> QED BY <1>2, <2>1, <2>2, <2>8 DEF new, expected
<1> QED BY <1>5, <1>6

\* A choice of listed models is accepted by any valid configuration, with or
\* without operator_policy: both views of the role have it first and all else
\* in its order, duplicates and fallbacks included, and no other role or chain
\* changes (apply_role_selections).
THEOREM ListedChoiceIsHonoured == Spec => []ListedChoiceHonoured
<1>1. ListedChoiceHonoured
  <2> SUFFICES ASSUME Readable(file), NEW choice \in Selections,
                      \A r \in DOMAIN choice : choice[r] \in ToSet(Identifiers(file.config, r))
               PROVE  LET new == Apply(file.config, choice)
                          expected(r) ==
                              IF r \in DOMAIN choice
                              THEN <<choice[r]>> \o Without(Identifiers(file.config, r), choice[r])
                              ELSE Identifiers(file.config, r)
                      IN  /\ Applicable(file.config, choice)
                          /\ \A r \in Roles : Identifiers(new, r) = expected(r)
                          /\ \A o \in DOMAIN new.policy \ {OperatorOf[r] : r \in DOMAIN choice} :
                                new.policy[o] = file.config.policy[o]
    BY DEF ListedChoiceHonoured
  <2>1. Valid(file.config)
    BY DEF Readable
  <2> QED BY <2>1, ListedChoice
<1> QED BY <1>1, PTL

-----------------------------------------------------------------------------
(* The policy planes: no state is involved.                                *)

LEMMA CancelRight ==
    ASSUME NEW S, NEW s \in Seq(S), NEW t \in Seq(S), NEW v \in Seq(S), s \o v = t \o v
    PROVE  s = t
<1>1. /\ Len(s \o v) = Len(s) + Len(v) /\ Len(t \o v) = Len(t) + Len(v)
      /\ Len(s) \in Nat /\ Len(t) \in Nat /\ Len(v) \in Nat
  BY ConcatProperties
<1>2. Len(s) = Len(t)
  BY <1>1
<1>3. ASSUME NEW i \in 1..Len(s) PROVE s[i] = t[i]
  <2>1. (s \o v)[i] = s[i] /\ (t \o v)[i] = t[i]
    BY <1>1, <1>2, ConcatProperties
  <2> QED BY <2>1
<1> QED BY <1>2, <1>3, SeqEqual

LEMMA SameEndpoints ==
    ASSUME NEW c, NEW d, NEW o \in OperatorRoles,
           c.policy[o] \in Seq(Entry), d.policy[o] \in Seq(Entry),
           Translatable(c, Runtime), Translatable(d, Runtime),
           Translation(c, Runtime) = Translation(d, Runtime)
    PROVE  c.policy[o] = d.policy[o]
<1>1. /\ DOMAIN c.policy[o] = 1..Len(c.policy[o])
      /\ DOMAIN d.policy[o] = 1..Len(d.policy[o])
      /\ Len(c.policy[o]) \in Nat /\ Len(d.policy[o]) \in Nat
  OBVIOUS
<1>2. Translation(c, Runtime)[o] = Translation(d, Runtime)[o]
  OBVIOUS
<1>3. DOMAIN c.policy[o] = DOMAIN d.policy[o]
  BY <1>2 DEF Translation
<1>4. ASSUME NEW i \in DOMAIN c.policy[o]
      PROVE  c.policy[o][i] = d.policy[o][i]
  <2>1. PICK p \in EndpointsFor(Runtime, c.policy[o][i]) :
            EndpointsFor(Runtime, c.policy[o][i]) = {p}
    BY DEF Translatable
  <2>2. PICK q \in EndpointsFor(Runtime, d.policy[o][i]) :
            EndpointsFor(Runtime, d.policy[o][i]) = {q}
    BY <1>3 DEF Translatable
  <2>3. Translation(c, Runtime)[o][i] = p /\ Translation(d, Runtime)[o][i] = q
    BY <1>3, <2>1, <2>2 DEF Translation
  <2>4. p = q
    BY <1>2, <2>3
  <2> QED BY <2>1, <2>2, <2>4 DEF EndpointsFor
<1>5. Len(c.policy[o]) = Len(d.policy[o])
  BY <1>1, <1>3
<1> QED BY <1>1, <1>4, <1>5, SeqEqual

LEMMA ChangedPlanes ==
    ASSUME NEW c \in Config, NEW choice \in Selections,
           Applicable(c, choice),
           PlanesVerify(c, Runtime), PlanesVerify(Apply(c, choice), Runtime)
    PROVE  Apply(c, choice) = c
<1> DEFINE d == Apply(c, choice)
<1>1. d \in Config /\ HasPolicy(c) /\ HasPolicy(d)
  BY DEF Applicable, Valid, PlanesVerify
<1>2. /\ c.policy \in [OperatorRoles -> Seq(Entry)]
      /\ d.policy \in [OperatorRoles -> Seq(Entry)]
      /\ c.view \in [Roles -> View] /\ d.view \in [Roles -> View]
  BY <1>1 DEF Config, HasPolicy
<1>3. Translatable(c, Runtime) /\ Translatable(d, Runtime)
      /\ Translation(c, Runtime) = Translation(d, Runtime)
  BY DEF PlanesVerify
<1>4. \A o \in OperatorRoles : d.policy[o] = c.policy[o]
  BY <1>2, <1>3, SameEndpoints
<1>5. d.policy = c.policy
  BY <1>2, <1>4
<1>6. ASSUME NEW r \in Roles
      PROVE  d.view[r] = c.view[r]
  <2>1. c.view[r] \in View /\ d.view[r] \in View
    BY <1>2
  <2>2. d.view[r].preferred \o d.view[r].fallback = c.view[r].preferred \o c.view[r].fallback
    BY <1>5 DEF PlanesVerify
  <2>3. d.view[r] = RoleView(c, choice, r)
    BY DEF Apply
  <2>4. d.view[r].fallback = c.view[r].fallback /\ d.view[r].hints = c.view[r].hints
    BY <2>1, <2>3 DEF RoleView, View
  <2>5. /\ d.view[r].preferred \in Seq(Models) /\ c.view[r].preferred \in Seq(Models)
        /\ c.view[r].fallback \in Seq(Models)
    BY <2>1 DEF View
  <2>6. d.view[r].preferred = c.view[r].preferred
    BY <2>2, <2>4, <2>5, CancelRight
  <2>7. \A v, w \in View : /\ v.preferred = w.preferred /\ v.fallback = w.fallback
                           /\ v.hints = w.hints
                           => v = w
    BY DEF View
  <2> QED BY <2>1, <2>4, <2>6, <2>7
<1>7. d.view = c.view
  BY <1>2, <1>6
<1> QED BY <1>1, <1>5, <1>7 DEF Config

\* A choice that leaves both planes accepted changed nothing: translated to
\* endpoints the chains must be those of runtime-routing.yaml, so they are the
\* old ones, and with fallback as it was the preferred models are, too.
THEOREM OnlyNoChangeVerifiesHolds == Spec => []OnlyNoChangeVerifies
<1>1. OnlyNoChangeVerifies
  <2> SUFFICES ASSUME Readable(file), PlanesVerify(file.config, Runtime),
                      NEW choice \in Selections, Applicable(file.config, choice),
                      PlanesVerify(Apply(file.config, choice), Runtime)
               PROVE  Apply(file.config, choice) = file.config
    BY DEF OnlyNoChangeVerifies
  <2> QED BY ChangedPlanes DEF Readable, Valid
<1> QED BY <1>1, PTL

-----------------------------------------------------------------------------
(* models.yaml under its guard                                              *)

\* Every step as models.yaml sees it.
ConfigNext ==
    \/ Edit
    \/ \E p \in Operator : Ask(p) \/ ConfigStep(p)
    \/ UNCHANGED configVars

LEMMA ConfigView == [Next]_vars => ConfigNext
<1> USE DEF ConfigNext
<1>1. CASE Move
  BY <1>1 DEF Move, WriteToml, WriteHome, WriteCache, Tick, Probe, adviceVars
<1>2. CASE \E p \in Operator : ConfigStep(p) /\ UNCHANGED <<supplyVars, adviceVars, moves>>
  BY <1>2
<1>3. CASE report.at = "idle" /\ (StartReader \/ ReaderStep) /\ UNCHANGED <<configVars, adviceVars, moves>>
  BY <1>3
<1>4. CASE DoctorStep
  BY <1>4 DEF DoctorStep, DoctorConfig, DoctorSource, DoctorIntelligence, DoctorResolutions, Running
<1>5. CASE Advise
  BY <1>5 DEF Advise
<1>6. CASE UNCHANGED vars
  BY <1>6 DEF vars, configVars
<1> QED BY <1>1, <1>2, <1>3, <1>4, <1>5, <1>6 DEF Next

LEMMA NoCommandTyped == NoCommand \in Command
  BY DEF NoCommand, Command, Stage, Mode, RoleChoices, Bytes

LEMMA DumpedTyped ==
    ASSUME NEW c, NEW choice, Applicable(c, choice)
    PROVE  Dumped(Apply(c, choice)) \in Bytes
  BY DEF Applicable, Valid, Dumped, Bytes

\* The file always parses, is broken or is absent, and what a command holds has
\* the types of what it read.
THEOREM ConfigTypeCorrect == Spec => []ConfigTypeOK
<1>1. Init => ConfigTypeOK
  BY ConfigureAssumption, NoCommandTyped DEF Init, ConfigInit, ConfigTypeOK
<1>2. ConfigTypeOK /\ [Next]_vars => ConfigTypeOK'
  <2> SUFFICES ASSUME ConfigTypeOK, ConfigNext PROVE ConfigTypeOK'
    BY ConfigView
  <2> USE DEF ConfigTypeOK
  <2>1. ASSUME NEW b \in Bytes
        PROVE  SeenBy(b) \in [Operator -> Command]
    BY DEF SeenBy, Command
  <2>2. CASE Edit
    BY <2>1, <2>2, ConfigureAssumption DEF Edit
  <2>3. ASSUME NEW p \in Operator, Ask(p) PROVE ConfigTypeOK'
    <3>1. PICK choice \in Selections, mode \in Mode, expect \in Remembered \cup {file} :
              op' = [op EXCEPT ![p] =
                        [NoCommand EXCEPT !.at = "asked", !.mode = mode, !.choice = choice,
                                          !.expect = expect, !.since = {file}]]
      BY <2>3 DEF Ask
    <3>2. choice \in RoleChoices /\ expect \in Bytes /\ {file} \in SUBSET Bytes
      BY ConfigureAssumption
    <3>3. [NoCommand EXCEPT !.at = "asked", !.mode = mode, !.choice = choice,
                            !.expect = expect, !.since = {file}] \in Command
      BY <3>2, NoCommandTyped DEF Command, Stage
    <3> QED BY <2>3, <3>1, <3>3 DEF Ask
  <2>4. ASSUME NEW p \in Operator, ConfigStep(p) PROVE ConfigTypeOK'
    <3>1. ASSUME End(p) PROVE op' \in [Operator -> Command]
      BY <3>1, NoCommandTyped DEF End
    <3>2. ASSUME NEW at \in Stage, Advance(p, at) PROVE op' \in [Operator -> Command]
      BY <3>2 DEF Advance, Command
    <3>3. CASE Load(p)
      BY <3>1, <3>2, <3>3 DEF Load, Stage
    <3>4. CASE Hash(p)
      BY <3>1, <3>4 DEF Hash, Command, Stage
    <3>5. CASE Plan(p)
      BY <3>1, <3>5, DumpedTyped DEF Plan, Command, Stage
    <3>6. CASE Copy(p)
      BY <3>2, <3>6 DEF Copy, Command, Stage
    <3>7. CASE CopyFails(p)
      BY <3>1, <3>7 DEF CopyFails
    <3>8. CASE WriteTemp(p)
      BY <3>1, <3>2, <3>8 DEF WriteTemp, Stage
    <3>9. CASE Replace(p)
      BY <2>1, <3>9, NoCommandTyped DEF Replace, Command
    <3>10. CASE Die(p)
      BY <3>1, <3>10 DEF Die
    <3> QED BY <2>4, <3>3, <3>4, <3>5, <3>6, <3>7, <3>8, <3>9, <3>10 DEF ConfigStep
  <2>5. CASE UNCHANGED configVars
    BY <2>5 DEF configVars
  <2> QED BY <2>2, <2>3, <2>4, <2>5 DEF ConfigNext
<1> QED BY <1>1, <1>2, PTL DEF Spec

\* What a command has seen, and what the guard has made sure of at each stage.
Watching(p) ==
    /\ op[p].at = "idle" => op[p].since = {} /\ op[p].expect = Absent
    /\ op[p].at # "idle" => file \in op[p].since /\ op[p].choice \in Selections

Guarded(p) ==
    op[p].at \in {"hashed", "planned", "copied", "staged"} =>
        /\ op[p].bytes \in op[p].since
        /\ op[p].mode = "approved" => op[p].bytes = op[p].expect

Approved(p) ==
    op[p].at \in {"planned", "copied", "staged"} =>
        /\ op[p].mode = "approved"
        /\ \E v \in op[p].since : IsChange(v, op[p].new)

BackedUp(p) ==
    op[p].at \in {"copied", "staged"} => op[p].bytes \in backups

GuardInv == \A p \in Operator : Watching(p) /\ Guarded(p) /\ Approved(p) /\ BackedUp(p)

LEMMA ChangeMade ==
    ASSUME NEW v, NEW choice \in Selections, Readable(v), Applicable(v.config, choice)
    PROVE  IsChange(v, Dumped(Apply(v.config, choice)))
  BY DEF IsChange

\* A command ends or advances, and nothing else changes.
LEMMA GuardEnd ==
    ASSUME ConfigTypeOK, GuardInv, NEW p \in Operator, End(p), file' = file,
           backups \subseteq backups'
    PROVE  GuardInv'
<1> SUFFICES ASSUME NEW q \in Operator
             PROVE  (Watching(q) /\ Guarded(q) /\ Approved(q) /\ BackedUp(q))'
  BY DEF GuardInv
<1>1. CASE q = p
  BY <1>1 DEF End, NoCommand, Watching, Guarded, Approved, BackedUp, ConfigTypeOK
<1>2. CASE q # p
  <2>1. op'[q] = op[q]
    BY <1>2 DEF End, ConfigTypeOK
  <2> QED BY <2>1 DEF GuardInv, Watching, Guarded, Approved, BackedUp
<1> QED BY <1>1, <1>2

\* The others are where they were, and the file only gained what they see.
LEMMA GuardSeen ==
    ASSUME ConfigTypeOK, GuardInv, NEW q \in Operator, NEW b, file' = b,
           op'[q] = SeenBy(b)[q], UNCHANGED backups
    PROVE  (Watching(q) /\ Guarded(q) /\ Approved(q) /\ BackedUp(q))'
<1>1. CASE op[q].at = "idle"
  BY <1>1 DEF SeenBy, GuardInv, Watching, Guarded, Approved, BackedUp
<1>2. CASE op[q].at # "idle"
  <2>1. op'[q] = [op[q] EXCEPT !.since = op[q].since \cup {b}]
    BY <1>2 DEF SeenBy
  <2>2. /\ op'[q].at = op[q].at /\ op'[q].mode = op[q].mode /\ op'[q].choice = op[q].choice
        /\ op'[q].expect = op[q].expect /\ op'[q].bytes = op[q].bytes /\ op'[q].new = op[q].new
        /\ op'[q].since = op[q].since \cup {b}
    BY <2>1 DEF ConfigTypeOK, Command
  <2> QED BY <1>2, <2>2 DEF GuardInv, Watching, Guarded, Approved, BackedUp
<1> QED BY <1>1, <1>2

LEMMA GuardKept == ConfigTypeOK /\ GuardInv /\ ConfigNext => GuardInv'
<1> SUFFICES ASSUME ConfigTypeOK, GuardInv, ConfigNext PROVE GuardInv'
  OBVIOUS
<1> DEFINE ok(q) == Watching(q) /\ Guarded(q) /\ Approved(q) /\ BackedUp(q)
<1>1. CASE Edit
  BY <1>1, GuardSeen DEF Edit, GuardInv
<1>2. ASSUME NEW p \in Operator, Ask(p) PROVE GuardInv'
  <2>1. PICK choice \in Selections, mode \in Mode, expect \in Remembered \cup {file} :
            op' = [op EXCEPT ![p] =
                      [NoCommand EXCEPT !.at = "asked", !.mode = mode, !.choice = choice,
                                        !.expect = expect, !.since = {file}]]
    BY <1>2 DEF Ask
  <2>2. op'[p].at = "asked" /\ op'[p].since = {file} /\ op'[p].choice = choice
    BY <2>1 DEF ConfigTypeOK, NoCommand
  <2>3. ASSUME NEW q \in Operator \ {p} PROVE op'[q] = op[q]
    BY <2>1 DEF ConfigTypeOK
  <2>4. file' = file /\ backups' = backups
    BY <1>2 DEF Ask
  <2> QED BY <2>2, <2>3, <2>4 DEF GuardInv, Watching, Guarded, Approved, BackedUp
<1>3. ASSUME NEW p \in Operator, ConfigStep(p) PROVE GuardInv'
  <2>1. ASSUME NEW at \in Stage \ {"idle"}, Advance(p, at), file' = file,
               backups \subseteq backups', op[p].at # "idle",
               at \in {"loaded", "copied", "staged"},
               at \in {"copied", "staged"} =>
                  op[p].at \in {"planned", "copied"} /\ op[p].bytes \in backups'
        PROVE  GuardInv'
    <3>1. /\ op'[p].at = at /\ op'[p].mode = op[p].mode /\ op'[p].choice = op[p].choice
          /\ op'[p].expect = op[p].expect /\ op'[p].bytes = op[p].bytes
          /\ op'[p].new = op[p].new /\ op'[p].since = op[p].since
      BY <2>1 DEF Advance, ConfigTypeOK, Command
    <3>2. ASSUME NEW q \in Operator \ {p} PROVE op'[q] = op[q]
      BY <2>1 DEF Advance, ConfigTypeOK
    <3> QED BY <2>1, <3>1, <3>2 DEF GuardInv, Watching, Guarded, Approved, BackedUp
  <2>2. CASE Load(p)
    BY <2>1, <2>2, GuardEnd DEF Load, Stage
  <2>3. CASE Hash(p)
    <3>1. CASE op' = [op EXCEPT ![p].at = "hashed", ![p].bytes = file]
      <4>1. /\ op'[p].at = "hashed" /\ op'[p].mode = op[p].mode /\ op'[p].choice = op[p].choice
            /\ op'[p].expect = op[p].expect /\ op'[p].bytes = file
            /\ op'[p].since = op[p].since
        BY <3>1 DEF ConfigTypeOK, Command
      <4>2. ASSUME NEW q \in Operator \ {p} PROVE op'[q] = op[q]
        BY <3>1 DEF ConfigTypeOK
      <4>3. op[p].at = "loaded" /\ file' = file /\ backups' = backups
        BY <2>3 DEF Hash
      <4>4. op[p].mode = "approved" => file = op[p].expect
        BY <2>3, <4>1, <4>3 DEF Hash, End, NoCommand, ConfigTypeOK
      <4> QED BY <4>1, <4>2, <4>3, <4>4 DEF GuardInv, Watching, Guarded, Approved, BackedUp
    <3> QED BY <2>3, <3>1, GuardEnd DEF Hash
  <2>4. CASE Plan(p)
    <3>1. CASE /\ Readable(file) /\ Applicable(file.config, op[p].choice)
               /\ op[p].mode = "approved"
               /\ op' = [op EXCEPT ![p].at = "planned",
                                   ![p].new = Dumped(Apply(file.config, op[p].choice))]
      <4>1. /\ op'[p].at = "planned" /\ op'[p].mode = op[p].mode
            /\ op'[p].choice = op[p].choice /\ op'[p].expect = op[p].expect
            /\ op'[p].bytes = op[p].bytes /\ op'[p].since = op[p].since
            /\ op'[p].new = Dumped(Apply(file.config, op[p].choice))
        BY <3>1 DEF ConfigTypeOK, Command
      <4>2. ASSUME NEW q \in Operator \ {p} PROVE op'[q] = op[q]
        BY <3>1 DEF ConfigTypeOK
      <4>3. op[p].at = "hashed" /\ file' = file /\ backups' = backups
        BY <2>4 DEF Plan
      <4>4. file \in op[p].since /\ op[p].choice \in Selections
        BY <4>3 DEF GuardInv, Watching
      <4>5. IsChange(file, op'[p].new)
        BY <3>1, <4>1, <4>4, ChangeMade
      <4>6. ok(p)'
        BY <3>1, <4>1, <4>3, <4>4, <4>5 DEF GuardInv, Watching, Guarded, Approved, BackedUp, IsChange
      <4>7. ASSUME NEW q \in Operator \ {p} PROVE ok(q)'
        BY <4>2, <4>3 DEF GuardInv, Watching, Guarded, Approved, BackedUp, IsChange
      <4> QED BY <4>6, <4>7 DEF GuardInv
    <3> QED BY <2>4, <3>1, GuardEnd DEF Plan
  <2>5. CASE Copy(p)
    BY <2>1, <2>5 DEF Copy, Stage
  <2>6. CASE CopyFails(p)
    BY <2>6, GuardEnd DEF CopyFails
  <2>7. CASE WriteTemp(p)
    BY <2>1, <2>7, GuardEnd DEF WriteTemp, Stage, GuardInv, BackedUp
  <2>8. CASE Replace(p)
    <3>1. ASSUME NEW q \in Operator \ {p} PROVE ok(q)'
      BY <2>8, GuardSeen DEF Replace, SeenBy, ConfigTypeOK
    <3>2. ok(p)'
      BY <2>8 DEF Replace, SeenBy, NoCommand, Watching, Guarded, Approved, BackedUp, ConfigTypeOK
    <3> QED BY <3>1, <3>2 DEF GuardInv
  <2>9. CASE Die(p)
    BY <2>9, GuardEnd DEF Die
  <2> QED BY <1>3, <2>2, <2>3, <2>4, <2>5, <2>6, <2>7, <2>8, <2>9 DEF ConfigStep
<1>4. CASE UNCHANGED configVars
  BY <1>4 DEF configVars, GuardInv, Watching, Guarded, Approved, BackedUp, IsChange
<1> QED BY <1>1, <1>2, <1>3, <1>4 DEF ConfigNext

LEMMA GuardHolds == Spec => [](ConfigTypeOK /\ GuardInv)
<1>1. Init => GuardInv
  BY DEF Init, ConfigInit, NoCommand, GuardInv, Watching, Guarded, Approved, BackedUp
<1>2. ConfigTypeOK /\ GuardInv /\ [Next]_vars => GuardInv'
  BY ConfigView, GuardKept
<1> QED BY <1>1, <1>2, ConfigTypeCorrect, PTL DEF Spec

\* The abstract register, read off the commands.
Seeing == [p \in Operator |-> op[p].since]
For == [p \in Operator |-> op[p].expect]
Copies == backups \ {Torn}

LEMMA NeverTorn == Torn \notin Bytes
  BY DEF Torn, Bytes, Absent, Broken

\* A command that ends gives up, one that advances shows nothing.
LEMMA EndGivesUp ==
    ASSUME ConfigTypeOK, NEW p \in Operator, End(p), file' = file, Copies' = Copies
    PROVE  Register!GiveUp(p)
<1>1. Seeing' = [Seeing EXCEPT ![p] = {}] /\ For' = [For EXCEPT ![p] = Absent]
  BY DEF End, ConfigTypeOK, NoCommand, Seeing, For
<1> QED BY <1>1 DEF Register!GiveUp, Seeing, For, Copies

LEMMA SeenByAll ==
    ASSUME ConfigTypeOK, GuardInv, NEW b, NEW q \in Operator
    PROVE  /\ SeenBy(b)[q].since = IF Seeing[q] = {} THEN {} ELSE Seeing[q] \cup {b}
           /\ SeenBy(b)[q].expect = For[q]
<1>1. CASE op[q].at = "idle"
  BY <1>1 DEF SeenBy, Seeing, For, GuardInv, Watching
<1>2. CASE op[q].at # "idle"
  <2>1. file \in op[q].since
    BY <1>2 DEF GuardInv, Watching
  <2>2. SeenBy(b)[q] = [op[q] EXCEPT !.since = op[q].since \cup {b}]
    BY <1>2 DEF SeenBy
  <2> QED BY <2>1, <2>2 DEF Seeing, For, ConfigTypeOK, Command
<1> QED BY <1>1, <1>2

LEMMA StepsRefine ==
    ConfigTypeOK /\ GuardInv /\ ConfigNext => [Register!Next]_(Register!vars)
<1> SUFFICES ASSUME ConfigTypeOK, GuardInv, ConfigNext
             PROVE  Register!Next \/ UNCHANGED <<file, Copies, Seeing, For>>
  BY DEF Register!vars, Copies, Seeing, For
<1> USE DEF Register!Next
<1>1. CASE Edit
  <2>1. Seeing' = [p \in Operator |-> IF Seeing[p] = {} THEN {} ELSE Seeing[p] \cup {file'}]
    BY <1>1, SeenByAll DEF Edit, Seeing
  <2>2. For' = For
    <3>1. \A q \in Operator : op'[q].expect = op[q].expect
      BY <1>1, SeenByAll DEF Edit, For
    <3> QED BY <3>1 DEF For
  <2>3. Copies' = Copies
    BY <1>1 DEF Edit, Copies
  <2> QED BY <2>1, <2>2, <2>3 DEF Register!Edit, Register!Seen, Seeing, For, Copies
<1>2. ASSUME NEW p \in Operator, Ask(p) PROVE Register!Begin(p)
  <2>1. PICK choice \in Selections, mode \in Mode, expect \in Remembered \cup {file} :
            op' = [op EXCEPT ![p] =
                      [NoCommand EXCEPT !.at = "asked", !.mode = mode, !.choice = choice,
                                        !.expect = expect, !.since = {file}]]
    BY <1>2 DEF Ask
  <2>2. Seeing' = [Seeing EXCEPT ![p] = {file}] /\ For' = [For EXCEPT ![p] = expect]
    BY <2>1 DEF ConfigTypeOK, NoCommand, Seeing, For
  <2>3. Seeing[p] = {}
    BY <1>2 DEF Ask, GuardInv, Watching, Seeing
  <2>4. For' = [For EXCEPT ![p] = For'[p]]
    BY <2>2 DEF For
  <2>5. file' = file /\ Copies' = Copies
    BY <1>2 DEF Ask, Copies
  <2> QED BY <2>2, <2>3, <2>4, <2>5 DEF Register!Begin, Seeing, For, Copies
<1>3. ASSUME NEW p \in Operator, ConfigStep(p)
      PROVE  \/ UNCHANGED <<file, Copies, Seeing, For>>
             \/ Register!Keep(p) \/ Register!Commit(p) \/ Register!GiveUp(p)
  <2>1. ASSUME NEW at, Advance(p, at) PROVE UNCHANGED <<Seeing, For>>
    BY <2>1 DEF Advance, ConfigTypeOK, Command, Seeing, For
  <2>2. CASE Load(p)
    BY <2>1, <2>2, EndGivesUp DEF Load, Copies
  <2>3. CASE Hash(p)
    <3>1. CASE op' = [op EXCEPT ![p].at = "hashed", ![p].bytes = file]
      BY <2>3, <3>1 DEF Hash, ConfigTypeOK, Command, Seeing, For, Copies
    <3> QED BY <2>3, <3>1, EndGivesUp DEF Hash, Copies
  <2>4. CASE Plan(p)
    <3>1. CASE op' = [op EXCEPT ![p].at = "planned",
                                ![p].new = Dumped(Apply(file.config, op[p].choice))]
      BY <2>4, <3>1 DEF Plan, ConfigTypeOK, Command, Seeing, For, Copies
    <3> QED BY <2>4, <3>1, EndGivesUp DEF Plan, Copies
  <2>5. CASE Copy(p)
    <3>1. op[p].bytes \in Seeing[p] /\ op[p].bytes # Torn
      BY <2>5, NeverTorn DEF Copy, GuardInv, Guarded, Seeing, ConfigTypeOK, Command
    <3>2. Copies' = Copies \cup {op[p].bytes}
      BY <2>5, <3>1 DEF Copy, Copies
    <3>3. file' = file /\ Seeing' = Seeing /\ For' = For
      BY <2>1, <2>5 DEF Copy
    <3> QED BY <3>1, <3>2, <3>3 DEF Register!Keep, Seeing, For, Copies
  <2>6. CASE CopyFails(p)
    BY <2>6, EndGivesUp DEF CopyFails, Copies
  <2>7. CASE WriteTemp(p)
    BY <2>1, <2>7, EndGivesUp DEF WriteTemp, Copies
  <2>8. CASE Replace(p)
    <3>1. /\ For[p] = op[p].bytes /\ op[p].bytes \in Seeing[p] /\ op[p].bytes \in Copies
          /\ \E v \in Seeing[p] : IsChange(v, op[p].new)
      BY <2>8, NeverTorn DEF Replace, GuardInv, Guarded, Approved, BackedUp,
                             For, Seeing, Copies, ConfigTypeOK, Command
    <3>2. file' = op[p].new /\ Copies' = Copies
      BY <2>8 DEF Replace, Copies
    <3>3. \A q \in Operator : op'[q] = IF q = p THEN NoCommand ELSE SeenBy(file')[q]
      BY <2>8 DEF Replace, SeenBy
    <3>4. /\ op'[p].since = {} /\ op'[p].expect = Absent
          /\ \A q \in Operator \ {p} :
                /\ op'[q].since = IF op[q].since = {} THEN {} ELSE op[q].since \cup {file'}
                /\ op'[q].expect = op[q].expect
      <4>1. op'[p].since = {} /\ op'[p].expect = Absent
        BY <3>3 DEF NoCommand
      <4>2. ASSUME NEW q \in Operator \ {p}
            PROVE  /\ op'[q].since = IF op[q].since = {} THEN {} ELSE op[q].since \cup {file'}
                   /\ op'[q].expect = op[q].expect
        <5>1. op'[q] = SeenBy(file')[q]
          BY <3>3
        <5> QED BY <5>1, SeenByAll DEF Seeing, For
      <4> QED BY <4>1, <4>2
    <3>5. For' = [For EXCEPT ![p] = Absent]
      <4>1. \A q \in Operator : op'[q].expect = IF q = p THEN Absent ELSE op[q].expect
        BY <3>4
      <4> QED BY <4>1 DEF For
    <3>6. Seeing' = [[q \in Operator |-> IF Seeing[q] = {} THEN {} ELSE Seeing[q] \cup {file'}]
                        EXCEPT ![p] = {}]
      <4>1. \A q \in Operator :
                op'[q].since = IF q = p THEN {}
                               ELSE IF op[q].since = {} THEN {} ELSE op[q].since \cup {file'}
        BY <3>4
      <4> QED BY <4>1 DEF Seeing
    <3> QED BY <3>1, <3>2, <3>5, <3>6 DEF Register!Commit, Register!Seen, Seeing, For, Copies
  <2>9. CASE Die(p)
    BY <2>9, EndGivesUp DEF Die, Copies
  <2> QED BY <1>3, <2>2, <2>3, <2>4, <2>5, <2>6, <2>7, <2>8, <2>9 DEF ConfigStep
<1>4. CASE UNCHANGED configVars
  BY <1>4 DEF configVars, Copies, Seeing, For
<1> QED BY <1>1, <1>2, <1>3, <1>4 DEF ConfigNext

\* What is put in place of models.yaml is a choice applied to contents the file
\* had during the command, and the contents the operator approved were there,
\* too, and are in a complete backup, for any number of commands and editors.
THEOREM RefinesGuardedRegister == Spec => ImplementsGuardedRegister
<1>1. Init => Register!Init
  BY DEF Init, ConfigInit, NoCommand, Register!Init
<1>2. ConfigTypeOK /\ GuardInv /\ [Next]_vars => [Register!Next]_(Register!vars)
  BY ConfigView, StepsRefine
<1> QED BY <1>1, <1>2, GuardHolds, PTL DEF Spec, ImplementsGuardedRegister, Register!Spec

-----------------------------------------------------------------------------
(* Profiles and time                                                        *)

\* What the cache and the clock may be.
ClockInv == cache \in Caches /\ clock \in Nat

LEMMA ClockKept == Spec => []ClockInv
<1>1. Init => ClockInv
  BY DoctorAssumption DEF Init, ClockInv
<1>2. ClockInv /\ [Next]_vars => ClockInv'
  <2> SUFFICES ASSUME ClockInv, [Next]_vars PROVE ClockInv'
    OBVIOUS
  <2>1. CASE UNCHANGED <<cache, clock>>
    BY <2>1 DEF ClockInv
  <2>2. CASE WriteCache
    BY <2>2 DEF WriteCache, ClockInv
  <2>3. CASE Tick
    BY <2>3 DEF Tick, ClockInv
  <2> QED BY <2>1, <2>2, <2>3 DEF Next, Move, Probe, adviceVars, DoctorStep, DoctorConfig,
        DoctorSource, DoctorIntelligence, DoctorResolutions, Advise, vars
<1> QED BY <1>1, <1>2, PTL DEF Spec

LEMMA OnlyTickMovesTheClock == [Next]_vars /\ clock' # clock => Tick
<1> SUFFICES ASSUME [Next]_vars, clock' # clock PROVE Tick
  OBVIOUS
<1> QED BY DEF Next, Move, Probe, WriteCache, adviceVars, DoctorStep, DoctorConfig, DoctorSource,
        DoctorIntelligence, DoctorResolutions, Advise, vars

LEMMA FreshnessAges ==
    ASSUME NEW e, e.observed \in Int, e.expires \in Int, NEW n \in Nat
    PROVE  /\ Freshness(e, n) \in {"UNKNOWN", "ACTIVE", "STALE"}
           /\ Freshness(e, n) # "UNKNOWN" => Freshness(e, n + 1) # "UNKNOWN"
           /\ Freshness(e, n) = "STALE" => Freshness(e, n + 1) = "STALE"
           /\ Freshness(e, n + 1) \in {"UNKNOWN", "ACTIVE", "STALE"}
  BY DEF Freshness, Never

LEMMA StatusAges ==
    ASSUME NEW used, \A e \in used : e.observed \in Int /\ e.expires \in Int, NEW claims,
           NEW n \in Nat
    PROVE  LET before == StatusOf(claims, {Freshness(e, n) : e \in used})
               after == StatusOf(claims, {Freshness(e, n + 1) : e \in used})
           IN  Age(before) <= Age(after) /\ (before = "CONFLICTED" <=> after = "CONFLICTED")
<1> DEFINE was == {Freshness(e, n) : e \in used}
           is == {Freshness(e, n + 1) : e \in used}
           before == StatusOf(claims, was)
           after == StatusOf(claims, is)
<1> SUFFICES Age(before) <= Age(after) /\ (before = "CONFLICTED" <=> after = "CONFLICTED")
  OBVIOUS
<1>1. /\ was = {} => is = {}
      /\ was # {} => is # {}
      /\ "UNKNOWN" \notin was => "UNKNOWN" \notin is
      /\ "STALE" \in was => "STALE" \in is
  BY FreshnessAges
<1> HIDE DEF was, is
<1> QED BY <1>1 DEF StatusOf, Age

LEMMA ProfileAges ==
    ASSUME NEW c \in Caches, NEW model, NEW n \in Nat
    PROVE  LET p == Profile(c, model, n)
               q == Profile(c, model, n + 1)
           IN  /\ Age(p.status) <= Age(q.status)
               /\ p.status = "CONFLICTED" <=> q.status = "CONFLICTED"
<1> DEFINE agreed == {k \in Claimed(model.claims) : ~Conflicting(model.claims, k)}
           ids == UNION {UNION {ToSet(d.ids) : d \in ClaimsOf(model.claims, k)} : k \in agreed}
           used == {e \in ToSet(c.evidence) : e.id \in ids}
<1>1. \A m : /\ Profile(c, model, m).status = StatusOf(model.claims, {Freshness(e, m) : e \in used})
  BY DEF Profile
<1>2. \A e \in used : e.observed \in Int /\ e.expires \in Int
  BY DoctorAssumption DEF ToSet
<1> DEFINE was == StatusOf(model.claims, {Freshness(e, n) : e \in used})
           is == StatusOf(model.claims, {Freshness(e, n + 1) : e \in used})
<1>3. Age(was) <= Age(is) /\ (was = "CONFLICTED" <=> is = "CONFLICTED")
  <2> HIDE DEF used
  <2> QED BY <1>2, StatusAges
<1>4. Profile(c, model, n).status = was /\ Profile(c, model, n + 1).status = is
  BY <1>1
<1> HIDE DEF was, is
<1> QED BY <1>3, <1>4

\* Whatever the cache holds, letting time pass without writing it only moves a
\* profile towards STALE, and never in or out of CONFLICTED.
THEOREM AgeingProved == Spec => AgeingIsOneWay
<1>1. ClockInv /\ [Next]_vars => (clock' # clock => OnlyAges)
  <2> SUFFICES ASSUME ClockInv, Tick, clock' # clock,
                      NEW p \in Profiles(cache, clock), NEW q \in Profiles(cache, clock)',
                      p.identity = q.identity
               PROVE  /\ Age(p.status) <= Age(q.status)
                      /\ p.status = "CONFLICTED" <=> q.status = "CONFLICTED"
    BY OnlyTickMovesTheClock DEF OnlyAges
  <2>1. cache' = cache /\ clock' = clock + 1 /\ cache \in Caches /\ clock \in Nat
    BY DEF Tick, ClockInv
  <2>2. q \in Profiles(cache, clock + 1)
    BY <2>1
  <2>3. Sound(cache)
    BY DEF Profiles
  <2>4. PICK m \in ToSet(cache.models) : p = Profile(cache, m, clock)
    BY DEF Profiles
  <2>5. PICK l \in ToSet(cache.models) : q = Profile(cache, l, clock + 1)
    BY <2>2 DEF Profiles
  <2>6. m.identity = l.identity
    BY <2>4, <2>5 DEF Profile
  <2>7. m = l
    BY <2>3, <2>6 DEF Sound, ToSet
  <2> QED BY <2>1, <2>4, <2>5, <2>7, ProfileAges
<1>2. ClockInv /\ [Next]_vars => [clock' # clock => OnlyAges]_vars
  BY <1>1
<1> QED BY <1>2, ClockKept, PTL DEF Spec, AgeingIsOneWay
=============================================================================
