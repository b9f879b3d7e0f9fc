---------------------------- MODULE AdviceProofs ----------------------------
(***************************************************************************)
(* Proofs about what the advisory side tells, for every cache, home,       *)
(* declaration and configuration: how profiles are ranked, what Doctor     *)
(* can report and what it dies of, and what a client is recommended.       *)
(***************************************************************************)
EXTENDS DoctorProofs, SupplyProofs

-----------------------------------------------------------------------------
(* Sums over a finite set: what the recursion of the library adds up.      *)

LEMMA OneLess ==
    ASSUME NEW D, IsFiniteSet(D), NEW s \in SUBSET D
    PROVE  /\ IsFiniteSet(s) /\ Cardinality(s) \in Nat /\ Cardinality(s) <= Cardinality(D)
           /\ Cardinality(s) = 0 <=> s = {}
           /\ \A x \in s : s \ {x} \in SUBSET D /\ Cardinality(s \ {x}) = Cardinality(s) - 1
<1>1. IsFiniteSet(s) /\ Cardinality(s) <= Cardinality(D)
  BY FS_Subset
<1>2. Cardinality(s) \in Nat /\ (Cardinality(s) = 0 <=> s = {})
  BY <1>1, FS_CardinalityType, FS_EmptySet
<1>3. \A x \in s : Cardinality(s \ {x}) = Cardinality(s) - 1
  BY <1>1, FS_RemoveElement
<1> QED BY <1>1, <1>2, <1>3

LEMMA SmallestSubset ==
    ASSUME NEW D, IsFiniteSet(D), NEW B, B \subseteq SUBSET D, B # {}
    PROVE  \E s \in B : \A t \in B : Cardinality(s) <= Cardinality(t)
<1> DEFINE T == {Cardinality(s) : s \in B}
<1>1. T \subseteq Nat /\ T # {}
  BY OneLess
<1>2. PICK n \in T : \A m \in T : n <= m
  <2> HIDE DEF T
  <2> QED BY <1>1, LeastNatural
<1> QED BY <1>2

Chosen(s) == CHOOSE x \in s : TRUE

\* What the sum over s is, if g has the sums over smaller sets.
AddsTo(f, g, s) == IF s = {} THEN 0 ELSE f[Chosen(s)] + g[s \ {Chosen(s)}]

LEMMA SumIsPart ==
    ASSUME NEW f, NEW D
    PROVE  LET F == CHOOSE g : g = [s \in SUBSET D |-> AddsTo(f, g, s)]
           IN  SumFunctionOnSet(f, D) = F[D]
  BY Zenon DEF SumFunctionOnSet, FoldFunctionOnSet, MapThenFoldSet, AddsTo, Chosen

LEMMA SumRecursion ==
    ASSUME NEW D, IsFiniteSet(D), NEW f
    PROVE  \E g : g = [s \in SUBSET D |-> AddsTo(f, g, s)]
<1> DEFINE upto(n) == {s \in SUBSET D : Cardinality(s) <= n}
           partial(g, n) == g = [s \in upto(n) |-> AddsTo(f, g, s)]
           bad == {n \in Nat : ~ \E g : partial(g, n)}
<1>1. \A s \in SUBSET D : s # {} => Chosen(s) \in s
  BY DEF Chosen
<1>2. bad = {}
  <2> SUFFICES ASSUME bad # {} PROVE FALSE
    OBVIOUS
  <2>1. PICK n \in bad : \A m \in bad : n <= m
    <3>1. bad \subseteq Nat
      OBVIOUS
    <3> HIDE DEF bad
    <3> QED BY <3>1, LeastNatural
  <2>2. n # 0
    <3>1. upto(0) = {{}}
      <4>1. \A s \in SUBSET D : Cardinality(s) <= 0 <=> s = {}
        BY OneLess
      <4>2. {} \in SUBSET D
        OBVIOUS
      <4> QED BY <4>1, <4>2
    <3> DEFINE g == [s \in {{}} |-> 0]
    <3>2. g = [s \in {{}} |-> AddsTo(f, g, s)]
      BY DEF AddsTo
    <3>3. partial(g, 0)
      BY <3>1, <3>2
    <3> QED BY <3>3
  <2>3. n - 1 \in Nat /\ n - 1 \notin bad /\ n \in Nat
    <3>1. n \in Nat
      OBVIOUS
    <3>2. n - 1 \in Nat /\ ~(n <= n - 1)
      BY <2>2, <3>1
    <3> HIDE DEF bad
    <3> QED BY <2>1, <3>1, <3>2
  <2>4. PICK g : partial(g, n - 1)
    BY <2>3
  <2> DEFINE h == [s \in upto(n) |-> AddsTo(f, g, s)]
  <2>5. ASSUME NEW s \in upto(n) PROVE AddsTo(f, h, s) = AddsTo(f, g, s)
    <3>1. CASE s = {}
      BY <3>1 DEF AddsTo
    <3>2. CASE s # {}
      <4> DEFINE t == s \ {Chosen(s)}
      <4>1. Chosen(s) \in s
        BY <1>1, <3>2
      <4>2. t \in SUBSET D /\ Cardinality(t) = Cardinality(s) - 1
        BY <4>1, OneLess
      <4>3. Cardinality(s) \in Nat /\ Cardinality(s) <= n
        BY OneLess
      <4>4. t \in upto(n - 1) /\ t \in upto(n)
        BY <2>3, <4>2, <4>3
      <4>5. g[t] = AddsTo(f, g, t)
        BY <2>4, <4>4
      <4>6. h[t] = g[t]
        BY <4>4, <4>5
      <4> QED BY <4>6 DEF AddsTo
    <3> QED BY <3>1, <3>2
  <2>6. h = [s \in upto(n) |-> AddsTo(f, h, s)]
    BY <2>5
  <2> QED BY <2>1, <2>6
<1>3. Cardinality(D) \in Nat
  BY FS_CardinalityType
<1>4. \E g : partial(g, Cardinality(D))
  BY <1>2, <1>3
<1>5. upto(Cardinality(D)) = SUBSET D
  BY OneLess
<1> QED BY <1>4, <1>5

\* Any element may be taken off first.
LEMMA SumParts ==
    ASSUME NEW D, IsFiniteSet(D), NEW f, \A x \in D : f[x] \in Int
    PROVE  \E F : /\ \A s \in SUBSET D : F[s] \in Int
                  /\ F[{}] = 0
                  /\ \A s \in SUBSET D : \A x \in s : F[s] = f[x] + F[s \ {x}]
                  /\ SumFunctionOnSet(f, D) = F[D]
<1> DEFINE F == CHOOSE g : g = [s \in SUBSET D |-> AddsTo(f, g, s)]
<1>1. SumFunctionOnSet(f, D) = F[D]
  BY SumIsPart
<1>2. F = [s \in SUBSET D |-> AddsTo(f, F, s)]
  BY SumRecursion
<1> HIDE DEF F
<1>3. F[{}] = 0
  BY <1>2 DEF AddsTo
<1>4. ASSUME NEW s \in SUBSET D, s # {}
      PROVE  /\ Chosen(s) \in s
             /\ F[s] = f[Chosen(s)] + F[s \ {Chosen(s)}]
  BY <1>2, <1>4 DEF AddsTo, Chosen
<1>5. \A s \in SUBSET D : F[s] \in Int
  <2> DEFINE bad == {s \in SUBSET D : F[s] \notin Int}
  <2> SUFFICES ASSUME bad # {} PROVE FALSE
    OBVIOUS
  <2>1. PICK s \in bad : \A t \in bad : Cardinality(s) <= Cardinality(t)
    <3>1. bad \subseteq SUBSET D
      OBVIOUS
    <3> HIDE DEF bad
    <3> QED BY <3>1, SmallestSubset
  <2>2. s \in SUBSET D /\ s # {}
    <3>1. s \in SUBSET D /\ F[s] \notin Int
      OBVIOUS
    <3>2. 0 \in Int
      OBVIOUS
    <3> QED BY <1>3, <3>1, <3>2, Zenon
  <2> DEFINE t == s \ {Chosen(s)}
  <2>3. t \in SUBSET D /\ Cardinality(t) = Cardinality(s) - 1 /\ Cardinality(s) \in Nat
    BY <1>4, <2>2, OneLess
  <2>4. F[t] \in Int
    BY <2>1, <2>3
  <2>5. F[s] = f[Chosen(s)] + F[t] /\ f[Chosen(s)] \in Int
    BY <1>4, <2>2
  <2> QED BY <2>1, <2>4, <2>5
<1>6. \A s \in SUBSET D : \A x \in s : F[s] = f[x] + F[s \ {x}]
  <2> DEFINE bad == {s \in SUBSET D : ~ \A x \in s : F[s] = f[x] + F[s \ {x}]}
  <2> SUFFICES ASSUME bad # {} PROVE FALSE
    OBVIOUS
  <2>1. PICK s \in bad : \A t \in bad : Cardinality(s) <= Cardinality(t)
    <3>1. bad \subseteq SUBSET D
      OBVIOUS
    <3> HIDE DEF bad
    <3> QED BY <3>1, SmallestSubset
  <2>2. PICK x \in s : F[s] # f[x] + F[s \ {x}]
    BY <2>1
  <2> DEFINE y == Chosen(s)
  <2>3. s \in SUBSET D /\ y \in s /\ F[s] = f[y] + F[s \ {y}] /\ x # y
    BY <1>4, <2>1, <2>2
  <2> HIDE DEF y
  <2>4. /\ s \ {x} \in SUBSET D /\ s \ {y} \in SUBSET D /\ (s \ {x}) \ {y} \in SUBSET D
        /\ x \in s \ {y} /\ y \in s \ {x} /\ (s \ {x}) \ {y} = (s \ {y}) \ {x}
    BY <2>2, <2>3
  <2>5. s \ {x} \notin bad /\ s \ {y} \notin bad
    <3>1. /\ Cardinality(s) \in Nat /\ Cardinality(s \ {x}) = Cardinality(s) - 1
          /\ Cardinality(s \ {y}) = Cardinality(s) - 1
      BY <2>2, <2>3, OneLess
    <3> HIDE DEF bad
    <3> QED BY <2>1, <3>1
  <2>6. /\ F[s \ {x}] = f[y] + F[(s \ {x}) \ {y}]
        /\ F[s \ {y}] = f[x] + F[(s \ {y}) \ {x}]
    BY <2>4, <2>5
  <2>7. f[x] \in Int /\ f[y] \in Int /\ F[(s \ {x}) \ {y}] \in Int
    BY <1>5, <2>2, <2>3, <2>4
  <2> DEFINE a == F[(s \ {x}) \ {y}]
             b == f[x]
             c == f[y]
  <2>8. F[s] = c + (b + a)
    BY <2>3, <2>4, <2>6
  <2>9. b + F[s \ {x}] = b + (c + a)
    BY <2>6
  <2> HIDE DEF bad, a, b, c
  <2>10. b + (c + a) = c + (b + a)
    BY <2>7 DEF a, b, c
  <2> QED BY <2>2, <2>8, <2>9, <2>10 DEF b
<1> QED BY <1>1, <1>3, <1>5, <1>6

-----------------------------------------------------------------------------
(* What a cache file gives.                                                 *)

\* What profiles_from_cache makes of a cache file: the profiles have distinct
\* identities, scores of 0 to 10 and confidences.
GoodProfiles(P) ==
    /\ IsFiniteSet(P)
    /\ \A p \in P :
          /\ p.identity \in Models
          /\ \A c \in DOMAIN p.scores : p.scores[c] \in 0..10 /\ p.confidence[c] \in Int
    /\ \A p, q \in P : p.identity = q.identity => p = q

LEMMA OneProfile ==
    ASSUME NEW c \in Caches, Sound(c), NEW m \in ToSet(c.models), NEW now
    PROVE  LET p == Profile(c, m, now)
           IN  /\ p.identity = m.identity /\ m.identity \in Models
               /\ \A k \in DOMAIN p.scores : p.scores[k] \in 0..10 /\ p.confidence[k] \in Int
<1> DEFINE agreed == {k \in Claimed(m.claims) : ~Conflicting(m.claims, k)}
           claim(k) == CHOOSE d \in ClaimsOf(m.claims, k) : TRUE
           p == Profile(c, m, now)
<1>1. PICK i \in DOMAIN c.models : m = c.models[i]
  BY DEF ToSet
<1>2. c.models \in Seq(ListedModel) /\ m \in ListedModel
  <2>1. c.models \in Seq(ListedModel)
    BY DoctorAssumption
  <2> QED BY <1>1, <2>1, LenProperties, ElementOfSeq
<1>3. m.identity \in Models /\ m.claims \in Seq(ListedClaim)
  BY <1>2 DEF ListedModel
<1>4. \A k \in DOMAIN m.claims : m.claims[k] \in ListedClaim /\ m.claims[k].score \in 0..10
  <2>1. \A k \in DOMAIN m.claims : m.claims[k] \in ListedClaim
    BY <1>3, LenProperties, ElementOfSeq
  <2>2. \A k \in DOMAIN m.claims : m.claims[k].score \in 0..10
    BY <1>1 DEF Sound
  <2> QED BY <2>1, <2>2
<1>5. ASSUME NEW k \in agreed
      PROVE  claim(k).score \in 0..10 /\ Confidence[claim(k).confidence] \in Int
  <2>1. ClaimsOf(m.claims, k) # {}
    BY DEF Claimed, ClaimsOf
  <2>2. claim(k) \in ToSet(m.claims)
    BY <2>1 DEF ClaimsOf
  <2>3. claim(k) \in ListedClaim /\ claim(k).score \in 0..10
    BY <1>4, <2>2 DEF ToSet
  <2> HIDE DEF claim
  <2>4. claim(k).confidence \in DOMAIN Confidence
    BY <2>3 DEF ListedClaim
  <2> QED BY <2>3, <2>4 DEF Confidence
<1>6. /\ p.scores = [k \in agreed |-> claim(k).score]
      /\ p.confidence = [k \in agreed |-> Confidence[claim(k).confidence]]
      /\ p.identity = m.identity
  BY DEF Profile
<1> HIDE DEF agreed, claim, p
<1>7. \A k \in DOMAIN p.scores : p.scores[k] \in 0..10 /\ p.confidence[k] \in Int
  BY <1>5, <1>6
<1> QED BY <1>3, <1>6, <1>7 DEF p

LEMMA ProfilesAreGood ==
    ASSUME NEW c \in Caches, NEW now
    PROVE  GoodProfiles(Profiles(c, now))
<1> DEFINE P == Profiles(c, now)
<1>1. CASE P = {}
  BY <1>1, FS_EmptySet DEF GoodProfiles
<1>2. CASE P # {}
  <2>1. Sound(c) /\ P = {Profile(c, m, now) : m \in ToSet(c.models)}
    BY <1>2 DEF Profiles
  <2>2. IsFiniteSet(P)
    <3>1. c.models \in Seq(ListedModel)
      BY DoctorAssumption
    <3>2. DOMAIN c.models = 1..Len(c.models) /\ Len(c.models) \in Nat
      BY <3>1, LenProperties
    <3>3. IsFiniteSet(1..Len(c.models))
      BY <3>2, FS_Interval
    <3> DEFINE f == [i \in 1..Len(c.models) |-> Profile(c, c.models[i], now)]
    <3>4. f \in Surjection(1..Len(c.models), P)
      <4>1. \A p \in P : \E i \in 1..Len(c.models) : p = f[i]
        BY <2>1, <3>2 DEF ToSet
      <4>2. \A i \in 1..Len(c.models) : f[i] \in P
        BY <2>1, <3>2 DEF ToSet
      <4> HIDE DEF P
      <4>3. f \in [1..Len(c.models) -> P]
        BY <4>2
      <4> HIDE DEF f
      <4> QED BY <4>1, <4>3 DEF Surjection
    <3> HIDE DEF P, f
    <3> QED BY <3>3, <3>4, FS_Surjection
  <2> HIDE DEF P
  <2>3. \A p \in P : \E m \in ToSet(c.models) : p = Profile(c, m, now)
    BY <2>1
  <2>4. \A p \in P :
          /\ p.identity \in Models
          /\ \A k \in DOMAIN p.scores : p.scores[k] \in 0..10 /\ p.confidence[k] \in Int
    BY <2>1, <2>3, OneProfile
  <2>5. \A p, q \in P : p.identity = q.identity => p = q
    <3> SUFFICES ASSUME NEW p \in P, NEW q \in P, p.identity = q.identity PROVE p = q
      OBVIOUS
    <3>1. PICK m \in ToSet(c.models) : p = Profile(c, m, now)
      BY <2>3
    <3>2. PICK l \in ToSet(c.models) : q = Profile(c, l, now)
      BY <2>3
    <3>3. m.identity = l.identity
      BY <2>1, <3>1, <3>2, OneProfile
    <3>4. m = l
      BY <2>1, <3>3 DEF Sound, ToSet
    <3> QED BY <3>1, <3>2, <3>4
  <2> QED BY <2>2, <2>4, <2>5 DEF GoodProfiles, P
<1> QED BY <1>1, <1>2

LEMMA SomeAreGood ==
    ASSUME NEW P, GoodProfiles(P), NEW Q \in SUBSET P
    PROVE  GoodProfiles(Q)
BY FS_Subset DEF GoodProfiles

-----------------------------------------------------------------------------
(* The sort key.                                                            *)

LEMMA WeightFacts ==
    ASSUME NEW role \in DOMAIN Weights
    PROVE  /\ IsFiniteSet(DOMAIN Weights[role])
           /\ \A c \in DOMAIN Weights[role] : Weights[role][c] \in Nat
<1>1. role \in {"planner", "scout", "worker", "reviewer"}
  BY DEF Weights
<1>2. IsFiniteSet(Capabilities)
  <2>1. \A T, x : IsFiniteSet(T) => IsFiniteSet(T \cup {x})
    BY FS_AddElement
  <2>2. IsFiniteSet({"reasoning", "coding"})
    <3>1. IsFiniteSet({"reasoning"} \cup {"coding"})
      BY FS_Singleton, <2>1
    <3>2. {"reasoning", "coding"} = {"reasoning"} \cup {"coding"}
      OBVIOUS
    <3> QED BY <3>1, <3>2, Zenon
  <2>3. IsFiniteSet({"reasoning", "coding"} \cup {"long_context"})
    BY <2>1, <2>2, Zenon
  <2>4. IsFiniteSet(({"reasoning", "coding"} \cup {"long_context"}) \cup {"analysis"})
    BY <2>1, <2>3, Zenon
  <2> DEFINE T == ({"reasoning", "coding"} \cup {"long_context"}) \cup {"analysis"}
  <2>5. IsFiniteSet(((T \cup {"review"}) \cup {"fast"}) \cup {"cost_effective"})
    <3> HIDE DEF T
    <3> QED BY <2>1, <2>4, Zenon DEF T
  <2>6. ((T \cup {"review"}) \cup {"fast"}) \cup {"cost_effective"} = Capabilities
    BY DEF Capabilities
  <2> QED BY <2>5, <2>6, Zenon
<1>3. /\ DOMAIN Weights[role] \subseteq Capabilities
      /\ \A c \in DOMAIN Weights[role] : Weights[role][c] \in Nat
  <2>1. CASE role = "planner"
    BY <2>1 DEF Weights, Capabilities
  <2>2. CASE role = "scout"
    BY <2>2 DEF Weights, Capabilities
  <2>3. CASE role = "worker"
    BY <2>3 DEF Weights, Capabilities
  <2>4. CASE role = "reviewer"
    BY <2>4 DEF Weights, Capabilities
  <2> QED BY <1>1, <2>1, <2>2, <2>3, <2>4
<1> QED BY <1>2, <1>3, FS_Subset

LEMMA KeyTypes ==
    ASSUME NEW role \in DOMAIN Weights, NEW P, GoodProfiles(P), NEW p \in P
    PROVE  /\ Coverage(role, p) \in Int /\ Score(role, p) \in Int
           /\ ConfidenceSum(role, p) \in Int /\ Above(role, p) \in Int
<1> DEFINE K == CoveredBy(role, p)
           w == Weights[role]
<1>1. /\ K \subseteq DOMAIN w /\ IsFiniteSet(K)
      /\ \A c \in K : w[c] \in Nat /\ p.scores[c] \in 0..10 /\ p.confidence[c] \in Int
  BY WeightFacts, FS_Subset DEF CoveredBy, GoodProfiles
<1> HIDE DEF K, w
<1>2. SumFunctionOnSet(w, K) \in Int
  <2>1. \A c \in K : w[c] \in Int
    BY <1>1
  <2> QED BY <1>1, <2>1, SumParts
<1>3. SumFunctionOnSet([c \in K |-> w[c] * p.scores[c]], K) \in Int
  <2> DEFINE f == [c \in K |-> w[c] * p.scores[c]]
  <2>1. \A c \in K : f[c] \in Int
    BY <1>1
  <2> HIDE DEF f
  <2>2. SumFunctionOnSet(f, K) \in Int
    BY <1>1, <2>1, SumParts
  <2> QED BY <2>2 DEF f
<1>4. SumFunctionOnSet([c \in K |-> w[c] * p.confidence[c]], K) \in Int
  <2> DEFINE f == [c \in K |-> w[c] * p.confidence[c]]
  <2>1. \A c \in K : f[c] \in Int
    BY <1>1
  <2> HIDE DEF f
  <2>2. SumFunctionOnSet(f, K) \in Int
    BY <1>1, <2>1, SumParts
  <2> QED BY <2>2 DEF f
<1>5. Above(role, p) \in Int
  <2>1. [c \in K |-> p.scores[c]] \in [K -> 0..10]
    BY <1>1
  <2>2. K \in SUBSET DOMAIN Weights[role]
    BY <1>1 DEF w
  <2>3. Rounding(role, [c \in K |-> p.scores[c]]) \in Int
    BY <2>1, <2>2, RoundingAssumption
  <2> QED BY <2>3 DEF Above, K
<1> QED BY <1>2, <1>3, <1>4, <1>5 DEF Coverage, Score, ConfidenceSum, SumFunction, K, w

LEMMA PositionFinds ==
    ASSUME NEW m \in Models
    PROVE  Position(m) \in Int /\ NameOrder[Position(m)] = m
<1> DEFINE I == {i \in 1..Len(NameOrder) : NameOrder[i] = m}
<1>1. I # {} /\ I \subseteq Nat
  <2>1. m \in ToSet(NameOrder)
    BY DoctorAssumption
  <2> QED BY <2>1, NameAssumption, LenProperties DEF ToSet
<1>2. PICK n \in I : \A i \in I : n <= i
  <2> HIDE DEF I
  <2> QED BY <1>1, LeastNatural
<1>3. Position(m) = Min(I)
  BY <1>1 DEF Position, SelectInSeq
<1>4. Min(I) \in I
  <2> HIDE DEF I
  <2> QED BY <1>2 DEF Min
<1> QED BY <1>3, <1>4

LEMMA PrecedesIs ==
    ASSUME NEW role, NEW p, NEW q
    PROVE  Precedes(role, p, q) <=>
              \/ Score(role, p) > Score(role, q)
              \/ /\ Score(role, p) = Score(role, q)
                 /\ \/ Above(role, p) > Above(role, q)
                    \/ /\ Above(role, p) = Above(role, q)
                       /\ \/ Coverage(role, p) > Coverage(role, q)
                          \/ /\ Coverage(role, p) = Coverage(role, q)
                             /\ \/ ConfidenceSum(role, p) * Coverage(role, q)
                                     > ConfidenceSum(role, q) * Coverage(role, p)
                                \/ /\ ConfidenceSum(role, p) * Coverage(role, q)
                                        = ConfidenceSum(role, q) * Coverage(role, p)
                                   /\ -Position(p.identity) > -Position(q.identity)
<1>1. ASSUME NEW a, NEW b, DOMAIN a = 1..5
      PROVE  (\E i \in DOMAIN a : a[i] > b[i] /\ \A j \in 1..(i - 1) : a[j] = b[j])
                 <=> \/ a[1] > b[1]
                     \/ /\ a[1] = b[1]
                        /\ \/ a[2] > b[2]
                           \/ /\ a[2] = b[2]
                              /\ \/ a[3] > b[3]
                                 \/ /\ a[3] = b[3]
                                    /\ \/ a[4] > b[4]
                                       \/ a[4] = b[4] /\ a[5] > b[5]
  <2>1. \A i \in 1..5 : i = 1 \/ i = 2 \/ i = 3 \/ i = 4 \/ i = 5
    OBVIOUS
  <2>2. /\ 1..(1 - 1) = {} /\ 1..(2 - 1) = {1} /\ 1..(3 - 1) = {1, 2}
        /\ 1..(4 - 1) = {1, 2, 3} /\ 1..(5 - 1) = {1, 2, 3, 4}
    OBVIOUS
  <2> DEFINE first(i) == a[i] > b[i] /\ \A j \in 1..(i - 1) : a[j] = b[j]
  <2>3. (\E i \in DOMAIN a : first(i))
            <=> first(1) \/ first(2) \/ first(3) \/ first(4) \/ first(5)
    <3> HIDE DEF first
    <3> QED BY <1>1, <2>1
  <2>4. /\ first(1) <=> a[1] > b[1]
        /\ first(2) <=> a[2] > b[2] /\ a[1] = b[1]
        /\ first(3) <=> a[3] > b[3] /\ a[1] = b[1] /\ a[2] = b[2]
        /\ first(4) <=> a[4] > b[4] /\ a[1] = b[1] /\ a[2] = b[2] /\ a[3] = b[3]
        /\ first(5) <=> a[5] > b[5] /\ a[1] = b[1] /\ a[2] = b[2] /\ a[3] = b[3] /\ a[4] = b[4]
    BY <2>2
  <2>5. (\E i \in DOMAIN a : first(i))
            <=> \/ a[1] > b[1]
                \/ /\ a[1] = b[1]
                   /\ \/ a[2] > b[2]
                      \/ /\ a[2] = b[2]
                         /\ \/ a[3] > b[3]
                            \/ /\ a[3] = b[3]
                               /\ \/ a[4] > b[4]
                                  \/ a[4] = b[4] /\ a[5] > b[5]
    <3> HIDE DEF first
    <3> QED BY <2>3, <2>4
  <2> QED BY <2>5
<1> DEFINE a == Key(role, p, q)
           b == Key(role, q, p)
<1>2. /\ DOMAIN a = 1..5
      /\ a[1] = Score(role, p) /\ a[2] = Above(role, p) /\ a[3] = Coverage(role, p)
      /\ a[4] = ConfidenceSum(role, p) * Coverage(role, q) /\ a[5] = -Position(p.identity)
      /\ b[1] = Score(role, q) /\ b[2] = Above(role, q) /\ b[3] = Coverage(role, q)
      /\ b[4] = ConfidenceSum(role, q) * Coverage(role, p) /\ b[5] = -Position(q.identity)
  BY DEF Key
<1>3. Precedes(role, p, q) <=>
          \E i \in DOMAIN a : a[i] > b[i] /\ \A j \in 1..(i - 1) : a[j] = b[j]
  BY DEF Precedes
<1> HIDE DEF a, b
<1> QED BY <1>1, <1>2, <1>3

LEMMA PrecedesIsStrict ==
    ASSUME NEW role \in DOMAIN Weights, NEW P, GoodProfiles(P)
    PROVE  LET ranked == {p \in P : Ranked(role, p)}
           IN  StrictOrder(ranked, {pq \in ranked \X ranked : Precedes(role, pq[1], pq[2])})
<1> DEFINE ranked == {p \in P : Ranked(role, p)}
           R == {pq \in ranked \X ranked : Precedes(role, pq[1], pq[2])}
           s(p) == Score(role, p)
           a(p) == Above(role, p)
           c(p) == Coverage(role, p)
           f(p) == ConfidenceSum(role, p)
           n(p) == Position(p.identity)
           before(p, q) ==
              \/ s(p) > s(q)
              \/ /\ s(p) = s(q)
                 /\ \/ a(p) > a(q)
                    \/ /\ a(p) = a(q)
                       /\ \/ c(p) > c(q)
                          \/ /\ c(p) = c(q)
                             /\ \/ f(p) > f(q)
                                \/ f(p) = f(q) /\ n(p) < n(q)
<1>1. ASSUME NEW p \in ranked
      PROVE  /\ s(p) \in Int /\ a(p) \in Int /\ c(p) \in Int /\ f(p) \in Int /\ n(p) \in Int
             /\ c(p) > 0
  <2>1. s(p) \in Int /\ a(p) \in Int /\ c(p) \in Int /\ f(p) \in Int
    BY KeyTypes
  <2>2. n(p) \in Int
    BY PositionFinds DEF GoodProfiles
  <2>3. c(p) >= 50
    BY DEF Ranked, MinCoverage
  <2> QED BY <2>1, <2>2, <2>3
<1>2. ASSUME NEW p \in ranked, NEW q \in ranked, n(p) = n(q)
      PROVE  p = q
  <2>1. p.identity \in Models /\ q.identity \in Models
    BY DEF GoodProfiles
  <2>2. p.identity = q.identity
    BY <1>2, <2>1, PositionFinds
  <2> QED BY <2>2 DEF GoodProfiles
<1>3. ASSUME NEW p \in ranked, NEW q \in ranked
      PROVE  <<p, q>> \in R <=> before(p, q)
  <2>1. Precedes(role, p, q) <=>
              \/ s(p) > s(q)
              \/ /\ s(p) = s(q)
                 /\ \/ a(p) > a(q)
                    \/ /\ a(p) = a(q)
                       /\ \/ c(p) > c(q)
                          \/ /\ c(p) = c(q)
                             /\ \/ f(p) * c(q) > f(q) * c(p)
                                \/ f(p) * c(q) = f(q) * c(p) /\ -n(p) > -n(q)
    BY PrecedesIs, Zenon
  <2>2. /\ c(p) \in Int /\ c(p) > 0 /\ c(q) \in Int /\ f(p) \in Int /\ f(q) \in Int
        /\ n(p) \in Int /\ n(q) \in Int
    BY <1>1
  <2> HIDE DEF s, a, c, f, n
  <2>3. c(p) = c(q) => /\ f(p) * c(q) > f(q) * c(p) <=> f(p) > f(q)
                       /\ f(p) * c(q) = f(q) * c(p) <=> f(p) = f(q)
    <3>1. \A x, y, k \in Int : k > 0 => (x * k > y * k <=> x > y)
      OBVIOUS
    <3>2. \A x, y, k \in Int : k > 0 => (x * k = y * k <=> x = y)
      OBVIOUS
    <3> QED BY <2>2, <3>1, <3>2
  <2>4. -n(p) > -n(q) <=> n(p) < n(q)
    BY <2>2
  <2> QED BY <2>1, <2>3, <2>4
<1> HIDE DEF s, a, c, f, n, R, ranked
<1>4. \A p \in ranked : <<p, p>> \notin R
  BY <1>1, <1>3
<1>5. \A p, q, r \in ranked : <<p, q>> \in R /\ <<q, r>> \in R => <<p, r>> \in R
  <2> SUFFICES ASSUME NEW p \in ranked, NEW q \in ranked, NEW r \in ranked,
                      before(p, q), before(q, r)
               PROVE  before(p, r)
    <3> HIDE DEF before
    <3> QED BY <1>3
  <2> QED BY <1>1
<1>6. \A p, q \in ranked : p # q => <<p, q>> \in R \/ <<q, p>> \in R
  <2> SUFFICES ASSUME NEW p \in ranked, NEW q \in ranked, p # q
               PROVE  before(p, q) \/ before(q, p)
    <3> HIDE DEF before
    <3> QED BY <1>3
  <2> QED BY <1>1, <1>2
<1>7. StrictOrder(ranked, R)
  BY <1>4, <1>5, <1>6 DEF StrictOrder
<1> QED BY <1>7 DEF R, ranked

\* s has the profiles in the order in which recommend_roles names them.
Sorts(s, role, P) ==
    /\ Orders(s, Len(Recommendations(role, P)), {p \in P : Ranked(role, p)},
              {pq \in P \X P : Precedes(role, pq[1], pq[2])})
    /\ Len(Recommendations(role, P)) \in Nat
    /\ Recommendations(role, P) =
          [i \in 1..Len(Recommendations(role, P)) |-> s[i].identity]

LEMMA RankingSorts ==
    ASSUME NEW role \in DOMAIN Weights, NEW P, GoodProfiles(P)
    PROVE  \E s : Sorts(s, role, P)
<1> DEFINE ranked == {p \in P : Ranked(role, p)}
           n == Cardinality(ranked)
           R == {pq \in ranked \X ranked : Precedes(role, pq[1], pq[2])}
           Q == {pq \in P \X P : Precedes(role, pq[1], pq[2])}
           inOrder(s) == \A i, j \in DOMAIN s : i < j => Precedes(role, s[i], s[j])
           s == CHOOSE u \in [1..n -> ranked] : inOrder(u)
           t == Recommendations(role, P)
<1>1. StrictOrder(ranked, R)
  BY PrecedesIsStrict
<1>2. IsFiniteSet(ranked) /\ n \in Nat
  BY FS_Subset, FS_CardinalityType DEF GoodProfiles
<1>3. ranked \subseteq P
  OBVIOUS
<1>4. t = [i \in DOMAIN s |-> s[i].identity]
  BY DEF Recommendations
<1> HIDE DEF t, ranked
<1>5. s \in [1..n -> ranked] /\ inOrder(s)
  <2> HIDE DEF R, n
  <2>1. PICK u \in [1..n -> ranked] : \A j, k \in 1..n : j < k => <<u[j], u[k]>> \in R
    BY <1>1, <1>2, FiniteIsOrdered DEF n
  <2>2. inOrder(u)
    BY <2>1 DEF R
  <2> QED BY <2>1, <2>2
<1> HIDE DEF s
<1>6. \A j, k \in 1..n : j < k => <<s[j], s[k]>> \in R
  BY <1>5
<1>7. \A x \in ranked : <<x, x>> \notin R
  BY <1>1 DEF StrictOrder
<1>8. R \subseteq Q
  BY <1>3
<1> HIDE DEF R, Q
<1>9. Orders(s, n, ranked, R)
  BY <1>2, <1>5, <1>6, <1>7, OrderedIsAll
<1>10. Orders(s, n, ranked, Q)
  BY <1>8, <1>9 DEF Orders
<1>11. t = [i \in 1..n |-> s[i].identity] /\ Len(t) = n
  <2>1. t = [i \in 1..n |-> s[i].identity]
    BY <1>4, <1>5
  <2>2. t \in Seq({p.identity : p \in ranked})
    <3>1. \A i \in 1..n : s[i] \in ranked
      BY <1>5
    <3>2. t \in [1..n -> {p.identity : p \in ranked}]
      BY <2>1, <3>1
    <3> HIDE DEF n
    <3> QED BY <1>2, <3>2, SeqDef
  <2>3. DOMAIN t = 1..n
    BY <2>1
  <2> HIDE DEF n
  <2> QED BY <1>2, <2>1, <2>2, <2>3, LenProperties
<1> HIDE DEF n
<1> QED BY <1>2, <1>10, <1>11 DEF Sorts, t, ranked, Q

-----------------------------------------------------------------------------
(* What Doctor can find.                                                   *)

LEMMA SomeIdentifier ==
    ASSUME NEW c, Valid(c), NEW r \in Roles
    PROVE  DOMAIN Identifiers(c, r) # {}
<1> DEFINE a == c.view[r].preferred
           b == c.view[r].fallback
           s == a \o b
           F == FirstPlaces(s)
           t == Subsequence(s, F)
<1>1. a \in Seq(Models) /\ b \in Seq(Models) /\ a # << >> /\ s \in Seq(Models)
  BY ConfigTypes
<1> HIDE DEF a, b
<1>2. DOMAIN s = 1..Len(s) /\ Len(s) \in Nat /\ Len(s) # 0
  <2>1. Len(s) = Len(a) + Len(b) /\ Len(a) \in Nat \ {0} /\ Len(b) \in Nat
    BY <1>1, ConcatProperties, EmptySeq, LenProperties
  <2>2. DOMAIN s = 1..Len(s)
    BY <1>1, LenProperties
  <2> HIDE DEF s
  <2> QED BY <2>1, <2>2
<1> HIDE DEF s
<1>3. 1 \in F
  BY <1>2 DEF FirstPlaces
<1>4. F \subseteq DOMAIN s /\ Firsts(s) = t
  BY FirstsAtFirstPlaces
<1> HIDE DEF F
<1>5. DOMAIN t = 1..Len(t) /\ Climbs(Ascending(F), Len(t), F)
  BY <1>1, <1>4, SubsequenceFacts
<1>6. PICK k \in 1..Len(t) : Ascending(F)[k] = 1
  BY <1>3, <1>5 DEF Climbs
<1> QED BY <1>4, <1>5, <1>6 DEF Identifiers, s, a, b

\* Without availability the gates end at the second.
LEMMA OfflineResolution ==
    ASSUME NEW c, Valid(c), NEW r \in Roles, NEW discovered, NEW profiles
    PROVE  LET known == ToSet(Identifiers(c, r)) \cap discovered
           IN  Resolution(c, r, discovered, [m \in Models |-> Offline(m)], profiles).outcome
                   \in {"raised", IF known = {} THEN "REJECTED" ELSE "UNRESOLVED"}
<1> DEFINE names == Identifiers(c, r)
           known == ToSet(names) \cap discovered
           ranking == Recommendations(r, profiles)
           reason(m) == Reason(m, c.view[r].hints, discovered, [l \in Models |-> Offline(l)][m], ranking)
           reasons == [i \in DOMAIN names |-> reason(names[i])]
<1> SUFFICES RoleOutcome(reasons) = IF known = {} THEN "REJECTED" ELSE "UNRESOLVED"
  BY DEF Resolution
<1>1. \A i \in DOMAIN names : names[i] \in Models
  <2> DEFINE s == c.view[r].preferred \o c.view[r].fallback
             F == FirstPlaces(s)
  <2>1. s \in Seq(Models)
    BY ConfigTypes
  <2>2. F \subseteq DOMAIN s /\ names = Subsequence(s, F)
    BY FirstsAtFirstPlaces DEF Identifiers
  <2> HIDE DEF s, F, names
  <2>3. names \in Seq(Models)
    BY <2>1, <2>2, SubsequenceFacts
  <2> QED BY <2>3, LenProperties, ElementOfSeq
<1>2. DOMAIN names # {}
  BY SomeIdentifier
<1> HIDE DEF names
<1>3. \A i \in DOMAIN names :
          reasons[i] = IF names[i] \in discovered THEN "availability-unknown" ELSE "not-discovered"
  BY <1>1 DEF Reason, Offline
<1> HIDE DEF reason
<1>4. DOMAIN reasons = DOMAIN names
  OBVIOUS
<1> HIDE DEF reasons
<1>5. \A i \in DOMAIN names :
          Outcome(reasons[i]) = IF names[i] \in discovered THEN "UNRESOLVED" ELSE "REJECTED"
  BY <1>3 DEF Outcome
<1> DEFINE outcomes == {Outcome(reasons[i]) : i \in DOMAIN reasons}
<1>6. CASE known = {}
  <2>1. \A i \in DOMAIN names : names[i] \notin discovered
    BY <1>6 DEF ToSet
  <2>2. outcomes = {"REJECTED"}
    BY <1>2, <1>4, <1>5, <2>1
  <2> QED BY <1>6, <2>2 DEF RoleOutcome
<1>7. CASE known # {}
  <2>1. PICK i \in DOMAIN names : names[i] \in discovered
    BY <1>7 DEF ToSet
  <2>2. "UNRESOLVED" \in outcomes /\ "RECOMMENDED" \notin outcomes
    BY <1>4, <1>5, <2>1
  <2> QED BY <1>7, <2>2 DEF RoleOutcome
<1> QED BY <1>6, <1>7

\* What Doctor has read is valid from the start.
DoctorInv ==
    /\ DOMAIN report = {"at", "config", "discovered", "ranking", "resolved"}
    /\ report.at \in {"profiles", "agents", "intelligence", "resolutions", "done"} =>
          Valid(report.config)
    /\ DoctorRecommendsNothing

\* Only Doctor writes the report.
LEMMA ReportMoves ==
    ASSUME [Next]_vars
    PROVE  \/ UNCHANGED report
           \/ DoctorConfig
           \/ \E s \in Sources : DoctorSource(s)
           \/ DoctorIntelligence
           \/ DoctorResolutions
BY DEF Next, Move, Probe, WriteCache, Tick, DoctorStep, Advise, vars, adviceVars

LEMMA DoctorKept == Spec => []DoctorInv
<1>1. Init => DoctorInv
  BY DEF Init, NoReport, DoctorInv, DoctorRecommendsNothing
<1>2. DoctorInv /\ [Next]_vars => DoctorInv'
  <2> SUFFICES ASSUME DoctorInv, [Next]_vars PROVE DoctorInv'
    OBVIOUS
  <2>1. CASE UNCHANGED report
    BY <2>1 DEF DoctorInv, DoctorRecommendsNothing
  <2>2. CASE DoctorConfig
    <3>1. CASE Readable(file)
      <4>1. report' = [report EXCEPT !.at = "profiles", !.config = file.config]
        BY <2>2, <3>1 DEF DoctorConfig
      <4> QED BY <3>1, <4>1 DEF DoctorInv, DoctorRecommendsNothing, Readable
    <3>2. CASE ~ Readable(file)
      <4>1. report' = [report EXCEPT !.at = "refused"]
        BY <2>2, <3>2 DEF DoctorConfig
      <4> QED BY <4>1 DEF DoctorInv, DoctorRecommendsNothing
    <3> QED BY <3>1, <3>2
  <2>3. ASSUME NEW s \in Sources, DoctorSource(s) PROVE DoctorInv'
    <3>1. Valid(report.config)
      BY <2>3 DEF DoctorSource, Running, Sources, DoctorInv
    <3>2. PICK found : report' = [report EXCEPT !.at = IF s = "profiles" THEN "agents"
                                                                         ELSE "intelligence",
                                                !.discovered = found]
      BY <2>3 DEF DoctorSource
    <3>3. DOMAIN report' = DOMAIN report /\ report'.config = report.config
          /\ report'.at \in {"agents", "intelligence"}
      BY <3>2 DEF DoctorInv
    <3> QED BY <3>1, <3>3 DEF DoctorInv, DoctorRecommendsNothing
  <2>4. CASE DoctorIntelligence
    <3>1. Valid(report.config)
      BY <2>4 DEF DoctorIntelligence, Running, DoctorInv
    <3>2. PICK ranking : \/ report' = [report EXCEPT !.at = "crashed"]
                         \/ report' = [report EXCEPT !.at = "resolutions", !.ranking = ranking]
      BY <2>4 DEF DoctorIntelligence
    <3>3. DOMAIN report' = DOMAIN report /\ report'.config = report.config
          /\ report'.at \in {"crashed", "resolutions"}
      BY <3>2 DEF DoctorInv
    <3> QED BY <3>1, <3>3 DEF DoctorInv, DoctorRecommendsNothing
  <2>5. CASE DoctorResolutions
    <3> DEFINE told(r) == Resolution(report.config, r, report.discovered,
                                     [m \in Models |-> Offline(m)],
                                     Active(Profiles(cache, clock)))
    <3>1. Valid(report.config)
      BY <2>5 DEF DoctorResolutions, Running, DoctorInv
    <3>2. report' = [report EXCEPT !.at = "done", !.resolved = [r \in Roles |-> told(r)]]
      BY <2>5 DEF DoctorResolutions
    <3>3. \A r \in Roles :
              LET known == ToSet(Identifiers(report.config, r)) \cap report.discovered
              IN  told(r).outcome \in {"raised", IF known = {} THEN "REJECTED" ELSE "UNRESOLVED"}
      BY <3>1, OfflineResolution
    <3> HIDE DEF told
    <3>4. DOMAIN report' = DOMAIN report /\ report'.config = report.config
          /\ report'.discovered = report.discovered
          /\ report'.resolved = [r \in Roles |-> told(r)]
      BY <3>2 DEF DoctorInv
    <3> QED BY <3>1, <3>3, <3>4 DEF DoctorInv, DoctorRecommendsNothing
  <2> QED BY <2>1, <2>2, <2>3, <2>4, <2>5, ReportMoves
<1> QED BY <1>1, <1>2, PTL DEF Spec

\* Whatever the cache says and when Doctor looks at it, it reports every role as
\* UNRESOLVED or REJECTED, or that the ranking raised, by what is declared alone
\* (render_role_resolutions).
THEOREM DoctorNeverRecommends == Spec => []DoctorRecommendsNothing
<1>1. DoctorInv => DoctorRecommendsNothing
  BY DEF DoctorInv
<1> QED BY <1>1, DoctorKept, PTL

-----------------------------------------------------------------------------
(* The order of a ranking.                                                  *)

\* Only the ranking ends in these.
LEMMA IntelligenceMoves ==
    ASSUME DoctorInv, [Next]_vars,
           \/ report'.at = "resolutions" /\ report.at # "resolutions"
           \/ report'.at = "crashed" /\ report.at # "crashed"
    PROVE  DoctorIntelligence
<1>1. CASE UNCHANGED report
  BY <1>1
<1>2. CASE DoctorConfig
  <2>1. report' = [report EXCEPT !.at = "profiles", !.config = file.config]
        \/ report' = [report EXCEPT !.at = "refused"]
    BY <1>2 DEF DoctorConfig
  <2>2. report'.at \in {"profiles", "refused"}
    BY <2>1 DEF DoctorInv
  <2> QED BY <2>2
<1>3. ASSUME NEW s \in Sources, DoctorSource(s) PROVE DoctorIntelligence
  <2>1. PICK found : report' = [report EXCEPT !.at = IF s = "profiles" THEN "agents"
                                                                       ELSE "intelligence",
                                              !.discovered = found]
    BY <1>3 DEF DoctorSource
  <2>2. report'.at \in {"agents", "intelligence"}
    BY <2>1 DEF DoctorInv
  <2> QED BY <2>2
<1>4. CASE DoctorResolutions
  <2>1. PICK told : report' = [report EXCEPT !.at = "done", !.resolved = told]
    BY <1>4 DEF DoctorResolutions
  <2>2. report'.at = "done"
    BY <2>1 DEF DoctorInv
  <2> QED BY <2>2
<1> QED BY <1>1, <1>2, <1>3, <1>4, ReportMoves

\* The ranking is made of discovered profiles of the cache, and of them only.
LEMMA RankingIsSorted ==
    ASSUME ClockInv, NEW known \in SUBSET Profiles(cache, clock), NEW r \in Roles
    PROVE  /\ GoodProfiles(Profiles(cache, clock)) /\ GoodProfiles(known)
           /\ r \in DOMAIN Weights
           /\ \E s : Sorts(s, r, known)
<1>1. GoodProfiles(Profiles(cache, clock))
  BY ProfilesAreGood DEF ClockInv
<1>2. GoodProfiles(known)
  BY <1>1, SomeAreGood
<1>3. r \in DOMAIN Weights
  BY DoctorAssumption
<1> QED BY <1>1, <1>2, <1>3, RankingSorts

\* Of two ranked models with one exact score, coverage decides as documented
\* unless rounding has lifted the score of the first (recommend_roles): the sort
\* key is a strict order, so the ranking names every ranked profile once, in it.
THEOREM TieBreakIsKept == Spec => TieBreakExceptRounding
<1>1. ASSUME DoctorInv, ClockInv, [Next]_vars,
             report'.at = "resolutions", report.at # "resolutions",
             NEW r \in Roles,
             NEW i \in DOMAIN report'.ranking[r], NEW j \in DOMAIN report'.ranking[r], i < j
      PROVE  LET p(k) == CHOOSE x \in Profiles(cache, clock) : x.identity = report'.ranking[r][k]
             IN  /\ Score(r, p(i)) >= Score(r, p(j))
                 /\ Score(r, p(i)) = Score(r, p(j)) /\ Coverage(r, p(i)) < Coverage(r, p(j))
                       => Above(r, p(i)) > Above(r, p(j))
  <2> DEFINE P == Profiles(cache, clock)
             known == {p \in Active(P) : p.identity \in report.discovered}
             t == Recommendations(r, known)
             p(k) == CHOOSE x \in P : x.identity = t[k]
  <2>1. DoctorIntelligence
    BY <1>1, IntelligenceMoves
  <2>2. report' = [report EXCEPT !.at = "resolutions",
                                 !.ranking = [q \in Roles |-> Recommendations(q, known)]]
        \/ report' = [report EXCEPT !.at = "crashed"]
    BY <2>1 DEF DoctorIntelligence
  <2>3. report'.ranking[r] = t
    <3> DEFINE ranking == [q \in Roles |-> Recommendations(q, known)]
    <3>1. ranking[r] = t
      OBVIOUS
    <3> HIDE DEF ranking
    <3>2. report'.ranking = ranking
      BY <1>1, <2>2 DEF DoctorInv, ranking
    <3> QED BY <3>1, <3>2
  <2>4. known \in SUBSET P
    BY DEF Active
  <2> HIDE DEF known, t
  <2>5. PICK s : Sorts(s, r, known)
    BY <1>1, <2>4, RankingIsSorted
  <2>6. GoodProfiles(P) /\ GoodProfiles(known) /\ r \in DOMAIN Weights
    BY <1>1, <2>4, RankingIsSorted
  <2> HIDE DEF P
  <2>7. i \in 1..Len(t) /\ j \in 1..Len(t)
    BY <1>1, <2>3, <2>5 DEF Sorts, t
  <2>8. ASSUME NEW k \in 1..Len(t)
        PROVE  p(k) = s[k] /\ s[k] \in known
    <3>1. s[k] \in known /\ t[k] = s[k].identity
      BY <2>5 DEF Sorts, Orders, t
    <3> QED BY <2>4, <2>6, <3>1 DEF GoodProfiles
  <2> HIDE DEF p
  <2>9. Precedes(r, s[i], s[j])
    <3>1. <<s[i], s[j]>> \in {pq \in known \X known : Precedes(r, pq[1], pq[2])}
      BY <1>1, <2>5, <2>7 DEF Sorts, Orders, t
    <3> QED BY <3>1
  <2>10. Precedes(r, p(i), p(j)) /\ p(i) \in known /\ p(j) \in known
    BY <2>7, <2>8, <2>9
  <2> DEFINE a == p(i)
             b == p(j)
  <2>11. /\ Score(r, a) \in Int /\ Score(r, b) \in Int
         /\ Above(r, a) \in Int /\ Above(r, b) \in Int
         /\ Coverage(r, a) \in Int /\ Coverage(r, b) \in Int
    BY <2>6, <2>10, KeyTypes
  <2>12. /\ Score(r, a) >= Score(r, b)
         /\ Score(r, a) = Score(r, b) /\ Coverage(r, a) < Coverage(r, b)
               => Above(r, a) > Above(r, b)
    <3> HIDE DEF a, b
    <3>1. Precedes(r, a, b)
      BY <2>10 DEF a, b
    <3> QED BY <2>11, <3>1, PrecedesIs
  <2> QED BY <2>3, <2>12 DEF p, P
<1>2. DoctorInv /\ ClockInv /\ [Next]_vars =>
          [report'.at = "resolutions" /\ report.at # "resolutions" =>
             \A r \in Roles : \A i, j \in DOMAIN report'.ranking[r] :
                LET p(k) == CHOOSE x \in Profiles(cache, clock) : x.identity = report'.ranking[r][k]
                IN  i < j =>
                      /\ Score(r, p(i)) >= Score(r, p(j))
                      /\ Score(r, p(i)) = Score(r, p(j)) /\ Coverage(r, p(i)) < Coverage(r, p(j))
                            => Above(r, p(i)) > Above(r, p(j))]_vars
  BY <1>1
<1> QED BY <1>2, DoctorKept, ClockKept, PTL DEF Spec, TieBreakExceptRounding

-----------------------------------------------------------------------------
(* What Doctor dies of.                                                     *)

\* A sum over at most four elements, written out.
LEMMA FourParts ==
    ASSUME NEW a, NEW b, NEW c, NEW d,
           a # b, a # c, a # d, b # c, b # d, c # d,
           NEW K \in SUBSET {a, b, c, d}, NEW f, \A x \in K : f[x] \in Int
    PROVE  SumFunctionOnSet(f, K) =
              (IF a \in K THEN f[a] ELSE 0) + (IF b \in K THEN f[b] ELSE 0)
                 + (IF c \in K THEN f[c] ELSE 0) + (IF d \in K THEN f[d] ELSE 0)
<1> DEFINE part(x) == IF x \in K THEN f[x] ELSE 0
<1>1. IsFiniteSet(K)
  <2>1. IsFiniteSet({a, b, c, d})
    <3>1. \A T, x : IsFiniteSet(T) => IsFiniteSet(T \cup {x})
      BY FS_AddElement
    <3>2. IsFiniteSet((({a} \cup {b}) \cup {c}) \cup {d})
      <4>1. IsFiniteSet({a} \cup {b})
        BY <3>1, FS_Singleton, Zenon
      <4>2. IsFiniteSet(({a} \cup {b}) \cup {c})
        BY <3>1, <4>1, Zenon
      <4> QED BY <3>1, <4>2, Zenon
    <3>3. (({a} \cup {b}) \cup {c}) \cup {d} = {a, b, c, d}
      OBVIOUS
    <3> QED BY <3>2, <3>3, Zenon
  <2> QED BY <2>1, FS_Subset
<1>2. PICK F : /\ \A s \in SUBSET K : F[s] \in Int
               /\ F[{}] = 0
               /\ \A s \in SUBSET K : \A x \in s : F[s] = f[x] + F[s \ {x}]
               /\ SumFunctionOnSet(f, K) = F[K]
  BY <1>1, SumParts
<1>3. \A s \in SUBSET K : \A x : F[s] = (IF x \in s THEN f[x] ELSE 0) + F[s \ {x}]
  <2> SUFFICES ASSUME NEW s \in SUBSET K, NEW x
               PROVE  F[s] = (IF x \in s THEN f[x] ELSE 0) + F[s \ {x}]
    OBVIOUS
  <2>1. CASE x \in s
    BY <1>2, <2>1
  <2>2. CASE x \notin s
    <3>1. s \ {x} = s /\ F[s] \in Int
      BY <1>2, <2>2
    <3> QED BY <2>2, <3>1
  <2> QED BY <2>1, <2>2
<1> DEFINE A == K \ {a}
           B == A \ {b}
           C == B \ {c}
           D == C \ {d}
<1>4. F[K] = part(a) + F[A]
  BY <1>3
<1>5. A \in SUBSET K /\ B \in SUBSET K /\ C \in SUBSET K /\ D = {}
  OBVIOUS
<1>6. (b \in A <=> b \in K) /\ (c \in B <=> c \in K) /\ (d \in C <=> d \in K)
  OBVIOUS
<1> HIDE DEF A, B, C, D
<1>7. F[A] = part(b) + F[B] /\ F[B] = part(c) + F[C] /\ F[C] = part(d) + F[D]
  BY <1>3, <1>5, <1>6 DEF B, C, D
<1>8. part(a) \in Int /\ part(b) \in Int /\ part(c) \in Int /\ part(d) \in Int
  OBVIOUS
<1>9. F[D] = 0
  BY <1>2, <1>5
<1> HIDE DEF part
<1>10. F[K] = part(a) + part(b) + part(c) + part(d)
  BY <1>4, <1>7, <1>8, <1>9
<1> QED BY <1>2, <1>10 DEF part

\* Only full scores in everything add up to a full score.
LEMMA FullScore ==
    ASSUME NEW role \in DOMAIN Weights, NEW P, GoodProfiles(P), NEW p \in P,
           Score(role, p) = 1000
    PROVE  \A c \in DOMAIN Weights[role] : c \in DOMAIN p.scores /\ p.scores[c] = 10
<1> DEFINE K == CoveredBy(role, p)
           w == Weights[role]
           f == [c \in K |-> w[c] * p.scores[c]]
<1>1. \A c \in K : c \in DOMAIN p.scores /\ p.scores[c] \in 0..10
  BY DEF CoveredBy, GoodProfiles
<1>2. SumFunctionOnSet(f, K) = 1000
  BY DEF Score, SumFunction
<1>3. ASSUME NEW a, NEW b, NEW c, NEW d,
             a # b, a # c, a # d, b # c, b # d, c # d,
             DOMAIN w = {a, b, c, d},
             w[a] \in 1..100, w[b] \in 1..100, w[c] \in 1..100, w[d] \in 1..100,
             w[a] + w[b] + w[c] + w[d] = 100
      PROVE  \A x \in {a, b, c, d} : x \in K /\ p.scores[x] = 10
  <2>1. K \in SUBSET {a, b, c, d}
    BY <1>3 DEF CoveredBy
  <2>2. \A x \in K : f[x] = w[x] * p.scores[x] /\ w[x] \in Int
    BY <1>3, <2>1
  <2> DEFINE part(x) == IF x \in K THEN f[x] ELSE 0
  <2>3. \A x \in K : f[x] \in Int
    BY <1>1, <2>2
  <2> HIDE DEF f, K
  <2>4. part(a) + part(b) + part(c) + part(d) = 1000
    BY <1>2, <1>3, <2>1, <2>3, FourParts
  <2>5. ASSUME NEW x \in {a, b, c, d}
        PROVE  /\ part(x) \in Int /\ part(x) <= 10 * w[x]
               /\ part(x) = 10 * w[x] => x \in K /\ p.scores[x] = 10
    <3>1. w[x] \in 1..100
      BY <1>3
    <3>2. CASE x \notin K
      BY <3>1, <3>2
    <3>3. CASE x \in K
      <4>1. part(x) = w[x] * p.scores[x] /\ p.scores[x] \in 0..10
        BY <1>1, <2>2, <3>3
      <4>2. \A u \in 1..100, v \in 0..10 : u * v <= 10 * u /\ (u * v = 10 * u => v = 10)
        <5>1. \A v \in 0..10 : v = 0 \/ v = 1 \/ v = 2 \/ v = 3 \/ v = 4 \/ v = 5 \/ v = 6
                               \/ v = 7 \/ v = 8 \/ v = 9 \/ v = 10
          OBVIOUS
        <5> QED BY <5>1
      <4> DEFINE u == w[x]
                 v == p.scores[x]
                 t == part(x)
      <4>3. u \in 1..100 /\ v \in 0..10 /\ t = u * v
        BY <3>1, <4>1
      <4> HIDE DEF u, v, t
      <4>4. t \in Int /\ t <= 10 * u /\ (t = 10 * u => v = 10)
        BY <4>2, <4>3
      <4> QED BY <3>3, <4>4 DEF u, v, t
    <3> QED BY <3>2, <3>3
  <2> HIDE DEF part
  <2> DEFINE ta == part(a) tb == part(b) tc == part(c) td == part(d)
             wa == w[a] wb == w[b] wc == w[c] wd == w[d]
  <2>6. /\ ta \in Int /\ ta <= 10 * wa /\ tb \in Int /\ tb <= 10 * wb
        /\ tc \in Int /\ tc <= 10 * wc /\ td \in Int /\ td <= 10 * wd
    BY <2>5
  <2>7. ta + tb + tc + td = 1000 /\ wa + wb + wc + wd = 100
        /\ wa \in Int /\ wb \in Int /\ wc \in Int /\ wd \in Int
    BY <1>3, <2>4
  <2>8. ta = 10 * wa /\ tb = 10 * wb /\ tc = 10 * wc /\ td = 10 * wd
    <3> HIDE DEF ta, tb, tc, td, wa, wb, wc, wd
    <3> QED BY <2>6, <2>7
  <2> QED BY <2>5, <2>8
<1>4. role \in {"planner", "scout", "worker", "reviewer"}
  BY DEF Weights
<1>5. \A x \in DOMAIN w : x \in K /\ p.scores[x] = 10
  <2> HIDE DEF f, K
  <2>1. CASE role = "planner"
    <3>1. /\ DOMAIN w = {"reasoning", "analysis", "long_context", "coding"}
          /\ w["reasoning"] = 40 /\ w["analysis"] = 25 /\ w["long_context"] = 20 /\ w["coding"] = 15
      BY <2>1 DEF Weights
    <3> HIDE DEF w
    <3> QED BY <1>3, <3>1
  <2>2. CASE role = "scout"
    <3>1. /\ DOMAIN w = {"fast", "analysis", "cost_effective", "reasoning"}
          /\ w["fast"] = 40 /\ w["analysis"] = 30 /\ w["cost_effective"] = 20 /\ w["reasoning"] = 10
      BY <2>2 DEF Weights
    <3> HIDE DEF w
    <3> QED BY <1>3, <3>1
  <2>3. CASE role = "worker"
    <3>1. /\ DOMAIN w = {"coding", "reasoning", "fast", "long_context"}
          /\ w["coding"] = 40 /\ w["reasoning"] = 30 /\ w["fast"] = 20 /\ w["long_context"] = 10
      BY <2>3 DEF Weights
    <3> HIDE DEF w
    <3> QED BY <1>3, <3>1
  <2>4. CASE role = "reviewer"
    <3>1. /\ DOMAIN w = {"review", "analysis", "reasoning", "long_context"}
          /\ w["review"] = 40 /\ w["analysis"] = 30 /\ w["reasoning"] = 20 /\ w["long_context"] = 10
      BY <2>4 DEF Weights
    <3> HIDE DEF w
    <3> QED BY <1>3, <3>1
  <2> QED BY <1>4, <2>1, <2>2, <2>3, <2>4
<1> QED BY <1>1, <1>5

\* A planner's full score is exact, so it never goes over.
LEMMA PlannerNeverOverflows ==
    ASSUME NEW P, GoodProfiles(P), NEW p \in P
    PROVE  ~ Overflows("planner", p)
<1> SUFFICES ASSUME Overflows("planner", p) PROVE FALSE
  OBVIOUS
<1>1. "planner" \in DOMAIN Weights
  BY DEF Weights
<1>2. \A c \in DOMAIN Weights["planner"] : c \in DOMAIN p.scores /\ p.scores[c] = 10
  BY <1>1, FullScore DEF Overflows
<1>3. CoveredBy("planner", p) = DOMAIN Weights["planner"]
  BY <1>2 DEF CoveredBy
<1>4. [c \in CoveredBy("planner", p) |-> p.scores[c]] = [c \in DOMAIN Weights.planner |-> 10]
  BY <1>2, <1>3
<1>5. Above("planner", p) = 0
  BY <1>4, RoundingAssumption DEF Above
<1> QED BY <1>5 DEF Overflows

\* The ranking raises for a profile only if its exact score is ten and rounding lifts
\* it, so it has ten in every capability of a role other than planner
\* (RoleRecommendation, render_model_intelligence).
THEOREM OnlyPerfectionCrashes == Spec => DoctorDiesOfPerfection
<1>1. ASSUME DoctorInv, ClockInv, [Next]_vars, report'.at = "crashed", report.at # "crashed"
      PROVE  \E r \in Roles \ {"planner"}, p \in Active(Profiles(cache, clock)) :
                /\ p.identity \in report.discovered
                /\ \A c \in DOMAIN Weights[r] : c \in DOMAIN p.scores /\ p.scores[c] = 10
  <2> DEFINE P == Profiles(cache, clock)
             known == {p \in Active(P) : p.identity \in report.discovered}
  <2>1. DoctorIntelligence
    BY <1>1, IntelligenceMoves
  <2>2. \E r \in Roles : Raises(r, known)
    <3> SUFFICES ASSUME ~ \E r \in Roles : Raises(r, known) PROVE FALSE
      OBVIOUS
    <3>1. PICK ranking : report' = [report EXCEPT !.at = "resolutions", !.ranking = ranking]
      BY <2>1 DEF DoctorIntelligence
    <3>2. report'.at = "resolutions"
      BY <3>1 DEF DoctorInv
    <3> QED BY <1>1, <3>2
  <2>3. PICK r \in Roles, p \in known : Overflows(r, p)
    BY <2>2 DEF Raises
  <2>4. known \in SUBSET P
    BY DEF Active
  <2>5. GoodProfiles(known) /\ r \in DOMAIN Weights
    BY <1>1, <2>4, RankingIsSorted
  <2>6. r # "planner"
    BY <2>3, <2>5, PlannerNeverOverflows
  <2>7. \A c \in DOMAIN Weights[r] : c \in DOMAIN p.scores /\ p.scores[c] = 10
    BY <2>3, <2>5, FullScore DEF Overflows
  <2>8. p \in Active(P) /\ p.identity \in report.discovered
    OBVIOUS
  <2> QED BY <2>6, <2>7, <2>8
<1>2. DoctorInv /\ ClockInv /\ [Next]_vars =>
          [report'.at = "crashed" /\ report.at # "crashed" =>
             \E r \in Roles \ {"planner"}, p \in Active(Profiles(cache, clock)) :
                /\ p.identity \in report.discovered
                /\ \A c \in DOMAIN Weights[r] : c \in DOMAIN p.scores /\ p.scores[c] = 10]_vars
  BY <1>1
<1> QED BY <1>2, DoctorKept, ClockKept, PTL DEF Spec, DoctorDiesOfPerfection

-----------------------------------------------------------------------------
(* What a client is recommended.                                            *)

LEMMA RankingNames ==
    ASSUME NEW role \in DOMAIN Weights, NEW P, GoodProfiles(P)
    PROVE  /\ Recommendations(role, P) \in Seq(Models)
           /\ ToSet(Recommendations(role, P)) = {p.identity : p \in {q \in P : Ranked(role, q)}}
<1> DEFINE t == Recommendations(role, P)
           n == Len(t)
           ranked == {q \in P : Ranked(role, q)}
<1>1. PICK s : Sorts(s, role, P)
  BY RankingSorts
<1>2. /\ n \in Nat /\ t = [i \in 1..n |-> s[i].identity]
      /\ s \in [1..n -> ranked] /\ \A x \in ranked : \E k \in 1..n : s[k] = x
  BY <1>1 DEF Sorts, Orders
<1>3. \A q \in ranked : q.identity \in Models
  BY DEF GoodProfiles
<1> HIDE DEF t, n, ranked
<1>4. t \in [1..n -> Models]
  BY <1>2, <1>3
<1>5. t \in Seq(Models)
  BY <1>2, <1>4, SeqDef
<1>6. ToSet(t) = {p.identity : p \in ranked}
  <2>1. DOMAIN t = 1..n
    BY <1>2
  <2>2. ASSUME NEW x \in ToSet(t) PROVE x \in {p.identity : p \in ranked}
    <3>1. PICK i \in 1..n : x = t[i]
      BY <2>1, <2>2 DEF ToSet
    <3>2. s[i] \in ranked /\ x = s[i].identity
      BY <1>2, <3>1
    <3> QED BY <3>2
  <2>3. ASSUME NEW p \in ranked PROVE p.identity \in ToSet(t)
    <3>1. PICK k \in 1..n : s[k] = p
      BY <1>2
    <3>2. t[k] = p.identity
      BY <1>2, <3>1
    <3> QED BY <2>1, <3>2 DEF ToSet
  <2> QED BY <2>2, <2>3
<1> QED BY <1>5, <1>6 DEF t, ranked

\* Dropping repetitions loses no element.
LEMMA IdentifierNames ==
    ASSUME NEW c, Valid(c), NEW r \in Roles
    PROVE  /\ Identifiers(c, r) \in Seq(Models)
           /\ ToSet(Identifiers(c, r)) = ToSet(c.view[r].preferred) \cup ToSet(c.view[r].fallback)
<1> DEFINE a == c.view[r].preferred
           b == c.view[r].fallback
           s == a \o b
           F == FirstPlaces(s)
           t == Identifiers(c, r)
<1>1. a \in Seq(Models) /\ b \in Seq(Models) /\ s \in Seq(Models)
  BY ConfigTypes
<1>2. F \subseteq DOMAIN s /\ t = Subsequence(s, F)
  BY FirstsAtFirstPlaces DEF Identifiers
<1> HIDE DEF a, b, t
<1>3. /\ Len(s) = Len(a) + Len(b) /\ Len(a) \in Nat /\ Len(b) \in Nat
      /\ DOMAIN s = 1..(Len(a) + Len(b)) /\ DOMAIN a = 1..Len(a) /\ DOMAIN b = 1..Len(b)
      /\ \A i \in 1..(Len(a) + Len(b)) : s[i] = IF i <= Len(a) THEN a[i] ELSE b[i - Len(a)]
  BY <1>1, ConcatProperties, LenProperties
<1> HIDE DEF s, F
<1>4. t \in Seq(Models) /\ ToSet(t) = {s[i] : i \in F}
  BY <1>1, <1>2, SubsequenceFacts, SubsequenceElements
<1>5. ASSUME NEW x \in ToSet(s) PROVE x \in {s[i] : i \in F}
  <2> DEFINE T == {i \in DOMAIN s : s[i] = x}
  <2>1. T # {} /\ T \subseteq Nat
    BY <1>3 DEF ToSet
  <2>2. PICK i \in T : \A j \in T : i <= j
    <3> HIDE DEF T
    <3> QED BY <2>1, LeastNatural
  <2>3. i \in F
    BY <1>3, <2>2 DEF F, FirstPlaces
  <2> QED BY <2>3
<1>6. {s[i] : i \in F} = ToSet(s)
  BY <1>2, <1>5 DEF ToSet
<1>7. ToSet(s) = ToSet(a) \cup ToSet(b)
  <2>1. ASSUME NEW x \in ToSet(s) PROVE x \in ToSet(a) \cup ToSet(b)
    <3>1. PICK i \in 1..(Len(a) + Len(b)) : x = s[i]
      BY <1>3, <2>1 DEF ToSet
    <3>2. CASE i <= Len(a)
      BY <1>3, <3>1, <3>2 DEF ToSet
    <3>3. CASE ~(i <= Len(a))
      <4>1. i - Len(a) \in 1..Len(b) /\ x = b[i - Len(a)]
        BY <1>3, <3>1, <3>3
      <4> QED BY <1>3, <4>1 DEF ToSet
    <3> QED BY <3>2, <3>3
  <2>2. ASSUME NEW x \in ToSet(a) PROVE x \in ToSet(s)
    <3>1. PICK i \in 1..Len(a) : x = a[i]
      BY <1>3, <2>2 DEF ToSet
    <3>2. i \in 1..(Len(a) + Len(b)) /\ s[i] = a[i]
      BY <1>3, <3>1
    <3> QED BY <1>3, <3>1, <3>2 DEF ToSet
  <2>3. ASSUME NEW x \in ToSet(b) PROVE x \in ToSet(s)
    <3>1. PICK i \in 1..Len(b) : x = b[i]
      BY <1>3, <2>3 DEF ToSet
    <3>2. i + Len(a) \in 1..(Len(a) + Len(b)) /\ ~(i + Len(a) <= Len(a)) /\ (i + Len(a)) - Len(a) = i
      BY <1>3, <3>1
    <3>3. s[i + Len(a)] = b[i]
      BY <1>3, <3>2
    <3> QED BY <1>3, <3>1, <3>2, <3>3 DEF ToSet
  <2> QED BY <2>1, <2>2, <2>3
<1> QED BY <1>4, <1>6, <1>7 DEF a, b, t

\* Every record is the answer of a probe of that model, or none.
RecordsInv ==
    /\ records \in [Models -> Record]
    /\ \A m \in Models : RecordOK(records[m]) /\ records[m].model = m

LEMMA RecordsKept == Spec => []RecordsInv
<1>1. Init => RecordsInv
  BY DEF Init, RecordsInv, Record, RecordOK, Offline
<1>2. RecordsInv /\ clock \in Nat /\ [Next]_vars => RecordsInv'
  <2> SUFFICES ASSUME RecordsInv, clock \in Nat, [Next]_vars PROVE RecordsInv'
    OBVIOUS
  <2>1. CASE UNCHANGED records
    BY <2>1 DEF RecordsInv
  <2>2. CASE Probe
    <3>1. PICK m \in Models, r \in Answers :
              LET answer == [r EXCEPT !.checked = IF @ = Never THEN Never ELSE clock]
              IN  /\ ProbeAccepted(m, answer)
                  /\ records' = [records EXCEPT ![m] = answer]
      BY <2>2 DEF Probe
    <3> DEFINE answer == [r EXCEPT !.checked = IF @ = Never THEN Never ELSE clock]
    <3>2. r \in Record
      BY DoctorAssumption
    <3>3. answer \in Record
      BY <3>2 DEF Record, Never
    <3> HIDE DEF answer
    <3>4. RecordOK(answer) /\ answer.model = m /\ records' = [records EXCEPT ![m] = answer]
      BY <3>1 DEF ProbeAccepted, answer
    <3> QED BY <3>3, <3>4 DEF RecordsInv
  <2> QED BY <2>1, <2>2 DEF Next, Move, WriteCache, Tick, DoctorStep, DoctorConfig, DoctorSource,
                            DoctorIntelligence, DoctorResolutions, Advise, vars, adviceVars
<1>3. ClockInv => clock \in Nat
  BY DEF ClockInv
<1> QED BY <1>1, <1>2, <1>3, ClockKept, PTL DEF Spec

\* A client of resolve_role is recommended exactly the models that pass every
\* gate, for any records its probes left, supply, cache and configuration.
THEOREM AdvicePassesGates == Spec => AdviceByGates
<1> DEFINE Passing(r, P) ==
              {m \in ToSet(file.config.view[r].preferred) \cup ToSet(file.config.view[r].fallback) :
                  /\ m \in Found
                  /\ records[m].model = m /\ records[m].status = "AVAILABLE"
                  /\ m \in DOMAIN Builtin /\ file.config.view[r].hints \subseteq Builtin[m]
                  /\ \E p \in P :
                        /\ p.identity = m /\ p.status = "ACTIVE"
                        /\ 2 * SumFunctionOnSet(Weights[r],
                                                DOMAIN Weights[r] \cap DOMAIN p.scores) >= 100}
<1>1. ASSUME RecordsInv, ClockInv, [Next]_vars, advice' # advice,
             NEW r \in Roles, advice'[r].outcome # "raised"
      PROVE  ToSet(advice'[r].recommended) = Passing(r, Profiles(cache, clock))
  <2> DEFINE P == Profiles(cache, clock)
             c == file.config
             names == Identifiers(c, r)
             hints == c.view[r].hints
             ranking == Recommendations(r, P)
             reason(m) == Reason(m, hints, Found, records[m], ranking)
             chosen == {i \in DOMAIN ranking :
                           ranking[i] \in ToSet(names) /\ reason(ranking[i]) = "recommended"}
  <2>1. Advise
    BY <1>1 DEF Next, Move, Probe, WriteCache, Tick, DoctorStep, DoctorConfig, DoctorSource,
                DoctorIntelligence, DoctorResolutions, vars, adviceVars
  <2>2. Valid(c)
    BY <2>1 DEF Advise, Readable
  <2>3. advice'[r] = Resolution(c, r, Found, records, P)
    BY <2>1 DEF Advise
  <2>4. advice'[r].recommended = Subsequence(ranking, chosen)
    BY <1>1, <2>3 DEF Resolution
  <2>5. GoodProfiles(P) /\ r \in DOMAIN Weights
    BY <1>1, RankingIsSorted
  <2>6. ranking \in Seq(Models) /\ ToSet(ranking) = {p.identity : p \in {q \in P : Ranked(r, q)}}
    BY <2>5, RankingNames
  <2>7. ToSet(names) = ToSet(c.view[r].preferred) \cup ToSet(c.view[r].fallback)
        /\ names \in Seq(Models)
    BY <2>2, IdentifierNames
  <2>8. ToSet(Subsequence(ranking, chosen)) = {ranking[i] : i \in chosen}
    <3>1. chosen \subseteq DOMAIN ranking
      OBVIOUS
    <3> HIDE DEF chosen, ranking
    <3> QED BY <2>6, <3>1, SubsequenceElements
  <2>9. ASSUME NEW m \in Models
        PROVE  m \in ToSet(ranking) <=>
                  \E p \in P : /\ p.identity = m /\ p.status = "ACTIVE"
                               /\ 2 * Coverage(r, p) >= 100
    <3>1. \A p \in P : Ranked(r, p) <=> p.status = "ACTIVE" /\ 2 * Coverage(r, p) >= 100
      <4> TAKE p \in P
      <4>1. Coverage(r, p) \in Int
        BY <2>5, KeyTypes
      <4> QED BY <4>1 DEF Ranked, MinCoverage
    <3> HIDE DEF P, ranking
    <3> QED BY <2>6, <3>1
  <2>10. ASSUME NEW m \in Models
         PROVE  reason(m) = "recommended" <=>
                   /\ m \in Found /\ records[m].status = "AVAILABLE"
                   /\ m \in DOMAIN Builtin /\ hints \subseteq Builtin[m]
                   /\ m \in ToSet(ranking)
    <3> HIDE DEF ranking, hints
    <3>1. records[m].status \in {"AVAILABLE", "UNAVAILABLE", "UNKNOWN"}
      BY <1>1 DEF RecordsInv, Record
    <3>2. Compatibility(m, hints) = "compatible" <=>
              m \in DOMAIN Builtin /\ hints \subseteq Builtin[m]
      BY BuiltinAssumption DEF Compatibility
    <3>3. Compatibility(m, hints) # "recommended"
      BY DEF Compatibility
    <3> QED BY <3>1, <3>2, <3>3 DEF Reason
  <2>11. \A m \in Models : records[m].model = m
    BY <1>1 DEF RecordsInv
  <2>12. \A m \in ToSet(names) : m \in Models
    BY <2>7, ElementOfSeq, LenProperties DEF ToSet
  <2>13. \A m : m \in {ranking[i] : i \in chosen} <=>
                   m \in ToSet(names) /\ m \in ToSet(ranking) /\ reason(m) = "recommended"
    <3> HIDE DEF ranking, reason, names
    <3> QED BY DEF ToSet
  <2>14. \A p : Coverage(r, p) = SumFunctionOnSet(Weights[r], DOMAIN Weights[r] \cap DOMAIN p.scores)
    BY DEF Coverage, CoveredBy
  <2> DEFINE Q == Passing(r, P)
  <2>15. \A m : m \in Q <=>
                   /\ m \in ToSet(names) /\ m \in Found
                   /\ records[m].model = m /\ records[m].status = "AVAILABLE"
                   /\ m \in DOMAIN Builtin /\ hints \subseteq Builtin[m]
                   /\ \E p \in P : /\ p.identity = m /\ p.status = "ACTIVE"
                                   /\ 2 * Coverage(r, p) >= 100
    <3> HIDE DEF P
    <3> QED BY <2>7, <2>14
  <2> HIDE DEF P, ranking, reason, names, hints, chosen, Q
  <2>16. \A m : m \in {ranking[i] : i \in chosen} <=> m \in Q
    BY <2>9, <2>10, <2>11, <2>12, <2>13, <2>15
  <2>17. ToSet(Subsequence(ranking, chosen)) = Q
    BY <2>8, <2>16
  <2> QED BY <2>4, <2>17 DEF Q, P
<1>2. RecordsInv /\ ClockInv /\ [Next]_vars =>
          [advice' # advice =>
             \A r \in Roles : advice'[r].outcome # "raised" =>
                ToSet(advice'[r].recommended) = Passing(r, Profiles(cache, clock))]_vars
  BY <1>1
<1> QED BY <1>2, RecordsKept, ClockKept, PTL DEF Spec, AdviceByGates

-----------------------------------------------------------------------------
(* Types.                                                                   *)

LEMMA ResolutionTyped ==
    ASSUME NEW c, Valid(c), NEW r \in Roles, NEW discovered, NEW recs,
           NEW P, GoodProfiles(P)
    PROVE  Resolution(c, r, discovered, recs, P) \in Resolved
<1> DEFINE names == Identifiers(c, r)
           ranking == Recommendations(r, P)
           reason(m) == Reason(m, c.view[r].hints, discovered, recs[m], ranking)
           reasons == [i \in DOMAIN names |-> reason(names[i])]
           chosen == {i \in DOMAIN ranking :
                         ranking[i] \in ToSet(names) /\ reason(ranking[i]) = "recommended"}
           told == Subsequence(ranking, chosen)
<1>1. names \in Seq(Models)
  BY IdentifierNames
<1>2. ranking \in Seq(Models)
  BY RankingNames, DoctorAssumption
<1>3. \A m : reason(m) \in Reasons
  <2> TAKE m
  <2>1. Compatibility(m, c.view[r].hints) \in Reasons \cup {"compatible"}
    BY DEF Compatibility, Reasons
  <2> QED BY <2>1 DEF Reason, Reasons
<1> HIDE DEF reason, names, ranking
<1>4. reasons \in Seq(Reasons)
  <2>1. DOMAIN names = 1..Len(names) /\ Len(names) \in Nat
    BY <1>1, LenProperties
  <2>2. reasons \in [1..Len(names) -> Reasons]
    BY <1>3, <2>1
  <2> HIDE DEF reasons
  <2> QED BY <2>1, <2>2, SeqDef
<1>5. told \in Seq(Models)
  <2>1. chosen \subseteq DOMAIN ranking
    OBVIOUS
  <2> HIDE DEF chosen
  <2> QED BY <1>2, <2>1, SubsequenceFacts
<1>6. RoleOutcome(reasons) \in {"RECOMMENDED", "UNRESOLVED", "REJECTED", "UNKNOWN"}
  BY DEF RoleOutcome
<1> HIDE DEF reasons, told
<1>7. << >> \in Seq(Reasons) /\ << >> \in Seq(Models)
  BY EmptySeq
<1>8. \/ Resolution(c, r, discovered, recs, P) =
            [outcome |-> "raised", reasons |-> << >>, recommended |-> << >>]
      \/ Resolution(c, r, discovered, recs, P) =
            [outcome |-> RoleOutcome(reasons), reasons |-> reasons, recommended |-> told]
  BY DEF Resolution, told, chosen, reasons, reason, ranking, names
<1> DEFINE o == RoleOutcome(reasons)
<1>9. [outcome |-> o, reasons |-> reasons, recommended |-> told] \in Resolved
  <2> HIDE DEF o
  <2> QED BY <1>4, <1>5, <1>6 DEF Resolved, o
<1>10. [outcome |-> "raised", reasons |-> << >>, recommended |-> << >>] \in Resolved
  BY <1>7 DEF Resolved
<1> QED BY <1>8, <1>9, <1>10

\* The rest of TypeOK, with what was read already valid.
AdviceTyped ==
    /\ clock \in 0..MaxClock /\ moves \in 0..MaxMoves
    /\ report \in Report
    /\ advice \in [Roles -> Resolved]

LEMMA ReportTyped ==
    ASSUME AdviceTyped, DoctorInv, ClockInv, ConfigTypeOK, SupplyTypeOK, [Next]_vars
    PROVE  report' \in Report
<1>1. CASE UNCHANGED report
  BY <1>1 DEF AdviceTyped
<1>2. CASE DoctorConfig
  <2>1. CASE Readable(file)
    <3>1. file.config \in Config
      BY <2>1 DEF Readable, Valid
    <3>2. report' = [report EXCEPT !.at = "profiles", !.config = file.config]
      BY <1>2, <2>1 DEF DoctorConfig
    <3> QED BY <3>1, <3>2 DEF AdviceTyped, Report
  <2>2. CASE ~ Readable(file)
    <3>1. report' = [report EXCEPT !.at = "refused"]
      BY <1>2, <2>2 DEF DoctorConfig
    <3> QED BY <3>1 DEF AdviceTyped, Report
  <2> QED BY <2>1, <2>2
<1>3. ASSUME NEW s \in Sources, DoctorSource(s) PROVE report' \in Report
  <2> DEFINE found == report.discovered \cup DiscoverToml(toml[s])
             at == IF s = "profiles" THEN "agents" ELSE "intelligence"
  <2>1. report' = [report EXCEPT !.at = at, !.discovered = found]
    BY <1>3 DEF DoctorSource
  <2>2. found \in SUBSET Models
    BY DEF AdviceTyped, Report, DiscoverToml
  <2>3. at \in {"agents", "intelligence"}
    OBVIOUS
  <2> HIDE DEF found, at
  <2> QED BY <2>1, <2>2, <2>3 DEF AdviceTyped, Report
<1>4. CASE DoctorIntelligence
  <2> DEFINE known == {p \in Active(Profiles(cache, clock)) : p.identity \in report.discovered}
             ranking == [r \in Roles |-> Recommendations(r, known)]
  <2>1. \/ report' = [report EXCEPT !.at = "crashed"]
        \/ report' = [report EXCEPT !.at = "resolutions", !.ranking = ranking]
    BY <1>4 DEF DoctorIntelligence
  <2>2. ranking \in [Roles -> Seq(Models)]
    <3>1. known \in SUBSET Profiles(cache, clock)
      BY DEF Active
    <3> HIDE DEF known
    <3>2. \A r \in Roles : Recommendations(r, known) \in Seq(Models)
      BY <3>1, RankingIsSorted, RankingNames
    <3> QED BY <3>2
  <2> HIDE DEF ranking
  <2> QED BY <2>1, <2>2 DEF AdviceTyped, Report
<1>5. CASE DoctorResolutions
  <2> DEFINE known == Active(Profiles(cache, clock))
             told == [r \in Roles |-> Resolution(report.config, r, report.discovered,
                                                 [m \in Models |-> Offline(m)], known)]
  <2>1. report' = [report EXCEPT !.at = "done", !.resolved = told]
    BY <1>5 DEF DoctorResolutions
  <2>2. Valid(report.config)
    BY <1>5 DEF DoctorResolutions, Running, DoctorInv
  <2>3. told \in [Roles -> Resolved]
    <3>1. GoodProfiles(known)
      BY ProfilesAreGood, SomeAreGood DEF ClockInv, Active
    <3> HIDE DEF known
    <3>2. \A r \in Roles : Resolution(report.config, r, report.discovered,
                                      [m \in Models |-> Offline(m)], known) \in Resolved
      BY <2>2, <3>1, ResolutionTyped
    <3> QED BY <3>2
  <2> HIDE DEF told
  <2> QED BY <2>1, <2>3 DEF AdviceTyped, Report
<1> QED BY <1>1, <1>2, <1>3, <1>4, <1>5, ReportMoves

LEMMA AdviceIsTyped ==
    ASSUME AdviceTyped, ClockInv, [Next]_vars
    PROVE  advice' \in [Roles -> Resolved]
<1>1. CASE UNCHANGED advice
  BY <1>1 DEF AdviceTyped
<1>2. CASE Advise
  <2> DEFINE told(r) == Resolution(file.config, r, Found, records, Profiles(cache, clock))
  <2>1. Valid(file.config) /\ advice' = [r \in Roles |-> told(r)]
    BY <1>2 DEF Advise, Readable
  <2>2. \A r \in Roles : told(r) \in Resolved
    BY <2>1, ProfilesAreGood, ResolutionTyped DEF ClockInv
  <2> HIDE DEF told
  <2> QED BY <2>1, <2>2
<1> QED BY <1>1, <1>2 DEF Next, Move, Probe, WriteCache, Tick, DoctorStep, DoctorConfig,
        DoctorSource, DoctorIntelligence, DoctorResolutions, vars, adviceVars

\* What commands, discovery, probes, Doctor and the resolver leave behind has its
\* type, for any number of each.
THEOREM AdviceTypeCorrect == Spec => []TypeOK
<1>1. Init => AdviceTyped
  <2> SUFFICES ASSUME Init PROVE AdviceTyped
    OBVIOUS
  <2>1. NoResolution \in Resolved
    BY EmptySeq DEF NoResolution, Resolved
  <2>2. NoAdvice \in [Roles -> Resolved]
    BY <2>1 DEF NoAdvice
  <2>3. [r \in Roles |-> << >>] \in [Roles -> Seq(Models)]
    BY EmptySeq
  <2>4. report = NoReport /\ advice = NoAdvice /\ clock = 0 /\ moves = 0
    BY DEF Init
  <2> HIDE DEF NoAdvice
  <2>5. NoReport \in Report
    BY <2>2, <2>3 DEF NoReport, Report
  <2> QED BY <2>2, <2>4, <2>5, DoctorAssumption DEF AdviceTyped
<1>2. AdviceTyped /\ DoctorInv /\ ClockInv /\ ConfigTypeOK /\ SupplyTypeOK /\ [Next]_vars
          => AdviceTyped'
  <2> SUFFICES ASSUME AdviceTyped, DoctorInv, ClockInv, ConfigTypeOK, SupplyTypeOK, [Next]_vars
               PROVE  AdviceTyped'
    OBVIOUS
  <2>1. report' \in Report /\ advice' \in [Roles -> Resolved]
    BY ReportTyped, AdviceIsTyped
  <2>2. clock' \in 0..MaxClock
    <3>1. CASE UNCHANGED clock
      BY <3>1 DEF AdviceTyped
    <3>2. CASE Tick
      BY <3>2, DoctorAssumption DEF Tick, AdviceTyped
    <3> QED BY <3>1, <3>2, OnlyTickMovesTheClock
  <2>3. moves' \in 0..MaxMoves
    <3>1. CASE UNCHANGED moves
      BY <3>1 DEF AdviceTyped
    <3>2. CASE Move
      BY <3>2, DoctorAssumption DEF Move, AdviceTyped
    <3> QED BY <3>1, <3>2 DEF Next, DoctorStep, DoctorConfig, DoctorSource, DoctorIntelligence,
            DoctorResolutions, Running, Advise, vars
  <2> QED BY <2>1, <2>2, <2>3 DEF AdviceTyped
<1>3. AdviceTyped /\ RecordsInv /\ ClockInv /\ ConfigTypeOK /\ SupplyTypeOK => TypeOK
  BY DEF AdviceTyped, RecordsInv, ClockInv, TypeOK
<1> QED BY <1>1, <1>2, <1>3, DoctorKept, RecordsKept, ClockKept, ConfigTypeCorrect,
           SupplyTypeCorrect, PTL DEF Spec
=============================================================================
