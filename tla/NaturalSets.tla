---------------------------- MODULE NaturalSets ----------------------------
(***************************************************************************)
(* Facts about sets of naturals, finite sets and sequences that the proofs *)
(* about several components need.  The first of them is induction over the *)
(* naturals, as a statement about sets: a set of naturals that is not      *)
(* empty has a least element.                                              *)
(***************************************************************************)
EXTENDS Integers, Sequences, SequencesExt, FiniteSetsExt,
        FiniteSetTheorems, FunctionTheorems, SequenceTheorems, TLAPS

Less == {p \in Nat \X Nat : p[1] < p[2]}

LEMMA LessWellFounded == IsWellFoundedOn(Less, Nat)
  BY NatLessThanWellFounded DEF Less, OpToRel

LEMMA NotLess ==
  ASSUME NEW x \in Nat, NEW y \in Nat, <<y, x>> \notin Less
  PROVE  x <= y
  BY DEF Less

LEMMA HasLeast ==
  ASSUME NEW T, T \subseteq Nat, T # {}
  PROVE  \E x \in T : \A y \in T : x <= y
<1>1. PICK x \in T : \A y \in T : <<y, x>> \notin Less
  BY LessWellFounded, WFMin
<1>2. \A y \in T : x \in Nat /\ y \in Nat
  OBVIOUS
<1> QED BY <1>1, <1>2, NotLess

(* Induction: a set that has 0 and every successor has all naturals.       *)
LEMMA AllNaturals ==
  ASSUME NEW S, 0 \in S, \A n \in Nat : n \in S => n + 1 \in S
  PROVE  Nat \subseteq S
<1> SUFFICES ASSUME Nat \ S # {} PROVE FALSE
  OBVIOUS
<1>1. PICK x \in Nat \ S : \A y \in Nat \ S : x <= y
  BY HasLeast
<1>2. x # 0 /\ x - 1 \in Nat
  BY <1>1
<1>3. x - 1 \in S
  BY <1>1, <1>2
<1> QED BY <1>1, <1>2, <1>3

LEMMA HasGreatest ==
  ASSUME NEW T, T \subseteq Nat, T # {}, NEW n \in Nat, \A x \in T : x <= n
  PROVE  \E x \in T : \A y \in T : x >= y
<1> DEFINE U == {n - x : x \in T}
<1>1. U \subseteq Nat /\ U # {}
  <2>1. \A x \in T : n - x \in Nat
    OBVIOUS
  <2> QED BY <2>1
<1>2. PICK u \in U : \A v \in U : u <= v
  BY <1>1, HasLeast
<1>3. PICK x \in T : u = n - x
  OBVIOUS
<1>4. ASSUME NEW y \in T PROVE x >= y
  <2>1. n - y \in U
    OBVIOUS
  <2>2. n - x <= n - y
    BY <1>2, <1>3, <2>1
  <2>3. x \in Nat /\ y \in Nat
    OBVIOUS
  <2> QED BY <2>2, <2>3
<1> QED BY <1>4

(* The least and the greatest element of a set of places.                  *)
LEMMA MinOfPlaces ==
  ASSUME NEW T, T \subseteq Nat, T # {}
  PROVE  Min(T) \in T /\ \A x \in T : Min(T) <= x
  BY HasLeast DEF Min

LEMMA MaxOfPlaces ==
  ASSUME NEW T, T \subseteq Nat, T # {}, NEW n \in Nat, \A x \in T : x <= n
  PROVE  Max(T) \in T /\ \A x \in T : Max(T) >= x
  BY HasGreatest DEF Max

-----------------------------------------------------------------------------
(* A sequence of all elements of a finite set, each of them once.          *)

Lists(s, S) == /\ s \in Seq(S)
               /\ \A x \in S : \E k \in 1 .. Len(s) : s[k] = x
               /\ \A j, k \in 1 .. Len(s) : s[j] = s[k] => j = k

LEMMA InjectionLists ==
  ASSUME NEW S, IsFiniteSet(S), NEW f \in [1 .. Cardinality(S) -> S],
         \A j, k \in 1 .. Cardinality(S) : f[j] = f[k] => j = k
  PROVE  Lists(f, S)
<1>1. Cardinality(S) \in Nat
  BY FS_CardinalityType
<1> DEFINE D == 1 .. Cardinality(S)
<1>2. f \in Injection(D, S)
  BY Fun_IsInj
<1>3. Cardinality(D) = Cardinality(S)
  BY <1>1, FS_Interval
<1>4. f \in Surjection(D, S)
  BY <1>2, <1>3, FS_Injection
<1>5. \A x \in S : \E k \in D : f[k] = x
  <2> HIDE DEF D
  <2> QED BY <1>4, Fun_SurjectionProperties
<1>6. f \in Seq(S) /\ Len(f) = Cardinality(S)
  BY <1>1
<1> QED BY <1>5, <1>6 DEF Lists

LEMMA SetToSeqsLists ==
  ASSUME NEW S, IsFiniteSet(S), NEW f \in SetToSeqs(S)
  PROVE  Lists(f, S)
<1>1. f \in [1 .. Cardinality(S) -> S]
  BY DEF SetToSeqs
<1>2. \A j, k \in 1 .. Cardinality(S) : f[j] = f[k] => j = k
  BY DEF SetToSeqs
<1> QED BY <1>1, <1>2, InjectionLists

LEMMA SetToSeqLists ==
  ASSUME NEW S, IsFiniteSet(S)
  PROVE  Lists(SetToSeq(S), S)
<1> DEFINE D == 1 .. Cardinality(S)
<1>1. ExistsBijection(D, S)
  BY FS_CardinalityType
<1>2. PICK f : f \in Bijection(D, S)
  BY <1>1, Fun_ExistsBij
<1>3. f \in [D -> S] /\ \A a, b \in D : f[a] = f[b] => a = b
  BY <1>2, Fun_BijectionProperties
<1>4. \E g \in [D -> S] : IsInjective(g)
  BY <1>3 DEF IsInjective
<1>5. SetToSeq(S) \in [D -> S] /\ IsInjective(SetToSeq(S))
  BY <1>4 DEF SetToSeq
<1>6. \A a, b \in D : SetToSeq(S)[a] = SetToSeq(S)[b] => a = b
  BY <1>5 DEF IsInjective
<1> QED BY <1>5, <1>6, InjectionLists

(* The elements of a sequence that is made of two.                         *)
LEMMA ConcatElements ==
  ASSUME NEW S, NEW s \in Seq(S), NEW t \in Seq(S)
  PROVE  /\ s \o t \in Seq(S) /\ Len(s \o t) = Len(s) + Len(t)
         /\ \A k \in 1 .. Len(s) : (s \o t)[k] = s[k]
         /\ \A k \in 1 .. Len(t) : (s \o t)[Len(s) + k] = t[k]
<1>1. /\ Len(s) \in Nat /\ Len(t) \in Nat /\ s \o t \in Seq(S) /\ Len(s \o t) = Len(s) + Len(t)
      /\ \A k \in 1 .. Len(s) + Len(t) :
           (s \o t)[k] = IF k <= Len(s) THEN s[k] ELSE t[k - Len(s)]
  BY LenProperties, ConcatProperties
<1> QED BY <1>1

LEMMA PlaceInConcat ==
  ASSUME NEW m \in Nat, NEW n \in Nat, NEW k \in 1 .. m + n
  PROVE  k \in 1 .. m \/ \E j \in 1 .. n : k = m + j
<1>1. k > m => k - m \in 1 .. n /\ k = m + (k - m)
  OBVIOUS
<1> QED BY <1>1

LEMMA ListsRange ==
  ASSUME NEW S, NEW s, Lists(s, S)
  PROVE  Range(s) = S
  BY LenProperties DEF Lists, Range

(* A list without its first element; a list followed by another.           *)
LEMMA TailLists ==
  ASSUME NEW S, NEW s, Lists(s, S), s # <<>>
  PROVE  /\ Head(s) \in S
         /\ Lists(Tail(s), S \ {Head(s)})
<1> DEFINE n == Len(s)
           t == Tail(s)
<1>1. /\ n \in Nat /\ n >= 1 /\ Head(s) = s[1] /\ t \in Seq(S) /\ Len(t) = n - 1
      /\ \A k \in 1 .. (n - 1) : t[k] = s[k + 1]
  BY HeadTailProperties, LenProperties, EmptySeq DEF Lists
<1>2. \A k \in 1 .. n : s[k] \in S
  BY ElementOfSeq DEF Lists
<1>3. \A k \in 1 .. (n - 1) : t[k] \in S \ {s[1]}
  <2> TAKE k \in 1 .. (n - 1)
  <2>1. k + 1 \in 1 .. n /\ 1 \in 1 .. n /\ k + 1 # 1
    BY <1>1
  <2> QED BY <1>1, <1>2, <2>1 DEF Lists
<1>4. t \in Seq(S \ {s[1]})
  <2>1. t \in [1 .. (n - 1) -> S]
    BY <1>1, LenProperties
  <2>2. t \in [1 .. (n - 1) -> S \ {s[1]}]
    BY <1>3, <2>1
  <2>3. n - 1 \in Nat
    BY <1>1
  <2> HIDE DEF t, n
  <2> QED BY <2>2, <2>3, SeqDef
<1>5. \A x \in S \ {s[1]} : \E k \in 1 .. (n - 1) : t[k] = x
  <2> TAKE x \in S \ {s[1]}
  <2>1. PICK k \in 1 .. n : s[k] = x
    BY DEF Lists
  <2>2. k - 1 \in 1 .. (n - 1) /\ (k - 1) + 1 = k
    BY <1>1, <2>1
  <2> QED BY <1>1, <2>1, <2>2
<1>6. \A j, k \in 1 .. (n - 1) : t[j] = t[k] => j = k
  <2> TAKE j, k \in 1 .. (n - 1)
  <2>1. j + 1 \in 1 .. n /\ k + 1 \in 1 .. n
    BY <1>1
  <2> QED BY <1>1, <2>1 DEF Lists
<1> QED BY <1>1, <1>2, <1>4, <1>5, <1>6 DEF Lists

LEMMA ConcatLists ==
  ASSUME NEW S, NEW T, NEW s, NEW t, Lists(s, S), Lists(t, T), S \cap T = {}
  PROVE  Lists(s \o t, S \cup T)
<1> DEFINE n == Len(s)
           p == Len(t)
           u == s \o t
<1>1. s \in Seq(S \cup T) /\ t \in Seq(S \cup T)
  BY SeqDef DEF Lists
<1>2. /\ n \in Nat /\ p \in Nat /\ u \in Seq(S \cup T) /\ Len(u) = n + p
      /\ \A k \in 1 .. n + p : u[k] = IF k <= n THEN s[k] ELSE t[k - n]
  BY <1>1, LenProperties, ConcatProperties
<1>3. /\ \A k \in 1 .. n : u[k] = s[k] /\ k \in 1 .. n + p
      /\ \A k \in 1 .. p : u[n + k] = t[k] /\ n + k \in 1 .. n + p
  BY <1>2
<1>4. \A x \in S \cup T : \E k \in 1 .. n + p : u[k] = x
  <2> TAKE x \in S \cup T
  <2>1. CASE x \in S
    BY <1>3, <2>1 DEF Lists
  <2>2. CASE x \in T
    <3>1. PICK k \in 1 .. p : t[k] = x
      BY <2>2 DEF Lists
    <3> QED BY <1>3, <3>1
  <2> QED BY <2>1, <2>2
<1>5. (\A k \in 1 .. n : s[k] \in S) /\ \A k \in 1 .. p : t[k] \in T
  BY ElementOfSeq DEF Lists
<1>6. \A j, k \in 1 .. n + p : u[j] = u[k] => j = k
  <2> TAKE j, k \in 1 .. n + p
  <2>1. CASE j <= n /\ k <= n
    BY <1>2, <2>1 DEF Lists
  <2>2. CASE j > n /\ k > n
    <3>1. j - n \in 1 .. p /\ k - n \in 1 .. p /\ u[j] = t[j - n] /\ u[k] = t[k - n]
      BY <1>2, <2>2
    <3>2. t[j - n] = t[k - n] => j - n = k - n
      BY <3>1 DEF Lists
    <3> QED BY <1>2, <2>2, <3>1, <3>2
  <2>3. CASE j <= n /\ k > n
    <3>1. j \in 1 .. n /\ k - n \in 1 .. p /\ u[j] = s[j] /\ u[k] = t[k - n]
      BY <1>2, <2>3
    <3> QED BY <1>5, <3>1
  <2>4. CASE j > n /\ k <= n
    <3>1. k \in 1 .. n /\ j - n \in 1 .. p /\ u[k] = s[k] /\ u[j] = t[j - n]
      BY <1>2, <2>4
    <3> QED BY <1>5, <3>1
  <2> QED BY <1>2, <2>1, <2>2, <2>3, <2>4
<1> QED BY <1>2, <1>4, <1>6 DEF Lists

-----------------------------------------------------------------------------
(* Recursion: there is a function that starts with a and makes its next    *)
(* value from the last one with the function G.                            *)
Iteration(a, G, n, h) == h = [k \in 0 .. n |-> IF k = 0 THEN a ELSE G[h[k - 1]]]

LEMMA IterationExists ==
  ASSUME NEW a, NEW G, NEW n \in Nat
  PROVE  \E h : Iteration(a, G, n, h)
<1> DEFINE S == {m \in Nat : \E h : Iteration(a, G, m, h)}
<1>1. 0 \in S
  <2> DEFINE h == [k \in 0 .. 0 |-> a]
  <2>1. Iteration(a, G, 0, h)
    BY DEF Iteration
  <2> QED
    BY <2>1
<1>2. ASSUME NEW m \in Nat, m \in S PROVE m + 1 \in S
  <2>1. PICK h : Iteration(a, G, m, h)
    BY <1>2
  <2> DEFINE g == [k \in 0 .. m + 1 |-> IF k <= m THEN h[k] ELSE G[h[m]]]
  <2>2. \A k \in 0 .. m : g[k] = h[k]
    OBVIOUS
  <2>3. ASSUME NEW k \in 0 .. m + 1
        PROVE  g[k] = IF k = 0 THEN a ELSE G[g[k - 1]]
    <3>1. CASE k <= m
      <4>1. k \in 0 .. m /\ (k # 0 => k - 1 \in 0 .. m)
        BY <3>1
      <4>2. h[k] = IF k = 0 THEN a ELSE G[h[k - 1]]
        BY <2>1, <4>1 DEF Iteration
      <4> HIDE DEF g
      <4> QED
        BY <2>2, <4>1, <4>2
    <3>2. CASE ~(k <= m)
      <4>1. k = m + 1 /\ k # 0 /\ k - 1 = m /\ m \in 0 .. m
        BY <3>2
      <4>2. g[k] = G[h[m]]
        BY <4>1
      <4> HIDE DEF g
      <4> QED
        BY <2>2, <4>1, <4>2
    <3> QED
      BY <3>1, <3>2
  <2>4. g = [k \in 0 .. m + 1 |-> g[k]]
    OBVIOUS
  <2> HIDE DEF g
  <2>5. Iteration(a, G, m + 1, g)
    BY <2>3, <2>4 DEF Iteration
  <2> QED
    BY <2>5
<1> HIDE DEF S
<1>3. Nat \subseteq S
  BY <1>1, <1>2, AllNaturals
<1> QED
  BY <1>3 DEF S

LEMMA IterationAgrees ==
  ASSUME NEW a, NEW G, NEW n \in Nat, NEW m \in Nat, n <= m, NEW h, Iteration(a, G, n, h), NEW g, Iteration(a, G, m, g)
  PROVE  \A k \in 0 .. n : h[k] = g[k]
<1> DEFINE S == {k \in Nat : k <= n => h[k] = g[k]}
<1>1. \A k \in 0 .. n : /\ h[k] = IF k = 0 THEN a ELSE G[h[k - 1]]
                        /\ g[k] = IF k = 0 THEN a ELSE G[g[k - 1]]
  BY DEF Iteration
<1>2. 0 \in S
  BY <1>1
<1>3. ASSUME NEW k \in Nat, k \in S PROVE k + 1 \in S
  <2>1. CASE k + 1 <= n
    <3>1. k + 1 \in 0 .. n /\ (k + 1) - 1 = k /\ k + 1 # 0 /\ h[k] = g[k]
      BY <1>3, <2>1
    <3>2. h[k + 1] = G[h[k]] /\ g[k + 1] = G[g[k]]
      BY <1>1, <3>1
    <3> QED
      BY <3>1, <3>2
  <2>2. CASE ~(k + 1 <= n)
    BY <2>2
  <2> QED
    BY <2>1, <2>2
<1>4. Nat \subseteq S
  <2> HIDE DEF S
  <2> QED
    BY <1>2, <1>3, AllNaturals
<1> QED
  BY <1>4

Iterates(a, G, g) ==
  g = [n \in Nat |-> g[n]] /\ g[0] = a /\ \A n \in Nat : g[n + 1] = G[g[n]]
Iterate(a, G) == CHOOSE g : Iterates(a, G, g)

LEMMA IterateExists ==
  ASSUME NEW a, NEW G
  PROVE  Iterates(a, G, Iterate(a, G))
<1> DEFINE up(n) == CHOOSE h : Iteration(a, G, n, h)
           g == [n \in Nat |-> up(n)[n]]
<1>1. \A n \in Nat : Iteration(a, G, n, up(n))
  BY IterationExists
<1>2. ASSUME NEW n \in Nat
      PROVE  g[n] = IF n = 0 THEN a ELSE G[g[n - 1]]
  <2>1. PICK h : h = up(n) /\ Iteration(a, G, n, h) /\ g[n] = h[n]
    BY <1>1
  <2>2. h[n] = IF n = 0 THEN a ELSE G[h[n - 1]]
    <3>1. n \in 0 .. n
      OBVIOUS
    <3> HIDE DEF up, g
    <3> QED
      BY <2>1, <3>1 DEF Iteration
  <2>3. ASSUME n # 0 PROVE h[n - 1] = g[n - 1]
    <3>1. PICK m \in Nat : m = n - 1 /\ m <= n /\ m \in 0 .. m
      BY <2>3
    <3>2. PICK f : Iteration(a, G, m, f) /\ g[m] = f[m]
      BY <1>1
    <3> HIDE DEF up, g
    <3>3. f[m] = h[m]
      BY <2>1, <3>1, <3>2, IterationAgrees
    <3> QED
      BY <3>1, <3>2, <3>3
  <2> HIDE DEF up, g
  <2> QED
    BY <2>1, <2>2, <2>3
<1>3. g = [n \in Nat |-> g[n]]
  OBVIOUS
<1> HIDE DEF g, up
<1>4. \A n \in Nat : n + 1 \in Nat /\ n + 1 # 0 /\ (n + 1) - 1 = n
  OBVIOUS
<1>5. g[0] = a /\ \A n \in Nat : g[n + 1] = G[g[n]]
  BY <1>2, <1>4
<1>6. Iterates(a, G, g)
  BY <1>3, <1>5 DEF Iterates
<1> QED
  BY <1>6 DEF Iterate

(* A chain of growing subsets of a finite set that does not grow any more  *)
(* once it has stopped: after as many steps as the set has elements it has.*)
LEMMA ChainStops ==
  ASSUME NEW X, IsFiniteSet(X), NEW f \in [Nat -> SUBSET X],
         \A n \in Nat : f[n] \subseteq f[n + 1],
         \A n \in Nat : f[n + 1] = f[n] => f[n + 2] = f[n + 1]
  PROVE  Cardinality(X) \in Nat /\ f[Cardinality(X) + 1] = f[Cardinality(X)]
<1>1. /\ Cardinality(X) \in Nat
      /\ \A S \in SUBSET X : IsFiniteSet(S) /\ Cardinality(S) \in Nat /\ Cardinality(S) <= Cardinality(X)
  BY FS_CardinalityType, FS_Subset
<1> DEFINE S == {n \in Nat : f[n + 1] = f[n] \/ Cardinality(f[n]) >= n}
<1>2. 0 \in S
  BY <1>1
<1>3. ASSUME NEW n \in Nat, n \in S PROVE n + 1 \in S
  <2>1. PICK A, B : A = f[n] /\ B = f[n + 1]
    OBVIOUS
  <2>2. A \in SUBSET X /\ B \in SUBSET X /\ A \subseteq B
    BY <2>1
  <2>3. CASE A = B
    <3>1. f[n + 2] = f[n + 1]
      BY <2>1, <2>3
    <3>2. (n + 1) + 1 = n + 2 /\ n + 1 \in Nat
      OBVIOUS
    <3> QED BY <3>1, <3>2
  <2>4. CASE A # B
    <3>1. Cardinality(A) >= n
      BY <1>3, <2>1, <2>4
    <3>2. Cardinality(A) <= Cardinality(B) /\ Cardinality(A) # Cardinality(B)
      BY <1>1, <2>2, <2>4, FS_Subset
    <3>3. PICK i \in Nat, j \in Nat : i = Cardinality(A) /\ j = Cardinality(B)
      BY <1>1, <2>2
    <3>4. j >= n + 1
      BY <3>1, <3>2, <3>3
    <3> QED BY <2>1, <3>3, <3>4
  <2> QED BY <2>3, <2>4
<1>4. Nat \subseteq S
  <2> HIDE DEF S
  <2> QED BY <1>2, <1>3, AllNaturals
<1>5. PICK N \in Nat : N = Cardinality(X)
  BY <1>1
<1>6. CASE Cardinality(f[N]) >= N
  <2>1. PICK A : A = f[N] /\ A \in SUBSET X
    OBVIOUS
  <2>2. Cardinality(A) = Cardinality(X)
    BY <1>1, <1>5, <1>6, <2>1
  <2>3. A = X
    BY <2>1, <2>2, FS_Subset
  <2>4. PICK B : B = f[N + 1] /\ B \in SUBSET X
    OBVIOUS
  <2>5. A \subseteq B
    BY <2>1, <2>4
  <2> QED BY <1>5, <2>1, <2>3, <2>4, <2>5
<1> QED BY <1>4, <1>5, <1>6
=============================================================================
