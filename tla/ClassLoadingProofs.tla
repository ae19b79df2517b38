------------------------- MODULE ClassLoadingProofs -------------------------
(***************************************************************************)
(* Theorems about class loading, for every arrangement of loaders, files   *)
(* and definitions, every sequence of calls, and every edge that intents   *)
(* add between them.                                                       *)
(***************************************************************************)
EXTENDS IntentFlow, NaturalSets, TLAPS

-----------------------------------------------------------------------------
(* Lists.                                                                  *)

LEMMA ListFacts ==
  ASSUME NEW s, IsList(s)
  PROVE  /\ Len(s) \in Nat /\ DOMAIN s = 1 .. Len(s)
         /\ s = [k \in 1 .. Len(s) |-> s[k]]
         /\ s = <<>> <=> Len(s) = 0
<1> DEFINE S == {s[j] : j \in DOMAIN s}
<1>1. s \in Seq(S)
  BY DEF IsList
<1> HIDE DEF S
<1>2. Len(s) \in Nat /\ DOMAIN s = 1 .. Len(s) /\ s \in [1 .. Len(s) -> S]
  BY <1>1, LenProperties
<1>3. s = <<>> <=> Len(s) = 0
  BY <1>1, EmptySeq
<1> QED BY <1>2, <1>3

LEMMA ListMade ==
  ASSUME NEW n \in Nat, NEW s, s = [k \in 1 .. n |-> s[k]]
  PROVE  IsList(s) /\ Len(s) = n
<1> DEFINE S == {s[j] : j \in 1 .. n}
<1>1. DOMAIN s = 1 .. n
  OBVIOUS
<1>2. s \in [1 .. n -> S]
  OBVIOUS
<1>3. s \in Seq(S)
  BY <1>2, SeqDef
<1>4. IsList(s)
  BY <1>1, <1>3 DEF IsList
<1>5. DOMAIN s = 1 .. Len(s) /\ Len(s) \in Nat
  BY <1>3, LenProperties
<1>6. Len(s) = n
  BY <1>1, <1>5
<1> QED BY <1>4, <1>6

LEMMA ListConcat ==
  ASSUME NEW s, NEW t, IsList(s), IsList(t)
  PROVE  /\ IsList(s \o t) /\ Len(s \o t) = Len(s) + Len(t)
         /\ \A k \in 1 .. Len(s) : (s \o t)[k] = s[k]
         /\ \A k \in 1 .. Len(t) : (s \o t)[Len(s) + k] = t[k]
<1> DEFINE S == {s[j] : j \in DOMAIN s} \cup {t[j] : j \in DOMAIN t}
<1>1. s \in Seq(S) /\ t \in Seq(S)
  <2>1. s \in [1 .. Len(s) -> S] /\ t \in [1 .. Len(t) -> S] /\ Len(s) \in Nat /\ Len(t) \in Nat
    BY ListFacts
  <2> HIDE DEF S
  <2> QED BY <2>1, SeqDef
<1> HIDE DEF S
<1>2. /\ s \o t \in Seq(S) /\ Len(s \o t) = Len(s) + Len(t)
      /\ \A k \in 1 .. Len(s) + Len(t) : (s \o t)[k] = IF k <= Len(s) THEN s[k] ELSE t[k - Len(s)]
  BY <1>1, ConcatProperties
<1>3. Len(s) \in Nat /\ Len(t) \in Nat
  BY ListFacts
<1>4. DOMAIN (s \o t) = 1 .. Len(s) + Len(t)
  BY <1>2, LenProperties
<1>5. s \o t = [k \in 1 .. Len(s) + Len(t) |-> (s \o t)[k]]
  <2>1. s \o t \in [1 .. Len(s) + Len(t) -> S]
    BY <1>2, LenProperties
  <2> QED BY <2>1
<1>6. IsList(s \o t)
  BY <1>3, <1>5, ListMade
<1>7. \A k \in 1 .. Len(s) : (s \o t)[k] = s[k]
  BY <1>2, <1>3
<1>8. \A k \in 1 .. Len(t) : (s \o t)[Len(s) + k] = t[k]
  <2> TAKE k \in 1 .. Len(t)
  <2>1. Len(s) + k \in 1 .. Len(s) + Len(t) /\ ~(Len(s) + k <= Len(s)) /\ (Len(s) + k) - Len(s) = k
    BY <1>3
  <2> QED BY <1>2, <2>1
<1> QED BY <1>2, <1>6, <1>7, <1>8

LEMMA ListTail ==
  ASSUME NEW s, IsList(s), s # <<>>
  PROVE  /\ Head(s) = s[1] /\ 1 \in DOMAIN s
         /\ IsList(Tail(s)) /\ Len(Tail(s)) = Len(s) - 1
         /\ \A k \in DOMAIN Tail(s) : k + 1 \in DOMAIN s /\ Tail(s)[k] = s[k + 1]
<1> DEFINE S == {s[j] : j \in DOMAIN s}
           t == Tail(s)
<1>1. s \in Seq(S)
  BY DEF IsList
<1> HIDE DEF S
<1>2. Len(s) \in Nat /\ DOMAIN s = 1 .. Len(s) /\ Len(s) # 0
  BY ListFacts
<1>3. /\ Head(s) = s[1] /\ t \in Seq(S) /\ Len(t) = Len(s) - 1
      /\ \A k \in 1 .. Len(s) - 1 : t[k] = s[k + 1]
  BY <1>1, <1>2, HeadTailProperties
<1>4. DOMAIN t = 1 .. Len(s) - 1 /\ t \in [1 .. Len(s) - 1 -> S] /\ Len(s) - 1 \in Nat
  <2>1. DOMAIN t = 1 .. Len(t) /\ t \in [1 .. Len(t) -> S] /\ Len(t) \in Nat
    BY <1>3, LenProperties
  <2> QED BY <1>3, <2>1
<1> HIDE DEF t
<1>5. IsList(t)
  <2>1. t = [k \in 1 .. Len(s) - 1 |-> t[k]]
    BY <1>4
  <2> QED BY <1>4, <2>1, ListMade
<1>6. \A k \in DOMAIN t : k + 1 \in DOMAIN s /\ t[k] = s[k + 1]
  BY <1>2, <1>3, <1>4
<1>7. 1 \in DOMAIN s
  BY <1>2
<1> QED BY <1>3, <1>5, <1>6, <1>7 DEF t

LEMMA ListOne ==
  ASSUME NEW x
  PROVE  IsList(<<x>>) /\ Len(<<x>>) = 1 /\ <<x>>[1] = x /\ DOMAIN <<x>> = {1}
<1>1. <<x>> = [k \in 1 .. 1 |-> <<x>>[k]] /\ DOMAIN <<x>> = {1}
  OBVIOUS
<1> QED BY <1>1, ListMade

(* What the places of a stack hold after a frame was put on it.            *)
LEMMA ListPush ==
  ASSUME NEW s, IsList(s), NEW x
  PROVE  /\ IsList(<<x>> \o s) /\ <<x>> \o s # <<>> /\ Head(<<x>> \o s) = x
         /\ (<<x>> \o s)[1] = x
         /\ DOMAIN (<<x>> \o s) = {1} \cup {k + 1 : k \in DOMAIN s}
         /\ \A k \in DOMAIN s : (<<x>> \o s)[k + 1] = s[k]
<1> DEFINE t == <<x>> \o s
<1>1. IsList(<<x>>) /\ Len(<<x>>) = 1 /\ <<x>>[1] = x
  BY ListOne
<1>2. Len(s) \in Nat /\ DOMAIN s = 1 .. Len(s)
  BY ListFacts
<1>3. /\ IsList(t) /\ Len(t) = 1 + Len(s) /\ t[1] = x
      /\ \A k \in 1 .. Len(s) : t[1 + k] = s[k]
  <2>1. 1 \in 1 .. Len(<<x>>)
    BY <1>1
  <2> QED BY <1>1, <2>1, ListConcat
<1> HIDE DEF t
<1>4. DOMAIN t = 1 .. 1 + Len(s) /\ t # <<>>
  BY <1>2, <1>3, ListFacts
<1>5. Head(t) = t[1]
  BY <1>3, <1>4, ListTail
<1>6. DOMAIN t = {1} \cup {k + 1 : k \in DOMAIN s}
  <2>1. \A i \in 1 .. 1 + Len(s) : i = 1 \/ (i - 1 \in DOMAIN s /\ i = (i - 1) + 1)
    BY <1>2
  <2>2. \A k \in DOMAIN s : k + 1 \in 1 .. 1 + Len(s)
    BY <1>2
  <2>3. 1 \in 1 .. 1 + Len(s)
    BY <1>2
  <2> QED BY <1>4, <2>1, <2>2, <2>3
<1>7. \A k \in DOMAIN s : t[k + 1] = s[k]
  BY <1>2, <1>3
<1> QED BY <1>3, <1>4, <1>5, <1>6, <1>7 DEF t

(* The stack after the frame on top returned, became another one, or       *)
(* called.                                                                 *)
LEMMA StackReturn ==
  ASSUME NEW s, IsList(s), s # <<>>, NEW t, t = Tail(s)
  PROVE  /\ IsList(t)
         /\ \A k \in DOMAIN t : k \in Nat /\ k >= 1 /\ k + 1 \in DOMAIN s /\ t[k] = s[k + 1]
         /\ t # <<>> => 2 \in DOMAIN s /\ Head(t) = s[2]
<1>1. IsList(t) /\ \A k \in DOMAIN t : k + 1 \in DOMAIN s /\ t[k] = s[k + 1]
  BY ListTail
<1>2. \A k \in DOMAIN t : k \in Nat /\ k >= 1
  BY <1>1, ListFacts
<1>3. t # <<>> => 1 \in DOMAIN t /\ Head(t) = t[1]
  BY <1>1, ListTail
<1>4. 1 + 1 = 2
  OBVIOUS
<1> QED BY <1>1, <1>2, <1>3, <1>4

Becoming(s, g, t)   == t = <<g>> \o Tail(s)
Calling(s, f, g, t) == t = <<f, g>> \o Tail(s)

LEMMA StackBecome ==
  ASSUME NEW s, IsList(s), s # <<>>, NEW g, NEW t, Becoming(s, g, t)
  PROVE  /\ IsList(t) /\ t # <<>> /\ Head(t) = g /\ t[1] = g
         /\ 1 \in DOMAIN s /\ DOMAIN t = DOMAIN s
         /\ \A k \in DOMAIN s : k \in Nat /\ k >= 1 /\ (k # 1 => t[k] = s[k])
<1>1. IsList(Tail(s)) /\ 1 \in DOMAIN s /\ Len(Tail(s)) = Len(s) - 1
      /\ \A k \in DOMAIN Tail(s) : k + 1 \in DOMAIN s /\ Tail(s)[k] = s[k + 1]
  BY ListTail
<1>2. /\ IsList(t) /\ t # <<>> /\ Head(t) = g /\ t[1] = g
      /\ DOMAIN t = {1} \cup {k + 1 : k \in DOMAIN Tail(s)}
      /\ \A k \in DOMAIN Tail(s) : t[k + 1] = Tail(s)[k]
  <2> PICK r : r = Tail(s)
    OBVIOUS
  <2>1. IsList(r) /\ t = <<g>> \o r
    BY <1>1 DEF Becoming
  <2>2. /\ IsList(<<g>> \o r) /\ <<g>> \o r # <<>> /\ Head(<<g>> \o r) = g /\ (<<g>> \o r)[1] = g
        /\ DOMAIN (<<g>> \o r) = {1} \cup {k + 1 : k \in DOMAIN r}
        /\ \A k \in DOMAIN r : (<<g>> \o r)[k + 1] = r[k]
    <3>1. IsList(r)
      BY <2>1
    <3> QED BY ONLY <3>1, ListPush
  <2> QED BY <2>1, <2>2
<1>3. Len(s) \in Nat /\ DOMAIN s = 1 .. Len(s) /\ DOMAIN Tail(s) = 1 .. Len(s) - 1
  <2>1. DOMAIN Tail(s) = 1 .. Len(Tail(s))
    BY <1>1, ListFacts
  <2> QED BY <1>1, <2>1, ListFacts
<1>4. ASSUME NEW k \in DOMAIN s, k # 1 PROVE k \in DOMAIN t /\ t[k] = s[k]
  <2>1. k - 1 \in DOMAIN Tail(s) /\ (k - 1) + 1 = k
    BY <1>3, <1>4
  <2> QED BY <1>1, <1>2, <2>1
<1>5. DOMAIN t = DOMAIN s
  BY <1>1, <1>2, <1>4
<1> QED BY <1>1, <1>2, <1>3, <1>4, <1>5

LEMMA StackCall ==
  ASSUME NEW s, IsList(s), s # <<>>, NEW f, NEW g, NEW t, Calling(s, f, g, t)
  PROVE  /\ IsList(t) /\ t # <<>> /\ Head(t) = f /\ t[1] = f /\ t[2] = g
         /\ 1 \in DOMAIN t /\ 2 \in DOMAIN t
         /\ \A k \in DOMAIN t : k = 1 \/ k = 2 \/
              (k - 1 \in DOMAIN s /\ k \in Nat /\ k >= 3 /\ t[k] = s[k - 1])
         /\ \A k \in DOMAIN s : k # 1 => k + 1 \in DOMAIN t
<1> DEFINE r == Tail(s)
<1>1. IsList(r) /\ Len(r) = Len(s) - 1
      /\ \A k \in DOMAIN r : k + 1 \in DOMAIN s /\ r[k] = s[k + 1]
  BY ListTail
<1> HIDE DEF r
<1>2. <<f, g>> = [k \in 1 .. 2 |-> <<f, g>>[k]] /\ <<f, g>>[1] = f /\ <<f, g>>[2] = g
  OBVIOUS
<1>3. IsList(<<f, g>>) /\ Len(<<f, g>>) = 2
  BY <1>2, ListMade
<1>4. Len(r) \in Nat /\ DOMAIN r = 1 .. Len(r)
  BY <1>1, ListFacts
<1>5. /\ IsList(t) /\ Len(t) = 2 + Len(r) /\ t[1] = f /\ t[2] = g
      /\ \A k \in 1 .. Len(r) : t[2 + k] = r[k]
  <2>1. 1 \in 1 .. 2 /\ 2 \in 1 .. 2
    OBVIOUS
  <2> PICK p : p = <<f, g>>
    OBVIOUS
  <2>2. t = p \o r /\ IsList(p) /\ Len(p) = 2 /\ p[1] = f /\ p[2] = g
    BY <1>2, <1>3 DEF r, Calling
  <2>3. /\ IsList(t) /\ Len(t) = Len(p) + Len(r)
        /\ \A k \in 1 .. Len(p) : t[k] = p[k]
        /\ \A k \in 1 .. Len(r) : t[Len(p) + k] = r[k]
    <3>1. /\ IsList(p \o r) /\ Len(p \o r) = Len(p) + Len(r)
          /\ \A k \in 1 .. Len(p) : (p \o r)[k] = p[k]
          /\ \A k \in 1 .. Len(r) : (p \o r)[Len(p) + k] = r[k]
      <4>1. IsList(p) /\ IsList(r)
        BY <1>1, <2>2
      <4> QED BY <4>1, ListConcat
    <3> QED BY <2>2, <3>1
  <2> QED BY <2>1, <2>2, <2>3
<1>6. DOMAIN t = 1 .. 2 + Len(r)
  BY <1>5, ListFacts
<1>7. 1 \in DOMAIN t /\ 2 \in DOMAIN t /\ t # <<>>
  BY <1>4, <1>5, <1>6, ListFacts
<1>8. Head(t) = t[1]
  BY <1>5, <1>7, ListTail
<1>9. ASSUME NEW k \in DOMAIN t, k # 1, k # 2
      PROVE  k - 1 \in DOMAIN s /\ k \in Nat /\ k >= 3 /\ t[k] = s[k - 1]
  <2>1. k - 2 \in 1 .. Len(r) /\ 2 + (k - 2) = k /\ (k - 2) + 1 = k - 1 /\ k \in Nat /\ k >= 3
    BY <1>4, <1>6, <1>9
  <2>2. k - 2 \in DOMAIN r
    BY <1>4, <2>1
  <2> QED BY <1>1, <1>5, <2>1, <2>2
<1>10. ASSUME NEW k \in DOMAIN s, k # 1 PROVE k + 1 \in DOMAIN t
  <2>1. DOMAIN s = 1 .. Len(s) /\ Len(s) \in Nat
    BY ListFacts
  <2> QED BY <1>1, <1>6, <1>10, <2>1
<1> QED BY <1>5, <1>7, <1>8, <1>9, <1>10

(* A list made of two.                                                     *)
Joined(s, t, w) == w = s \o t

LEMMA JoinedFacts ==
  ASSUME NEW s, NEW t, IsList(s), IsList(t), NEW w, Joined(s, t, w)
  PROVE  /\ IsList(w) /\ Len(w) = Len(s) + Len(t)
         /\ Len(s) \in Nat /\ Len(t) \in Nat /\ Len(w) \in Nat
         /\ DOMAIN s = 1 .. Len(s) /\ DOMAIN t = 1 .. Len(t) /\ DOMAIN w = 1 .. Len(w)
         /\ \A k \in DOMAIN s : k \in DOMAIN w /\ w[k] = s[k]
         /\ \A k \in DOMAIN t : Len(s) + k \in DOMAIN w /\ w[Len(s) + k] = t[k]
         /\ \A k \in DOMAIN w : k \in DOMAIN s \/ \E i \in DOMAIN t : k = Len(s) + i
<1>1. /\ IsList(s \o t) /\ Len(s \o t) = Len(s) + Len(t)
      /\ \A k \in 1 .. Len(s) : (s \o t)[k] = s[k]
      /\ \A k \in 1 .. Len(t) : (s \o t)[Len(s) + k] = t[k]
  BY ListConcat
<1>2. w = s \o t
  BY DEF Joined
<1>3. /\ IsList(w) /\ Len(w) = Len(s) + Len(t)
      /\ \A k \in 1 .. Len(s) : w[k] = s[k]
      /\ \A k \in 1 .. Len(t) : w[Len(s) + k] = t[k]
  BY <1>1, <1>2
<1>4. /\ Len(s) \in Nat /\ Len(t) \in Nat /\ Len(w) \in Nat
      /\ DOMAIN s = 1 .. Len(s) /\ DOMAIN t = 1 .. Len(t) /\ DOMAIN w = 1 .. Len(w)
  BY <1>3, ListFacts
<1>5. \A k \in DOMAIN w : k \in DOMAIN s \/ \E i \in DOMAIN t : k = Len(s) + i
  <2> TAKE k \in DOMAIN w
  <2>1. k \in 1 .. Len(s) + Len(t)
    BY <1>3, <1>4
  <2>2. k \in 1 .. Len(s) \/ \E i \in 1 .. Len(t) : k = Len(s) + i
    BY <1>4, <2>1, PlaceInConcat
  <2> QED BY <1>4, <2>2
<1> QED BY <1>3, <1>4, <1>5

-----------------------------------------------------------------------------
(* Tables.                                                                 *)

Keys(s) == {s[k][1] : k \in DOMAIN s}

LEMMA BindAllDomain ==
  ASSUME NEW t, NEW s
  PROVE  DOMAIN BindAll(t, s) = DOMAIN t \cup Keys(s)
  BY DEF BindAll, Keys

LEMMA BindAllOther ==
  ASSUME NEW t, NEW s, NEW h \in DOMAIN t, h \notin Keys(s)
  PROVE  BindAll(t, s)[h] = t[h]
  BY DEF BindAll, Keys

LEMMA BindAllLast ==
  ASSUME NEW t, NEW s, IsList(s), NEW k \in DOMAIN s, NEW h, s[k][1] = h,
         \A j \in DOMAIN s : j > k => s[j][1] # h
  PROVE  BindAll(t, s)[h] = s[k][2]
<1> DEFINE at == {i \in DOMAIN s : s[i][1] = h}
           c == CHOOSE i \in at : \A j \in at : j <= i
<1>1. DOMAIN s \subseteq Nat
  BY ListFacts
<1>2. k \in at /\ \A j \in at : j <= k
  BY <1>1
<1>3. c \in at /\ \A j \in at : j <= c
  BY <1>2
<1>4. c = k
  BY <1>1, <1>2, <1>3
<1>5. BindAll(t, s)[h] = IF at = {} THEN t[h] ELSE s[c][2]
  BY DEF BindAll
<1> QED BY <1>2, <1>4, <1>5

LEMMA BindFacts ==
  ASSUME NEW t, NEW k, NEW v
  PROVE  /\ DOMAIN Bind(t, k, v) = DOMAIN t \cup {k}
         /\ Bind(t, k, v)[k] = v
         /\ \A h \in DOMAIN t : h # k => Bind(t, k, v)[h] = t[h]
  BY DEF Bind

LEMMA KeysConcat ==
  ASSUME NEW s, NEW t, IsList(s), IsList(t)
  PROVE  Keys(s \o t) = Keys(s) \cup Keys(t)
<1>1. /\ IsList(s \o t) /\ Len(s \o t) = Len(s) + Len(t)
      /\ \A k \in 1 .. Len(s) : (s \o t)[k] = s[k]
      /\ \A k \in 1 .. Len(t) : (s \o t)[Len(s) + k] = t[k]
  BY ListConcat
<1>2. /\ Len(s) \in Nat /\ DOMAIN s = 1 .. Len(s) /\ Len(t) \in Nat /\ DOMAIN t = 1 .. Len(t)
      /\ DOMAIN (s \o t) = 1 .. Len(s) + Len(t)
  BY <1>1, ListFacts
<1>3. ASSUME NEW k \in DOMAIN (s \o t) PROVE (s \o t)[k][1] \in Keys(s) \cup Keys(t)
  <2>0. k \in 1 .. Len(s) + Len(t)
    BY <1>1, <1>2
  <2>1. k \in 1 .. Len(s) \/ \E j \in 1 .. Len(t) : k = Len(s) + j
    BY <1>2, <2>0, PlaceInConcat
  <2> QED BY <1>1, <1>2, <2>1 DEF Keys
<1>4. ASSUME NEW k \in DOMAIN s PROVE s[k][1] \in Keys(s \o t)
  <2>1. k \in DOMAIN (s \o t) /\ (s \o t)[k] = s[k]
    BY <1>1, <1>2
  <2> QED BY <2>1 DEF Keys
<1>5. ASSUME NEW k \in DOMAIN t PROVE t[k][1] \in Keys(s \o t)
  <2>1. Len(s) + k \in DOMAIN (s \o t) /\ (s \o t)[Len(s) + k] = t[k]
    BY <1>1, <1>2
  <2> QED BY <2>1 DEF Keys
<1> QED BY <1>3, <1>4, <1>5 DEF Keys

(* A sequence of assignments, and then another.                            *)
LEMMA BindAllConcat ==
  ASSUME NEW t, NEW s, NEW u, IsList(s), IsList(u)
  PROVE  BindAll(t, s \o u) = BindAll(BindAll(t, s), u)
<1> DEFINE w == s \o u
<1>1. /\ IsList(w) /\ Len(w) = Len(s) + Len(u)
      /\ \A k \in 1 .. Len(s) : w[k] = s[k]
      /\ \A k \in 1 .. Len(u) : w[Len(s) + k] = u[k]
  BY ListConcat
<1>2. Keys(w) = Keys(s) \cup Keys(u)
  BY KeysConcat
<1> HIDE DEF w
<1>3. /\ Len(s) \in Nat /\ DOMAIN s = 1 .. Len(s) /\ Len(u) \in Nat /\ DOMAIN u = 1 .. Len(u)
      /\ DOMAIN w = 1 .. Len(s) + Len(u)
  BY <1>1, ListFacts
<1>4. DOMAIN BindAll(t, w) = DOMAIN BindAll(BindAll(t, s), u)
  BY <1>2, BindAllDomain
<1>5. ASSUME NEW h \in DOMAIN BindAll(t, w)
      PROVE  BindAll(t, w)[h] = BindAll(BindAll(t, s), u)[h]
  <2>1. CASE h \in Keys(u)
    <3>1. PICK k \in DOMAIN u : u[k][1] = h /\ \A j \in DOMAIN u : j > k => u[j][1] # h
      <4> DEFINE P == {i \in DOMAIN u : u[i][1] = h}
      <4>1. P \subseteq Nat /\ P # {} /\ \A x \in P : x <= Len(u)
        BY <1>3, <2>1 DEF Keys
      <4>2. \E x \in P : \A y \in P : x >= y
        BY <1>3, <4>1, HasGreatest
      <4> QED BY <1>3, <4>1, <4>2
    <3>2. BindAll(BindAll(t, s), u)[h] = u[k][2]
      BY <3>1, BindAllLast
    <3>3. Len(s) + k \in DOMAIN w /\ w[Len(s) + k] = u[k]
      BY <1>1, <1>3
    <3>4. \A j \in DOMAIN w : j > Len(s) + k => w[j][1] # h
      <4> TAKE j \in DOMAIN w
      <4> HAVE j > Len(s) + k
      <4>1. j - Len(s) \in DOMAIN u /\ j - Len(s) > k /\ Len(s) + (j - Len(s)) = j
        BY <1>3
      <4> QED BY <1>1, <1>3, <3>1, <4>1
    <3> PICK m : m = Len(s) + k
      OBVIOUS
    <3>5. m \in DOMAIN w /\ w[m] = u[k] /\ w[m][1] = h /\ \A j \in DOMAIN w : j > m => w[j][1] # h
      BY <3>1, <3>3, <3>4
    <3>6. BindAll(t, w)[h] = w[m][2]
      <4>1. IsList(w) /\ m \in DOMAIN w /\ w[m][1] = h /\ \A j \in DOMAIN w : j > m => w[j][1] # h
        BY <1>1, <3>5
      <4> QED BY <4>1, BindAllLast
    <3> QED BY <3>2, <3>5, <3>6
  <2>2. CASE h \notin Keys(u) /\ h \in Keys(s)
    <3>1. PICK k \in DOMAIN s : s[k][1] = h /\ \A j \in DOMAIN s : j > k => s[j][1] # h
      <4> DEFINE P == {i \in DOMAIN s : s[i][1] = h}
      <4>1. P \subseteq Nat /\ P # {} /\ \A x \in P : x <= Len(s)
        BY <1>3, <2>2 DEF Keys
      <4>2. \E x \in P : \A y \in P : x >= y
        BY <1>3, <4>1, HasGreatest
      <4> QED BY <1>3, <4>1, <4>2
    <3>2. BindAll(t, s)[h] = s[k][2]
      BY <3>1, BindAllLast
    <3> PICK b : b = BindAll(t, s)
      OBVIOUS
    <3>3. BindAll(BindAll(t, s), u)[h] = s[k][2]
      <4>1. h \in DOMAIN b
        BY <2>2, BindAllDomain
      <4>2. BindAll(b, u)[h] = b[h]
        BY <2>2, <4>1, BindAllOther
      <4> QED BY <3>2, <4>2
    <3>4. k \in DOMAIN w /\ w[k] = s[k]
      BY <1>1, <1>3
    <3>5. \A j \in DOMAIN w : j > k => w[j][1] # h
      <4> TAKE j \in DOMAIN w
      <4> HAVE j > k
      <4>0. j \in 1 .. Len(s) + Len(u)
        BY <1>3
      <4>1. j \in 1 .. Len(s) \/ \E i \in 1 .. Len(u) : j = Len(s) + i
        BY <1>3, <4>0, PlaceInConcat
      <4> QED BY <1>1, <1>3, <2>2, <3>1, <4>1 DEF Keys
    <3> QED BY <1>1, <3>1, <3>3, <3>4, <3>5, BindAllLast
  <2>3. CASE h \notin Keys(u) /\ h \notin Keys(s)
    <3> PICK b : b = BindAll(t, s)
      OBVIOUS
    <3>1. h \in DOMAIN t /\ h \in DOMAIN b /\ h \notin Keys(w)
      BY <1>2, <2>3, BindAllDomain
    <3>2. BindAll(t, w)[h] = t[h] /\ BindAll(t, s)[h] = t[h] /\ BindAll(b, u)[h] = b[h]
      BY <2>3, <3>1, BindAllOther
    <3> QED BY <3>2
  <2> QED BY <2>1, <2>2, <2>3
<1>6. BindAll(t, w) = [h \in DOMAIN BindAll(t, w) |-> BindAll(t, w)[h]]
      /\ BindAll(BindAll(t, s), u)
           = [h \in DOMAIN BindAll(BindAll(t, s), u) |-> BindAll(BindAll(t, s), u)[h]]
  BY DEF BindAll
<1> QED BY <1>4, <1>5, <1>6 DEF w

-----------------------------------------------------------------------------
(* The invariant.                                                          *)

ClassKey(l, n) == <<"class", <<l, n>>>>
Unbound(t, l, n) == ClassKey(l, n) \notin DOMAIN t

(* The loaders and files are those of one of the worlds; the loader graph  *)
(* grows.                                                                  *)
WorldInv ==
  /\ \E w \in Worlds : world.file = w.file /\ world.requests = w.requests /\ world.parent = w.parent
  /\ {"loader", "out", "file", "requests", "parent"} \subseteq DOMAIN world
  /\ world.loader \subseteq DOMAIN world.file

(* The class n is defined in the k-th file of the loader l.                *)
Defines(l, k, n) ==
  l \in DOMAIN world.file /\ k \in 1 .. Len(world.file[l]) /\ n \in DOMAIN world.file[l][k]

FindFrame(f) ==
  /\ f = [op |-> "find", kind |-> "class", dex |-> f.dex, jvm |-> <<f.jvm[1], f.jvm[2]>>,
          try |-> f.try, todo |-> f.todo, seen |-> f.seen, files |-> f.files]
  /\ f.dex # NoHdl => f.jvm = ClassJvm(f.dex)
  /\ IsList(f.files) /\ (f.files # <<>> => f.seen # {})
  /\ \A j \in DOMAIN f.files :
       f.files[j][1] \in DOMAIN world.file /\ f.files[j][2] \in 1 .. Len(world.file[f.files[j][1]])

LoadFrame(f) ==
  /\ f = [op |-> "load", hdl |-> <<f.hdl[1], f.hdl[2], f.hdl[3]>>, want |-> f.want, got |-> f.got]
  /\ Defines(f.hdl[1], f.hdl[2], f.hdl[3])
  /\ IsList(f.want) /\ \A j \in DOMAIN f.want : f.want[j] \in Wants(DefOf(f.hdl))
  /\ f.got \in Seq(1 .. Len(classes))
  /\ Len(f.got) + Len(f.want) = Len(DefOf(f.hdl).super) + Len(DefOf(f.hdl).interfaces)

MemberFrame(f) ==
  /\ f = [op |-> "member", kind |-> f.kind, dex |-> f.dex,
          jvm |-> <<f.jvm[1], f.jvm[2], f.jvm[3]>>, try |-> f.try, stage |-> f.stage,
          todo |-> f.todo, seen |-> f.seen]
  /\ f.kind \in {"method", "field"} /\ f.stage \in {"lookup", "load", "search"}
  /\ f.dex # NoHdl => f.jvm = JvmOf(f.dex)
  /\ f.stage = "search" => ~HasJvm(f)

AllFrame(f) ==
  f = [op |-> "all", loader |-> f.loader, want |-> f.want, begun |-> f.begun, ok |-> f.ok]

FrameInv(f) ==
  \/ f.op = "find" /\ FindFrame(f)
  \/ f.op = "load" /\ LoadFrame(f)
  \/ f.op = "member" /\ MemberFrame(f)
  \/ f.op = "all" /\ AllFrame(f)

(* The frame f was called by g.                                            *)
CalledBy(f, g) ==
  \/ f.op = "find" /\ g.op = "load" /\ g.want # <<>> /\ f.jvm[2] = Head(g.want)
  \/ f.op = "find" /\ g.op = "member" /\ g.stage = "load"
  \/ f.op = "find" /\ g.op = "all"
  \/ f.op = "load" /\ g.op = "find" /\ g.seen # {} /\ f.hdl[3] = g.jvm[2]

StackInv ==
  /\ IsList(stack)
  /\ \A k \in DOMAIN stack : FrameInv(stack[k])
  /\ \A k \in DOMAIN stack : k + 1 \in DOMAIN stack => CalledBy(stack[k], stack[k + 1])
  /\ \A k \in DOMAIN stack : stack[k].op = "load" => k + 1 \in DOMAIN stack

(* A class that is being looked for or loaded has no handle yet: not in    *)
(* the loader that was asked and not where its files are tried.            *)
OpenFrame(t, f) ==
  /\ f.op = "load" => Unbound(t, f.hdl[1], f.hdl[3])
  /\ f.op = "find" /\ f.seen # {} =>
       /\ Unbound(t, f.jvm[1], f.jvm[2])
       /\ \A j \in DOMAIN f.files : Unbound(t, f.files[j][1], f.jvm[2])

OpenInv ==
  \A k \in DOMAIN stack :
    OpenFrame(jvm, stack[k]) \/ (k = 1 /\ stack[k].op = "find" /\ returned /\ ret # 0)

(* What a call has returned: the handles of its caller are free, or are    *)
(* those of the class that was found.                                      *)
AnswerInv ==
  returned /\ stack # <<>> =>
    /\ Top.op \in {"find", "load"} /\ ret # 0 => ret \in 1 .. Len(classes)
    /\ Top.op = "find" => Top.seen # {}
    /\ Top.op = "find" /\ ret # 0 =>
         /\ HasJvm(Top) => jvm[<<"class", Top.jvm>>] = ret
         /\ HasDex(Top) /\ Top.dex # NoHdl => dex[<<"class", Top.dex>>] = ret
    /\ Top.op = "member" => Top.stage = "load"
    /\ Top.op = "load" => Top.want # <<>>

Tables == {"static", "instance", "dtable", "vtable"}

ClassInv ==
  /\ IsList(classes)
  /\ \A v \in 1 .. Len(classes) : \A tbl \in Tables : IsList(classes[v][tbl])
  /\ \A x \in DOMAIN jvm : x[1] = "class" => jvm[x] \in 1 .. Len(classes)
  /\ \A x \in DOMAIN dex : x[1] = "class" => /\ dex[x] \in 1 .. Len(classes)
                                             /\ <<"class", ClassJvm(x[2])>> \in DOMAIN jvm

-----------------------------------------------------------------------------
(* The classes that are being looked for have different names.             *)

NameOf(f) == IF f.op = "load" THEN f.hdl[3] ELSE f.jvm[2]

LEMMA NamesApart ==
  ASSUME WorldInv, StackInv, NEW a \in DOMAIN stack, NEW k \in DOMAIN stack, a < k,
         stack[a].op = "find", stack[k].op \in {"find", "load"}
  PROVE  NameOf(stack[k]) # stack[a].jvm[2]
<1> SUFFICES ASSUME NameOf(stack[k]) = stack[a].jvm[2] PROVE FALSE
  OBVIOUS
<1> DEFINE I == {i \in DOMAIN stack : a < i /\ i <= k /\ stack[i].op = "load"}
           S == {stack[i].hdl[3] : i \in I}
<1>1. PICK w \in Worlds : world.file = w.file
  BY DEF WorldInv
<1>2. DOMAIN stack = 1 .. Len(stack) /\ Len(stack) \in Nat
  BY ListFacts DEF StackInv
<1>3. ASSUME NEW i \in I
      PROVE  /\ stack[i].hdl[1] \in DOMAIN w.file
             /\ stack[i].hdl[2] \in 1 .. Len(w.file[stack[i].hdl[1]])
             /\ stack[i].hdl[3] \in DOMAIN w.file[stack[i].hdl[1]][stack[i].hdl[2]]
             /\ DefOf(stack[i].hdl) = w.file[stack[i].hdl[1]][stack[i].hdl[2]][stack[i].hdl[3]]
  <2>1. LoadFrame(stack[i])
    BY DEF StackInv, FrameInv
  <2> QED BY <1>1, <2>1 DEF LoadFrame, Defines, DefOf
<1>4. S \subseteq ClassNames(w)
  BY <1>3 DEF ClassNames
<1>5. NameOf(stack[k]) \in S
  <2>1. CASE stack[k].op = "load"
    <3>1. k \in I
      BY <1>2, <2>1
    <3> QED BY <2>1, <3>1 DEF NameOf
  <2>2. CASE stack[k].op = "find"
    <3>1. k - 1 \in DOMAIN stack /\ (k - 1) + 1 = k /\ a <= k - 1
      BY <1>2
    <3>2. CalledBy(stack[k - 1], stack[k])
      BY <3>1 DEF StackInv
    <3>3. stack[k - 1].op = "load" /\ stack[k - 1].hdl[3] = stack[k].jvm[2]
      BY <2>2, <3>2 DEF CalledBy
    <3>4. k - 1 \in I
      BY <1>2, <3>1, <3>3
    <3> QED BY <2>2, <3>3, <3>4 DEF NameOf
  <2> QED BY <2>1, <2>2
<1>6. ASSUME NEW i \in I PROVE Wants(DefOf(stack[i].hdl)) \cap S # {}
  <2>1. i - 1 \in DOMAIN stack /\ (i - 1) + 1 = i /\ a <= i - 1
    BY <1>2
  <2>2. CalledBy(stack[i - 1], stack[i])
    BY <2>1 DEF StackInv
  <2>3. /\ stack[i - 1].op = "find" /\ stack[i].want # <<>>
        /\ stack[i - 1].jvm[2] = Head(stack[i].want)
    BY <2>2 DEF CalledBy
  <2>4. Head(stack[i].want) \in Wants(DefOf(stack[i].hdl))
    <3>1. LoadFrame(stack[i])
      BY DEF StackInv, FrameInv
    <3>2. Head(stack[i].want) = stack[i].want[1] /\ 1 \in DOMAIN stack[i].want
      BY <2>3, <3>1, ListTail DEF LoadFrame
    <3> QED BY <3>1, <3>2 DEF LoadFrame
  <2>5. stack[i - 1].jvm[2] \in S
    <3>1. CASE i - 1 = a
      BY <1>5, <3>1
    <3>2. CASE i - 1 # a
      <4>1. i - 2 \in DOMAIN stack /\ (i - 2) + 1 = i - 1 /\ a <= i - 2
        BY <1>2, <2>1, <3>2
      <4>2. CalledBy(stack[i - 2], stack[i - 1])
        BY <2>1, <4>1 DEF StackInv
      <4>3. stack[i - 2].op = "load" /\ stack[i - 2].hdl[3] = stack[i - 1].jvm[2]
        BY <2>3, <4>2 DEF CalledBy
      <4>4. i - 2 \in I
        BY <1>2, <4>1, <4>3
      <4> QED BY <4>3, <4>4
    <3> QED BY <3>1, <3>2
  <2> QED BY <2>3, <2>4, <2>5
<1>7. PICK n \in S : \A l \in DOMAIN w.file : \A j \in 1 .. Len(w.file[l]) :
                       n \in DOMAIN w.file[l][j] => Wants(w.file[l][j][n]) \cap S = {}
  BY <1>1, <1>4, <1>5, CircleAssumption
<1>8. PICK i \in I : n = stack[i].hdl[3]
  OBVIOUS
<1> QED BY <1>3, <1>6, <1>7, <1>8

-----------------------------------------------------------------------------
(* What becomes of the calls in progress below the one that makes a step.  *)

LEMMA FrameStays ==
  ASSUME NEW f, FrameInv(f), world'.file = world.file,
         Len(classes) \in Nat, Len(classes') \in Nat, Len(classes) <= Len(classes'),
         f.op = "member" => f.stage # "search" \/ jvm' = jvm
  PROVE  FrameInv(f)'
<1>1. CASE f.op = "find" /\ FindFrame(f)
  <2>1. FindFrame(f)'
    BY <1>1 DEF FindFrame, ClassJvm
  <2> QED BY <1>1, <2>1 DEF FrameInv
<1>2. CASE f.op = "load" /\ LoadFrame(f)
  <2>1. f.got \in Seq(1 .. Len(classes'))
    <3>1. 1 .. Len(classes) \subseteq 1 .. Len(classes')
      OBVIOUS
    <3>2. f.got \in [1 .. Len(f.got) -> 1 .. Len(classes)] /\ Len(f.got) \in Nat
      BY <1>2, LenProperties DEF LoadFrame
    <3>3. f.got \in [1 .. Len(f.got) -> 1 .. Len(classes')]
      BY <3>1, <3>2
    <3> QED BY <3>2, <3>3, SeqDef
  <2>2. DefOf(f.hdl)' = DefOf(f.hdl)
    BY DEF DefOf
  <2>3. Defines(f.hdl[1], f.hdl[2], f.hdl[3])'
    BY <1>2 DEF LoadFrame, Defines
  <2>4. LoadFrame(f)'
    BY <1>2, <2>1, <2>2, <2>3 DEF LoadFrame
  <2> QED BY <1>2, <2>4 DEF FrameInv
<1>3. CASE f.op = "member" /\ MemberFrame(f)
  <2>1. MemberFrame(f)'
    BY <1>3 DEF MemberFrame, JvmOf, HasJvm
  <2> QED BY <1>3, <2>1 DEF FrameInv
<1>4. CASE f.op = "all" /\ AllFrame(f)
  BY <1>4 DEF FrameInv, AllFrame
<1> QED BY <1>1, <1>2, <1>3, <1>4 DEF FrameInv

(* A handle is added under one name only.                                  *)
LEMMA OpenStays ==
  ASSUME NEW t, NEW u, NEW f, NEW n, OpenFrame(t, f),
         \A l, m : ClassKey(l, m) \in DOMAIN u => ClassKey(l, m) \in DOMAIN t \/ m = n,
         f.op \in {"find", "load"} => NameOf(f) # n
  PROVE  OpenFrame(u, f)
  BY DEF OpenFrame, Unbound, NameOf

LEMMA OpenSame ==
  ASSUME NEW t, NEW u, NEW f, OpenFrame(t, f),
         \A l, m : ClassKey(l, m) \in DOMAIN u => ClassKey(l, m) \in DOMAIN t
  PROVE  OpenFrame(u, f)
  BY DEF OpenFrame, Unbound

LEMMA BelowWaits ==
  ASSUME StackInv, NEW k \in DOMAIN stack, k >= 2
  PROVE  /\ stack[k].op = "member" => stack[k].stage = "load"
         /\ stack[k].op = "find" => stack[k].seen # {}
         /\ k - 1 \in DOMAIN stack /\ CalledBy(stack[k - 1], stack[k])
<1>1. DOMAIN stack = 1 .. Len(stack) /\ Len(stack) \in Nat
  BY ListFacts DEF StackInv
<1>2. k - 1 \in DOMAIN stack /\ (k - 1) + 1 = k
  BY <1>1
<1>3. CalledBy(stack[k - 1], stack[k])
  BY <1>2 DEF StackInv
<1> QED BY <1>2, <1>3 DEF CalledBy

LEMMA ReturnStep ==
  ASSUME StackInv, stack # <<>>, stack' = Tail(stack), world'.file = world.file,
         Len(classes) \in Nat, Len(classes') \in Nat, Len(classes) <= Len(classes'),
         \A k \in DOMAIN stack : k >= 2 =>
           OpenFrame(jvm', stack[k]) \/ (k = 2 /\ stack[k].op = "find" /\ returned' /\ ret' # 0)
  PROVE  StackInv' /\ OpenInv'
<1> PICK s : s = stack
  OBVIOUS
<1> PICK t : t = stack'
  OBVIOUS
<1>1. IsList(s) /\ s # <<>> /\ t = Tail(s)
  BY DEF StackInv
<1>2. /\ IsList(t)
      /\ \A k \in DOMAIN t : k \in Nat /\ k >= 1 /\ k + 1 \in DOMAIN s /\ t[k] = s[k + 1]
  BY <1>1, StackReturn
<1>3. ASSUME NEW k \in DOMAIN t PROVE FrameInv(t[k])'
  <2> PICK f : f = t[k]
    OBVIOUS
  <2>1. FrameInv(f)
    BY <1>2 DEF StackInv
  <2>2. f.op = "member" => f.stage = "load"
    <3>1. k + 1 \in DOMAIN stack /\ k + 1 >= 2 /\ f = stack[k + 1]
      BY <1>2
    <3> QED BY <3>1, BelowWaits
  <2>3. FrameInv(f)'
    BY <2>1, <2>2, FrameStays
  <2> QED BY <2>3
<1>4. ASSUME NEW k \in DOMAIN t, k + 1 \in DOMAIN t PROVE CalledBy(t[k], t[k + 1])
  <2>1. /\ k + 1 \in DOMAIN s /\ (k + 1) + 1 \in DOMAIN s
        /\ t[k] = s[k + 1] /\ t[k + 1] = s[(k + 1) + 1]
    BY <1>2, <1>4
  <2> QED BY <2>1 DEF StackInv
<1>5. ASSUME NEW k \in DOMAIN t, t[k].op = "load" PROVE k + 1 \in DOMAIN t
  <2>1. k + 1 \in DOMAIN s /\ (k + 1) + 1 \in DOMAIN s /\ k \in Nat /\ k >= 1
    BY <1>2, <1>5 DEF StackInv
  <2>2. /\ Len(s) \in Nat /\ DOMAIN s = 1 .. Len(s) /\ Len(t) = Len(s) - 1 /\ DOMAIN t = 1 .. Len(t)
    BY <1>1, <1>2, ListFacts, ListTail
  <2> QED BY <2>1, <2>2
<1>6. StackInv'
  BY <1>2, <1>3, <1>4, <1>5 DEF StackInv
<1>7. ASSUME NEW k \in DOMAIN t
      PROVE  OpenFrame(jvm', t[k]) \/ (k = 1 /\ t[k].op = "find" /\ returned' /\ ret' # 0)
  <2>1. k + 1 \in DOMAIN stack /\ k + 1 >= 2 /\ t[k] = stack[k + 1] /\ (k + 1 = 2 => k = 1)
    BY <1>2
  <2> QED BY <2>1
<1> QED BY <1>6, <1>7 DEF OpenInv

(* A step that binds nothing.                                              *)
Quiet == world' = world /\ classes' = classes /\ jvm' = jvm

LEMMA QuietReturn ==
  ASSUME StackInv, OpenInv, ClassInv, stack # <<>>, stack' = Tail(stack), Quiet
  PROVE  StackInv' /\ OpenInv'
<1>1. Len(classes) \in Nat
  BY ListFacts DEF ClassInv
<1>2. \A k \in DOMAIN stack : k >= 2 => OpenFrame(jvm, stack[k])
  BY DEF OpenInv
<1>3. world'.file = world.file /\ Len(classes') = Len(classes) /\ jvm' = jvm
  BY DEF Quiet
<1>4. \A k \in DOMAIN stack : k >= 2 => OpenFrame(jvm', stack[k])
  BY <1>2, <1>3
<1> QED BY <1>1, <1>3, <1>4, ReturnStep

LEMMA QuietFrame ==
  ASSUME NEW f, FrameInv(f), ClassInv, Quiet
  PROVE  FrameInv(f)'
<1>1. Len(classes) \in Nat
  BY ListFacts DEF ClassInv
<1> QED BY <1>1, FrameStays DEF Quiet

(* The same call goes on.                                                  *)
SameCall(g, f) ==
  g.op = f.op /\ (g.op = "find" => g.jvm = f.jvm) /\ (g.op = "load" => g.hdl = f.hdl)

LEMMA QuietBecome ==
  ASSUME StackInv, OpenInv, ClassInv, stack # <<>>, Quiet, NEW g, Become(g), SameCall(g, Top),
         FrameInv(g), OpenFrame(jvm, g)
  PROVE  StackInv' /\ OpenInv'
<1> PICK s : s = stack
  OBVIOUS
<1> PICK t : t = stack'
  OBVIOUS
<1>1. IsList(s) /\ s # <<>> /\ Becoming(s, g, t)
  BY DEF StackInv, Become, Becoming
<1>2. /\ IsList(t) /\ t # <<>> /\ Head(t) = g /\ t[1] = g
      /\ 1 \in DOMAIN s /\ DOMAIN t = DOMAIN s
      /\ \A k \in DOMAIN s : k \in Nat /\ k >= 1 /\ (k # 1 => t[k] = s[k])
  BY <1>1, StackBecome
<1>3. Head(s) = s[1]
  BY <1>1, ListTail
<1>4. ASSUME NEW k \in DOMAIN t PROVE FrameInv(t[k])'
  <2> PICK f : f = t[k]
    OBVIOUS
  <2>1. FrameInv(f)
    BY <1>2 DEF StackInv
  <2>2. FrameInv(f)'
    BY <2>1, QuietFrame
  <2> QED BY <2>2
<1>5. ASSUME NEW k \in DOMAIN t, k + 1 \in DOMAIN t PROVE CalledBy(t[k], t[k + 1])
  <2>1. k \in DOMAIN s /\ k + 1 \in DOMAIN s /\ k + 1 # 1 /\ t[k + 1] = s[k + 1]
    BY <1>2, <1>5
  <2>2. CalledBy(s[k], s[k + 1])
    BY <2>1 DEF StackInv
  <2>3. CASE k # 1
    BY <1>2, <2>1, <2>2, <2>3
  <2>4. CASE k = 1
    <3>1. CalledBy(s[1], s[k + 1]) /\ SameCall(g, s[1])
      BY <1>3, <2>2, <2>4 DEF Top
    <3>2. CalledBy(g, s[k + 1])
      BY <3>1 DEF CalledBy, SameCall
    <3> QED BY <1>2, <2>1, <2>4, <3>2
  <2> QED BY <2>3, <2>4
<1>6. ASSUME NEW k \in DOMAIN t, t[k].op = "load" PROVE k + 1 \in DOMAIN t
  <2>1. s[k].op = "load"
    BY <1>2, <1>3, <1>6 DEF SameCall, Top
  <2> QED BY <1>2, <2>1 DEF StackInv
<1>7. StackInv'
  BY <1>2, <1>4, <1>5, <1>6 DEF StackInv
<1>8. ASSUME NEW k \in DOMAIN t PROVE OpenFrame(jvm, t[k])
  BY <1>2 DEF OpenInv
<1>9. jvm' = jvm
  BY DEF Quiet
<1> QED BY <1>7, <1>8, <1>9 DEF OpenInv

LEMMA QuietCall ==
  ASSUME StackInv, OpenInv, ClassInv, stack # <<>>, Quiet, NEW f, NEW g, Call(f, g),
         SameCall(g, Top), CalledBy(f, g),
         FrameInv(f), FrameInv(g), OpenFrame(jvm, f), OpenFrame(jvm, g)
  PROVE  StackInv' /\ OpenInv'
<1> PICK s : s = stack
  OBVIOUS
<1> PICK t : t = stack'
  OBVIOUS
<1>1. IsList(s) /\ s # <<>> /\ Calling(s, f, g, t)
  BY DEF StackInv, Call, Calling
<1>2. /\ IsList(t) /\ t # <<>> /\ Head(t) = f /\ t[1] = f /\ t[2] = g
      /\ 1 \in DOMAIN t /\ 2 \in DOMAIN t
      /\ \A k \in DOMAIN t : k = 1 \/ k = 2 \/
           (k - 1 \in DOMAIN s /\ k \in Nat /\ k >= 3 /\ t[k] = s[k - 1])
      /\ \A k \in DOMAIN s : k # 1 => k + 1 \in DOMAIN t
  BY <1>1, StackCall
<1>3. Head(s) = s[1] /\ 1 \in DOMAIN s
  BY <1>1, ListTail
<1>4. ASSUME NEW k \in DOMAIN t PROVE FrameInv(t[k])'
  <2> PICK h : h = t[k]
    OBVIOUS
  <2>1. FrameInv(h)
    BY <1>2 DEF StackInv
  <2>2. FrameInv(h)'
    BY <2>1, QuietFrame
  <2> QED BY <2>2
<1>5. ASSUME NEW k \in DOMAIN t, k + 1 \in DOMAIN t PROVE CalledBy(t[k], t[k + 1])
  <2>1. CASE k = 1
    BY <1>2, <2>1
  <2>2. CASE k = 2
    <3>1. 3 \in DOMAIN t /\ 3 - 1 = 2 /\ 1 + 1 = 2
      BY <1>5, <2>2
    <3>2. 2 \in DOMAIN s /\ t[3] = s[2]
      BY <1>2, <3>1
    <3>3. CalledBy(s[1], s[2]) /\ SameCall(g, s[1])
      BY <1>3, <3>1, <3>2 DEF StackInv, Top
    <3>4. CalledBy(g, s[2])
      BY <3>3 DEF CalledBy, SameCall
    <3> QED BY <1>2, <2>2, <3>2, <3>4
  <2>3. CASE k # 1 /\ k # 2
    <3>1. k - 1 \in DOMAIN s /\ k \in Nat /\ k >= 3 /\ t[k] = s[k - 1]
      BY <1>2, <2>3
    <3>2. (k + 1) - 1 \in DOMAIN s /\ t[k + 1] = s[(k + 1) - 1] /\ (k - 1) + 1 = (k + 1) - 1
      BY <1>2, <1>5, <3>1
    <3>3. CalledBy(s[k - 1], s[(k - 1) + 1])
      BY <3>1, <3>2 DEF StackInv
    <3> QED BY <3>1, <3>2, <3>3
  <2> QED BY <2>1, <2>2, <2>3
<1>6. ASSUME NEW k \in DOMAIN t, t[k].op = "load" PROVE k + 1 \in DOMAIN t
  <2>1. CASE k = 1
    BY <1>2, <2>1
  <2>2. CASE k = 2
    <3>1. s[1].op = "load" /\ 1 + 1 = 2 /\ 2 # 1
      BY <1>2, <1>3, <1>6, <2>2 DEF SameCall, Top
    <3>2. 2 \in DOMAIN s
      BY <1>3, <3>1 DEF StackInv
    <3> QED BY <1>2, <2>2, <3>1, <3>2
  <2>3. CASE k # 1 /\ k # 2
    <3>1. k - 1 \in DOMAIN s /\ k \in Nat /\ k >= 3 /\ t[k] = s[k - 1]
      BY <1>2, <2>3
    <3>2. (k - 1) + 1 \in DOMAIN s /\ (k - 1) + 1 # 1 /\ ((k - 1) + 1) + 1 = k + 1
      BY <1>6, <3>1 DEF StackInv
    <3> QED BY <1>2, <3>2
  <2> QED BY <2>1, <2>2, <2>3
<1>7. StackInv'
  BY <1>2, <1>4, <1>5, <1>6 DEF StackInv
<1>8. ASSUME NEW k \in DOMAIN t PROVE OpenFrame(jvm, t[k])
  <2>1. CASE k = 1 \/ k = 2
    BY <1>2, <2>1
  <2>2. CASE k # 1 /\ k # 2
    <3>1. k - 1 \in DOMAIN s /\ k - 1 # 1 /\ t[k] = s[k - 1]
      BY <1>2, <2>2
    <3> QED BY <3>1 DEF OpenInv
  <2> QED BY <2>1, <2>2
<1>9. jvm' = jvm
  BY DEF Quiet
<1> QED BY <1>7, <1>8, <1>9 DEF OpenInv

-----------------------------------------------------------------------------
(* What a step leaves alone.                                               *)

IInv == WorldInv /\ StackInv /\ OpenInv /\ AnswerInv /\ ClassInv

Kept(t, u) == \A h \in DOMAIN t : h[1] = "class" => h \in DOMAIN u /\ u[h] = t[h]

NothingMoves ==
  /\ Kept(jvm, jvm') /\ Kept(dex, dex')
  /\ \A v \in 1 .. Len(classes) : v <= Len(classes') /\ classes'[v] = classes[v]

LEMMA NothingBound ==
  ASSUME ClassInv, WorldInv, UNCHANGED <<world, graphs, tables>>
  PROVE  ClassInv' /\ WorldInv' /\ NothingMoves /\ Quiet
<1>1. world' = world /\ classes' = classes /\ jvm' = jvm /\ dex' = dex
  BY DEF graphs, tables
<1>2. ClassInv'
  BY <1>1 DEF ClassInv
<1>3. WorldInv'
  BY <1>1 DEF WorldInv
<1>4. Len(classes) \in Nat
  BY ListFacts DEF ClassInv
<1>5. NothingMoves
  BY <1>1, <1>4 DEF NothingMoves, Kept
<1> QED BY <1>1, <1>2, <1>3, <1>5 DEF Quiet

(* A handle is bound to the vertex that it is bound to, or for the first   *)
(* time; the handle of the DEX file after that of the loader.              *)
Binds(f, v) ==
  /\ \/ jvm' = Bind(jvm, <<f.kind, f.jvm>>, v)
     \/ jvm' = jvm /\ HasJvm(f)
  /\ dex' = DexBound(f, v) \/ dex' = dex

LEMMA BoundKeeps ==
  ASSUME ClassInv, WorldInv, UNCHANGED <<world, graphs>>, NEW f, NEW v, Binds(f, v),
         f.kind = "class" =>
           /\ v \in 1 .. Len(classes)
           /\ f.dex # NoHdl => f.jvm = ClassJvm(f.dex)
           /\ HasJvm(f) => jvm[<<"class", f.jvm>>] = v
           /\ HasDex(f) /\ f.dex # NoHdl => dex[<<"class", f.dex>>] = v
  PROVE  /\ ClassInv' /\ WorldInv' /\ NothingMoves
         /\ \A l, m : ClassKey(l, m) \in DOMAIN jvm' =>
              ClassKey(l, m) \in DOMAIN jvm \/ (f.kind = "class" /\ f.jvm = <<l, m>>)
<1> DEFINE j == <<f.kind, f.jvm>>
           d == <<f.kind, f.dex>>
<1>1. world' = world /\ classes' = classes
  BY DEF graphs
<1>2. /\ DOMAIN jvm' = DOMAIN jvm \cup {j}
      /\ \A h \in DOMAIN jvm : h # j => jvm'[h] = jvm[h]
      /\ jvm'[j] = v \/ jvm'[j] = jvm[j]
  <2>1. CASE jvm' = Bind(jvm, j, v)
    <3> HIDE DEF j
    <3> QED BY <2>1 DEF Bind
  <2>2. CASE jvm' = jvm /\ HasJvm(f)
    BY <2>2 DEF HasJvm
  <2> QED BY <2>1, <2>2 DEF Binds
<1>3. \/ dex' = dex
      \/ /\ f.dex # NoHdl /\ DOMAIN dex' = DOMAIN dex \cup {d} /\ dex'[d] = v
         /\ \A h \in DOMAIN dex : h # d => dex'[h] = dex[h]
  <2>1. dex' = dex \/ (f.dex # NoHdl /\ dex' = Bind(dex, d, v))
    BY DEF Binds, DexBound
  <2> HIDE DEF d
  <2> QED BY <2>1 DEF Bind
<1>4. /\ j[1] = f.kind /\ d[1] = f.kind /\ d[2] = f.dex
      /\ f.kind = "class" => j = <<"class", f.jvm>> /\ d = <<"class", f.dex>>
      /\ j \in DOMAIN jvm <=> HasJvm(f)
      /\ d \in DOMAIN dex <=> HasDex(f)
  BY DEF HasJvm, HasDex
<1> HIDE DEF j, d
<1>5. Kept(jvm, jvm')
  <2> SUFFICES ASSUME NEW h \in DOMAIN jvm, h[1] = "class"
               PROVE  h \in DOMAIN jvm' /\ jvm'[h] = jvm[h]
    BY DEF Kept
  <2>1. CASE h # j
    BY <1>2, <2>1
  <2>2. CASE h = j
    BY <1>2, <1>4, <2>2
  <2> QED BY <2>1, <2>2
<1>6. Kept(dex, dex')
  <2> SUFFICES ASSUME NEW h \in DOMAIN dex, h[1] = "class"
               PROVE  h \in DOMAIN dex' /\ dex'[h] = dex[h]
    BY DEF Kept
  <2>1. CASE h # d
    BY <1>3, <2>1
  <2>2. CASE h = d
    BY <1>3, <1>4, <2>2
  <2> QED BY <2>1, <2>2
<1>7. Len(classes) \in Nat
  BY ListFacts DEF ClassInv
<1>8. NothingMoves
  BY <1>1, <1>5, <1>6, <1>7 DEF NothingMoves
<1>9. \A x \in DOMAIN jvm' : x[1] = "class" => jvm'[x] \in 1 .. Len(classes)
  <2> TAKE x \in DOMAIN jvm'
  <2> HAVE x[1] = "class"
  <2>1. CASE x \in DOMAIN jvm
    BY <1>5, <2>1 DEF Kept, ClassInv
  <2>2. CASE x \notin DOMAIN jvm
    <3>1. x = j /\ ~HasJvm(f) /\ f.kind = "class"
      BY <1>2, <1>4, <2>2
    <3>2. jvm'[j] = v
      <4>1. jvm' = Bind(jvm, j, v)
        BY <3>1 DEF Binds, j
      <4> QED BY <4>1 DEF Bind
    <3> QED BY <3>1, <3>2
  <2> QED BY <2>1, <2>2
<1>10. ASSUME NEW x \in DOMAIN dex', x[1] = "class"
       PROVE  dex'[x] \in 1 .. Len(classes) /\ <<"class", ClassJvm(x[2])>> \in DOMAIN jvm'
  <2>1. CASE x \in DOMAIN dex
    <3>1. dex'[x] = dex[x]
      BY <1>6, <1>10, <2>1 DEF Kept
    <3> QED BY <1>2, <1>10, <2>1, <3>1 DEF ClassInv
  <2>2. CASE x \notin DOMAIN dex
    <3>1. x = d /\ f.dex # NoHdl /\ dex'[d] = v /\ f.kind = "class"
      BY <1>3, <1>4, <1>10, <2>2
    <3>2. ClassJvm(x[2]) = f.jvm
      BY <1>4, <3>1
    <3> QED BY <1>2, <1>4, <3>1, <3>2
  <2> QED BY <2>1, <2>2
<1>11. ClassInv'
  BY <1>1, <1>9, <1>10 DEF ClassInv
<1>12. WorldInv'
  BY <1>1 DEF WorldInv
<1>13. ASSUME NEW l, NEW m, ClassKey(l, m) \in DOMAIN jvm', ClassKey(l, m) \notin DOMAIN jvm
       PROVE  f.kind = "class" /\ f.jvm = <<l, m>>
  <2>1. ClassKey(l, m) = j
    BY <1>2, <1>13
  <2> QED BY <2>1 DEF ClassKey, j
<1> QED BY <1>8, <1>11, <1>12, <1>13

(* What the caller of the frame on top sees.                               *)
LEMMA AnswerAfterReturn ==
  ASSUME StackInv, stack # <<>>, stack' = Tail(stack),
         Top.op = "find" => ret' = 0 \/ ret' \in 1 .. Len(classes'),
         Top.op = "load" => ret' = 0
  PROVE  AnswerInv'
<1> SUFFICES ASSUME stack' # <<>> PROVE AnswerInv'
  BY DEF AnswerInv
<1> PICK s : s = stack
  OBVIOUS
<1> PICK t : t = stack'
  OBVIOUS
<1>1. IsList(s) /\ s # <<>> /\ t = Tail(s)
  BY DEF StackInv
<1>2. 2 \in DOMAIN s /\ Head(t) = s[2]
  BY <1>1, StackReturn
<1>3. Head(s) = s[1] /\ 1 \in DOMAIN s
  BY <1>1, ListTail
<1>4. CalledBy(s[1], s[2])
  <2>1. 1 + 1 = 2
    OBVIOUS
  <2> QED BY <1>2, <1>3, <2>1 DEF StackInv
<1>5. Top = s[1] /\ Top' = s[2]
  BY <1>2, <1>3 DEF Top
<1> PICK f : f = s[1]
  OBVIOUS
<1> PICK g : g = s[2]
  OBVIOUS
<1>6. CalledBy(f, g) /\ Top' = g /\ (f.op = "find" => ret' = 0 \/ ret' \in 1 .. Len(classes'))
      /\ (f.op = "load" => ret' = 0)
  BY <1>4, <1>5
<1>7. (g.op \in {"find", "load"} /\ ret' # 0 => ret' \in 1 .. Len(classes'))
      /\ (g.op = "find" => g.seen # {} /\ ret' = 0) /\ (g.op = "member" => g.stage = "load")
      /\ (g.op = "load" => g.want # <<>>)
  BY <1>6 DEF CalledBy
<1> QED BY <1>6, <1>7 DEF AnswerInv

-----------------------------------------------------------------------------
(* The steps that bind nothing.                                            *)

LEMMA SilentReturn ==
  ASSUME IInv, stack # <<>>, stack' = Tail(stack), UNCHANGED <<world, graphs, tables>>,
         Top.op \in {"find", "load"} => ret' = 0
  PROVE  IInv' /\ NothingMoves
<1>1. ClassInv' /\ WorldInv' /\ NothingMoves /\ Quiet
  BY NothingBound DEF IInv
<1>2. StackInv' /\ OpenInv'
  BY <1>1, QuietReturn DEF IInv
<1>3. AnswerInv'
  BY AnswerAfterReturn DEF IInv
<1> QED BY <1>1, <1>2, <1>3 DEF IInv

LEMMA SilentBecome ==
  ASSUME IInv, stack # <<>>, UNCHANGED <<world, graphs, tables>>,
         NEW g, Become(g), SameCall(g, Top), FrameInv(g), OpenFrame(jvm, g),
         ~returned' \/ g.op = "all"
  PROVE  IInv' /\ NothingMoves
<1>1. ClassInv' /\ WorldInv' /\ NothingMoves /\ Quiet
  BY NothingBound DEF IInv
<1>2. StackInv' /\ OpenInv'
  BY <1>1, QuietBecome DEF IInv
<1>3. Top' = g
  <2> PICK s : s = stack
    OBVIOUS
  <2> PICK t : t = stack'
    OBVIOUS
  <2>1. IsList(s) /\ s # <<>> /\ Becoming(s, g, t)
    BY DEF IInv, StackInv, Become, Becoming
  <2>2. Head(t) = g
    BY <2>1, StackBecome
  <2> QED BY <2>2 DEF Top
<1>4. AnswerInv'
  BY <1>3 DEF AnswerInv
<1> QED BY <1>1, <1>2, <1>4 DEF IInv

LEMMA SilentCall ==
  ASSUME IInv, stack # <<>>, UNCHANGED <<world, graphs, tables>>,
         NEW f, NEW g, Call(f, g), SameCall(g, Top), CalledBy(f, g),
         FrameInv(f), FrameInv(g), OpenFrame(jvm, f), OpenFrame(jvm, g), ~returned'
  PROVE  IInv' /\ NothingMoves
<1>1. ClassInv' /\ WorldInv' /\ NothingMoves /\ Quiet
  BY NothingBound DEF IInv
<1>2. StackInv' /\ OpenInv'
  BY <1>1, QuietCall DEF IInv
<1>3. AnswerInv'
  BY DEF AnswerInv
<1> QED BY <1>1, <1>2, <1>3 DEF IInv

-----------------------------------------------------------------------------
(* find_class.                                                             *)

LEMMA TopFacts ==
  ASSUME IInv, stack # <<>>
  PROVE  /\ 1 \in DOMAIN stack /\ Top = stack[1] /\ FrameInv(Top)
         /\ OpenFrame(jvm, Top) \/ (Top.op = "find" /\ returned /\ ret # 0)
<1>1. Head(stack) = stack[1] /\ 1 \in DOMAIN stack
  BY ListTail DEF IInv, StackInv
<1>2. FrameInv(stack[1])
  BY <1>1 DEF IInv, StackInv
<1>3. OpenFrame(jvm, stack[1]) \/ (stack[1].op = "find" /\ returned /\ ret # 0)
  BY <1>1 DEF IInv, OpenInv
<1> QED BY <1>1, <1>2, <1>3 DEF Top

(* The files of a walk.                                                    *)
FilesOf(p) ==
  /\ IsList(p)
  /\ \A j \in DOMAIN p : p[j][1] \in DOMAIN world.file /\ p[j][2] \in 1 .. Len(world.file[p[j][1]])

GoesOn(f, t, s, p, g) == g = [f EXCEPT !.todo = t, !.seen = s, !.files = p]

LEMMA FindGoesOn ==
  ASSUME NEW f, f.op = "find", FindFrame(f), NEW t, NEW s, NEW p, FilesOf(p), p # <<>> => s # {},
         NEW g, GoesOn(f, t, s, p, g)
  PROVE  FrameInv(g) /\ SameCall(g, f) /\ g.op = "find" /\ g.jvm = f.jvm /\ g.seen = s /\ g.files = p
<1>0. PICK x, j, k, y, t0, s0, p0 :
        /\ x = f.dex /\ j = f.jvm[1] /\ k = f.jvm[2] /\ y = f.try
        /\ t0 = f.todo /\ s0 = f.seen /\ p0 = f.files
  OBVIOUS
<1>1. /\ f = [op |-> "find", kind |-> "class", dex |-> x, jvm |-> <<j, k>>,
              try |-> y, todo |-> t0, seen |-> s0, files |-> p0]
      /\ f.dex # NoHdl => f.jvm = ClassJvm(f.dex)
  BY <1>0 DEF FindFrame
<1>2. g = [op |-> "find", kind |-> "class", dex |-> x, jvm |-> <<j, k>>,
           try |-> y, todo |-> t, seen |-> s, files |-> p]
  BY <1>1 DEF GoesOn
<1>3. /\ g.op = "find" /\ g.kind = "class" /\ g.dex = f.dex /\ g.jvm = f.jvm /\ g.try = f.try
      /\ g.todo = t /\ g.seen = s /\ g.files = p /\ x = f.dex /\ f.jvm = <<j, k>>
      /\ g.jvm[1] = j /\ g.jvm[2] = k
  BY <1>1, <1>2
<1>4. g = [op |-> "find", kind |-> "class", dex |-> g.dex, jvm |-> <<g.jvm[1], g.jvm[2]>>,
           try |-> g.try, todo |-> g.todo, seen |-> g.seen, files |-> g.files]
  BY <1>2
<1>5. FindFrame(g)
  BY <1>1, <1>3, <1>4 DEF FindFrame, FilesOf
<1> QED BY <1>3, <1>5 DEF FrameInv, SameCall

LEMMA FindTop ==
  ASSUME IInv, Runs("find"), NEW f, f = Top
  PROVE  /\ stack # <<>> /\ f.op = "find" /\ FindFrame(f) /\ FilesOf(f.files)
         /\ f.kind = "class" /\ f.jvm = <<f.jvm[1], f.jvm[2]>>
         /\ f.files # <<>> => f.seen # {}
         /\ OpenFrame(jvm, f) \/ (returned /\ ret # 0)
<1>1. stack # <<>> /\ f.op = "find"
  BY DEF Runs
<1>2. FrameInv(f) /\ (OpenFrame(jvm, f) \/ (returned /\ ret # 0))
  BY <1>1, TopFacts
<1>3. FindFrame(f)
  BY <1>1, <1>2 DEF FrameInv
<1>4. f.kind = "class" /\ f.jvm = <<f.jvm[1], f.jvm[2]>>
  BY <1>3 DEF FindFrame
<1>5. FilesOf(f.files) /\ (f.files # <<>> => f.seen # {})
  BY <1>3 DEF FindFrame, FilesOf
<1> QED BY <1>1, <1>2, <1>3, <1>4, <1>5

(* The files that remain.                                                  *)
LEMMA FilesTail ==
  ASSUME NEW f, OpenFrame(jvm, f), f.op = "find", f.seen # {}, FilesOf(f.files), f.files # <<>>,
         NEW p, p = Tail(f.files),
         NEW g, g.op = "find", g.jvm = f.jvm, g.seen = f.seen, g.files = p
  PROVE  /\ FilesOf(p) /\ OpenFrame(jvm, g)
         /\ Head(f.files)[1] \in DOMAIN world.file
         /\ Head(f.files)[2] \in 1 .. Len(world.file[Head(f.files)[1]])
         /\ Unbound(jvm, Head(f.files)[1], f.jvm[2])
<1>0. IsList(f.files)
  BY DEF FilesOf
<1>1. /\ IsList(p) /\ Head(f.files) = f.files[1] /\ 1 \in DOMAIN f.files
      /\ \A j \in DOMAIN p : j + 1 \in DOMAIN f.files /\ p[j] = f.files[j + 1]
  BY <1>0, ListTail
<1>2. FilesOf(p)
  BY <1>1 DEF FilesOf
<1>3. \A j \in DOMAIN p : \E i \in DOMAIN f.files : p[j] = f.files[i]
  BY <1>1
<1>4. OpenFrame(jvm, g)
  BY <1>3 DEF OpenFrame
<1> QED BY <1>1, <1>2, <1>4 DEF FilesOf, OpenFrame

LEMMA SkipLoaderStep ==
  ASSUME IInv, SkipLoader
  PROVE  IInv' /\ NothingMoves
<1>f. PICK f : f = Top
  OBVIOUS
<1>t. PICK t : t = Tail(f.todo)
  OBVIOUS
<1>g. PICK g : g = [f EXCEPT !.todo = t]
  OBVIOUS
<1>1. Runs("find") /\ ~returned /\ Become(g) /\ UNCHANGED <<world, graphs, tables, result>>
  BY <1>f, <1>t, <1>g DEF SkipLoader, Walking
<1>2. /\ stack # <<>> /\ f.op = "find" /\ FindFrame(f) /\ FilesOf(f.files)
      /\ (f.files # <<>> => f.seen # {}) /\ OpenFrame(jvm, f)
  BY <1>1, <1>f, FindTop
<1>3. GoesOn(f, t, f.seen, f.files, g)
  BY <1>2, <1>g DEF FindFrame, GoesOn
<1>4. FrameInv(g) /\ SameCall(g, f) /\ g.op = "find" /\ g.jvm = f.jvm /\ g.seen = f.seen /\ g.files = f.files
  BY <1>2, <1>3, FindGoesOn
<1>5. OpenFrame(jvm, g)
  BY <1>2, <1>4 DEF OpenFrame
<1>6. ~returned' /\ SameCall(g, Top)
  BY <1>1, <1>4, <1>f DEF result
<1> QED BY <1>1, <1>2, <1>4, <1>5, <1>6, SilentBecome

LEMMA SkipFileStep ==
  ASSUME IInv, SkipFile
  PROVE  IInv' /\ NothingMoves
<1>f. PICK f : f = Top
  OBVIOUS
<1>p. PICK p : p = Tail(f.files)
  OBVIOUS
<1>g. PICK g : g = [f EXCEPT !.files = p]
  OBVIOUS
<1>1. Runs("find") /\ ~returned /\ Become(g) /\ UNCHANGED <<world, graphs, tables, result>>
      /\ f.files # <<>>
  BY <1>f, <1>p, <1>g DEF SkipFile
<1>2. /\ stack # <<>> /\ f.op = "find" /\ FindFrame(f) /\ FilesOf(f.files)
      /\ f.seen # {} /\ OpenFrame(jvm, f)
  BY <1>1, <1>f, FindTop
<1>3. GoesOn(f, f.todo, f.seen, p, g)
  BY <1>2, <1>g DEF FindFrame, GoesOn
<1>4. FilesOf(p)
  <2>1. IsList(f.files)
    BY <1>2 DEF FilesOf
  <2>2. IsList(p) /\ \A j \in DOMAIN p : j + 1 \in DOMAIN f.files /\ p[j] = f.files[j + 1]
    BY <1>1, <1>p, <2>1, ListTail
  <2> QED BY <1>2, <2>2 DEF FilesOf
<1>5. FrameInv(g) /\ SameCall(g, f) /\ g.op = "find" /\ g.jvm = f.jvm /\ g.seen = f.seen /\ g.files = p
  BY <1>2, <1>3, <1>4, FindGoesOn
<1>6. OpenFrame(jvm, g)
  BY <1>1, <1>2, <1>5, <1>p, FilesTail
<1>7. ~returned' /\ SameCall(g, Top)
  BY <1>1, <1>5, <1>f DEF result
<1> QED BY <1>1, <1>2, <1>5, <1>6, <1>7, SilentBecome

LEMMA DiscoverStep ==
  ASSUME IInv, Discover
  PROVE  IInv' /\ NothingMoves
<1>f. PICK f : f = Top
  OBVIOUS
<1>l. PICK l : l = Head(f.todo)
  OBVIOUS
<1>n. PICK n : n = Len(world.file[l])
  OBVIOUS
<1>p. PICK p : p = IF f.try THEN [k \in 1 .. n |-> <<l, k>>] ELSE <<>>
  OBVIOUS
<1>t. PICK t : t = world.out[l] \o Tail(f.todo)
  OBVIOUS
<1>s. PICK s : s = f.seen \cup {l}
  OBVIOUS
<1>g. PICK g : g = [f EXCEPT !.todo = t, !.seen = s, !.files = p]
  OBVIOUS
<1>1. /\ Runs("find") /\ ~returned /\ UNCHANGED <<world, graphs, tables, result>>
      /\ f.files = <<>> /\ l \in world.loader /\ (Fresh(f) => ~Known(f)) /\ ~Lookup(l, f.jvm[2])
  BY <1>f, <1>l DEF Discover, Walking
<1>2. stack # <<>> /\ FindFrame(f) /\ OpenFrame(jvm, f) /\ f.op = "find"
      /\ f.kind = "class" /\ f.jvm = <<f.jvm[1], f.jvm[2]>>
  BY <1>1, <1>f, FindTop
<1>3. Become(g)
  BY <1>f, <1>l, <1>n, <1>p, <1>t, <1>s, <1>g DEF Discover
<1>4. l \in DOMAIN world.file /\ n \in Nat
  <2>1. PICK w \in Worlds : world.file = w.file
    BY DEF IInv, WorldInv
  <2>2. l \in DOMAIN w.file
    BY <1>1, <2>1 DEF IInv, WorldInv
  <2>3. IsList(w.file[l])
    BY <2>2, WorldsAssumption
  <2>4. Len(w.file[l]) \in Nat
    BY <2>3, ListFacts
  <2> QED BY <1>n, <2>1, <2>2, <2>4
<1>5. IsList(p) /\ \A j \in DOMAIN p : p[j][1] = l /\ p[j][2] \in 1 .. n
  <2>1. CASE p = [k \in 1 .. n |-> <<l, k>>]
    <3>1. p = [k \in 1 .. n |-> p[k]] /\ \A j \in DOMAIN p : p[j][1] = l /\ p[j][2] \in 1 .. n
      BY <2>1
    <3> QED BY <1>4, <3>1, ListMade
  <2>2. CASE p = <<>>
    <3>1. p = [k \in 1 .. 0 |-> p[k]] /\ DOMAIN p = {}
      BY <2>2
    <3> QED BY <3>1, ListMade
  <2> QED BY <1>p, <2>1, <2>2
<1>6. FilesOf(p) /\ s # {}
  BY <1>4, <1>5, <1>n, <1>s DEF FilesOf
<1>7. FrameInv(g) /\ SameCall(g, f) /\ g.op = "find" /\ g.jvm = f.jvm /\ g.seen = s /\ g.files = p
  <2>1. GoesOn(f, t, s, p, g)
    BY <1>g DEF GoesOn
  <2> QED BY <1>2, <1>6, <2>1, FindGoesOn
<1>8. Unbound(jvm, f.jvm[1], f.jvm[2])
  <2>1. CASE f.seen = {}
    BY <1>1, <1>2, <2>1 DEF Fresh, Known, HasJvm, Unbound, ClassKey
  <2>2. CASE f.seen # {}
    BY <1>2, <2>2 DEF OpenFrame
  <2> QED BY <2>1, <2>2
<1>9. OpenFrame(jvm, g)
  <2>1. Unbound(jvm, l, f.jvm[2])
    BY <1>1 DEF Lookup, Unbound, ClassKey
  <2> QED BY <1>5, <1>7, <1>8, <2>1 DEF OpenFrame
<1>10. ~returned' /\ SameCall(g, Top)
  BY <1>1, <1>7, <1>f DEF result
<1> QED BY <1>1, <1>2, <1>3, <1>7, <1>9, <1>10, SilentBecome

LEMMA DefinitionFacts ==
  ASSUME WorldInv, NEW h, Defines(h[1], h[2], h[3])
  PROVE  WellFormed(DefOf(h))
<1>1. PICK w \in Worlds : world.file = w.file
  BY DEF WorldInv
<1>2. h[1] \in DOMAIN w.file /\ h[2] \in 1 .. Len(w.file[h[1]]) /\ h[3] \in DOMAIN w.file[h[1]][h[2]]
  BY <1>1 DEF Defines
<1>3. WellFormed(w.file[h[1]][h[2]][h[3]])
  BY <1>2, WorldsAssumption
<1> QED BY <1>1, <1>3 DEF DefOf

LEMMA LoadFrameMade ==
  ASSUME IInv, NEW h, Defines(h[1], h[2], h[3]), h = <<h[1], h[2], h[3]>>
  PROVE  FrameInv(Load(h)) /\ Load(h).op = "load" /\ Load(h).hdl = h
<1>d. PICK d : d = DefOf(h)
  OBVIOUS
<1>w. PICK w : w = d.super \o d.interfaces
  OBVIOUS
<1>c. PICK c : c = Load(h)
  OBVIOUS
<1>1. c = [op |-> "load", hdl |-> h, want |-> w, got |-> <<>>]
  BY <1>c, <1>d, <1>w DEF Load
<1>2. c.op = "load" /\ c.hdl = h /\ c.want = w /\ c.got = <<>>
  BY <1>1
<1>3. IsList(d.super) /\ IsList(d.interfaces)
  <2>1. WellFormed(d)
    BY <1>d, DefinitionFacts DEF IInv
  <2> QED BY <2>1 DEF WellFormed
<1>4. Joined(d.super, d.interfaces, w)
  BY <1>w DEF Joined
<1>a. PICK a : a = d.super
  OBVIOUS
<1>b. PICK b : b = d.interfaces
  OBVIOUS
<1>5. /\ IsList(w) /\ Len(w) = Len(d.super) + Len(d.interfaces) /\ Len(w) \in Nat
      /\ \A k \in DOMAIN d.super : w[k] = d.super[k]
      /\ \A k \in DOMAIN d.interfaces : w[Len(d.super) + k] = d.interfaces[k]
      /\ \A k \in DOMAIN w : k \in DOMAIN d.super \/ \E i \in DOMAIN d.interfaces : k = Len(d.super) + i
  <2>1. IsList(a) /\ IsList(b) /\ Joined(a, b, w)
    BY <1>3, <1>4, <1>a, <1>b
  <2>2. /\ IsList(w) /\ Len(w) = Len(a) + Len(b) /\ Len(w) \in Nat
        /\ \A k \in DOMAIN a : w[k] = a[k]
        /\ \A k \in DOMAIN b : w[Len(a) + k] = b[k]
        /\ \A k \in DOMAIN w : k \in DOMAIN a \/ \E i \in DOMAIN b : k = Len(a) + i
    BY <2>1, JoinedFacts
  <2> QED BY <2>2, <1>a, <1>b
<1>6. \A j \in DOMAIN w : w[j] \in Wants(d)
  BY <1>5 DEF Wants
<1>7. c.got \in Seq(1 .. Len(classes)) /\ Len(c.got) = 0
  BY <1>2
<1>8. LoadFrame(c)
  <2>1. c = [op |-> "load", hdl |-> <<c.hdl[1], c.hdl[2], c.hdl[3]>>, want |-> c.want, got |-> c.got]
    BY <1>1, <1>2
  <2>2. Defines(c.hdl[1], c.hdl[2], c.hdl[3])
    BY <1>2
  <2>3. IsList(c.want) /\ \A j \in DOMAIN c.want : c.want[j] \in Wants(DefOf(c.hdl))
    BY <1>2, <1>5, <1>6, <1>d
  <2>4. Len(c.got) + Len(c.want) = Len(DefOf(c.hdl).super) + Len(DefOf(c.hdl).interfaces)
    BY <1>2, <1>5, <1>7, <1>d
  <2> QED BY <1>7, <2>1, <2>2, <2>3, <2>4 DEF LoadFrame
<1> QED BY <1>2, <1>8, <1>c DEF FrameInv

LEMMA LoadFromFileStep ==
  ASSUME IInv, LoadFromFile
  PROVE  IInv' /\ NothingMoves
<1>f. PICK f : f = Top
  OBVIOUS
<1>e. PICK e : e = Head(f.files)
  OBVIOUS
<1>p. PICK p : p = Tail(f.files)
  OBVIOUS
<1>g. PICK g : g = [f EXCEPT !.files = p]
  OBVIOUS
<1>h. PICK h : h = <<e[1], e[2], f.jvm[2]>>
  OBVIOUS
<1>c. PICK c : c = Load(h)
  OBVIOUS
<1>1. /\ Runs("find") /\ ~returned /\ UNCHANGED <<world, graphs, tables, result>>
      /\ f.files # <<>> /\ f.jvm[2] \in DOMAIN world.file[e[1]][e[2]]
  BY <1>f, <1>e DEF LoadFromFile
<1>2. Call(c, g)
  BY <1>f, <1>e, <1>p, <1>g, <1>h, <1>c DEF LoadFromFile
<1>3. /\ stack # <<>> /\ f.op = "find" /\ FindFrame(f) /\ FilesOf(f.files)
      /\ f.seen # {} /\ OpenFrame(jvm, f)
  BY <1>1, <1>f, FindTop
<1>4. GoesOn(f, f.todo, f.seen, p, g)
  BY <1>3, <1>g DEF FindFrame, GoesOn
<1>5. FilesOf(p)
  <2>1. IsList(f.files)
    BY <1>3 DEF FilesOf
  <2>2. IsList(p) /\ \A j \in DOMAIN p : j + 1 \in DOMAIN f.files /\ p[j] = f.files[j + 1]
    BY <1>1, <1>p, <2>1, ListTail
  <2> QED BY <1>3, <2>2 DEF FilesOf
<1>6. FrameInv(g) /\ SameCall(g, f) /\ g.op = "find" /\ g.jvm = f.jvm /\ g.seen = f.seen /\ g.files = p
  BY <1>3, <1>4, <1>5, FindGoesOn
<1>7. /\ OpenFrame(jvm, g) /\ e[1] \in DOMAIN world.file
      /\ e[2] \in 1 .. Len(world.file[e[1]]) /\ Unbound(jvm, e[1], f.jvm[2])
  BY <1>1, <1>3, <1>6, <1>e, <1>p, FilesTail
<1>8. Defines(h[1], h[2], h[3]) /\ h = <<h[1], h[2], h[3]>> /\ h[1] = e[1] /\ h[3] = f.jvm[2]
  BY <1>1, <1>7, <1>h DEF Defines
<1>9. FrameInv(c) /\ c.op = "load" /\ c.hdl = h
  BY <1>8, <1>c, LoadFrameMade
<1>10. OpenFrame(jvm, c)
  BY <1>7, <1>8, <1>9 DEF OpenFrame
<1>11. CalledBy(c, g)
  BY <1>3, <1>6, <1>8, <1>9 DEF CalledBy
<1>12. ~returned' /\ SameCall(g, Top)
  BY <1>1, <1>6, <1>f DEF result
<1> QED BY <1>1, <1>2, <1>3, <1>6, <1>7, <1>9, <1>10, <1>11, <1>12, SilentCall

(* A class was found: the callers wait for classes of other names.         *)
LEMMA FindBinds ==
  ASSUME IInv, Runs("find"), UNCHANGED <<world, graphs>>, NEW f, f = Top, NEW v, v \in 1 .. Len(classes),
         Binds(f, v), Return(v),
         HasJvm(f) => jvm[<<"class", f.jvm>>] = v,
         HasDex(f) /\ f.dex # NoHdl => dex[<<"class", f.dex>>] = v
  PROVE  IInv' /\ NothingMoves
<1>1. /\ stack # <<>> /\ f.op = "find" /\ FindFrame(f)
      /\ f.kind = "class" /\ f.jvm = <<f.jvm[1], f.jvm[2]>>
  BY FindTop
<1>2. /\ ClassInv' /\ WorldInv' /\ NothingMoves
      /\ \A l, m : ClassKey(l, m) \in DOMAIN jvm' =>
           ClassKey(l, m) \in DOMAIN jvm \/ (f.kind = "class" /\ f.jvm = <<l, m>>)
  <2>1. f.dex # NoHdl => f.jvm = ClassJvm(f.dex)
    BY <1>1 DEF FindFrame
  <2>2. ClassInv /\ WorldInv
    BY DEF IInv
  <2> QED BY <2>1, <2>2, BoundKeeps
<1>3. \A l, m : ClassKey(l, m) \in DOMAIN jvm' => ClassKey(l, m) \in DOMAIN jvm \/ m = f.jvm[2]
  BY <1>2
<1>4. 1 \in DOMAIN stack /\ f = stack[1]
  BY <1>1, TopFacts
<1>5. ASSUME NEW k \in DOMAIN stack, k >= 2 PROVE OpenFrame(jvm', stack[k])
  <2>g. PICK g : g = stack[k]
    OBVIOUS
  <2>1. OpenFrame(jvm, g)
    BY <1>5, <2>g DEF IInv, OpenInv
  <2>2. g.op \in {"find", "load"} => NameOf(g) # f.jvm[2]
    <3>1. 1 < k
      <4>1. k \in Nat
        BY ListFacts DEF IInv, StackInv
      <4> QED BY <1>5, <4>1
    <3> QED BY <1>1, <1>4, <2>g, <3>1, NamesApart DEF IInv
  <2>3. OpenFrame(jvm', g)
    <3>n. PICK n : n = f.jvm[2]
      OBVIOUS
    <3>1. /\ \A l, m : ClassKey(l, m) \in DOMAIN jvm' => ClassKey(l, m) \in DOMAIN jvm \/ m = n
          /\ g.op \in {"find", "load"} => NameOf(g) # n
      BY <1>3, <2>2, <3>n
    <3> QED BY <2>1, <3>1, OpenStays
  <2> QED BY <2>3, <2>g
<1>6. /\ stack' = Tail(stack) /\ ret' = v /\ world' = world /\ classes' = classes
  BY DEF Return, graphs
<1>7. Len(classes) \in Nat
  BY ListFacts DEF IInv, ClassInv
<1>8. StackInv' /\ OpenInv'
  BY <1>1, <1>5, <1>6, <1>7, ReturnStep DEF IInv
<1>9. AnswerInv'
  BY <1>1, <1>6, AnswerAfterReturn DEF IInv
<1> QED BY <1>2, <1>8, <1>9 DEF IInv

LEMMA AnswerBinds ==
  ASSUME NEW f, Known(f), Answer(f)
  PROVE  \E v : /\ Return(v)
                /\ \/ HasDex(f) /\ v = dex[<<f.kind, f.dex>>] /\ UNCHANGED tables
                   \/ ~HasDex(f) /\ HasJvm(f) /\ v = jvm[<<f.kind, f.jvm>>] /\ Binds(f, v)
<1>1. CASE HasDex(f)
  <2>v. PICK v : v = dex[<<f.kind, f.dex>>]
    OBVIOUS
  <2>1. Return(v) /\ UNCHANGED tables
    BY <1>1, <2>v DEF Answer
  <2> QED BY <1>1, <2>1, <2>v
<1>2. CASE ~HasDex(f)
  <2>v. PICK v : v = jvm[<<f.kind, f.jvm>>]
    OBVIOUS
  <2>1. Return(v) /\ dex' = DexBound(f, v) /\ jvm' = jvm /\ HasJvm(f)
    BY <1>2, <2>v DEF Answer, Known
  <2> QED BY <1>2, <2>1, <2>v DEF Binds
<1> QED BY <1>1, <1>2

(* The DEX handle of a class is bound after the handle of the loader.      *)
LEMMA DexAfterJvm ==
  ASSUME ClassInv, NEW f, FindFrame(f), HasDex(f), f.dex # NoHdl
  PROVE  HasJvm(f)
<1>x. PICK x : x = <<"class", f.dex>>
  OBVIOUS
<1>1. f.kind = "class" /\ f.jvm = ClassJvm(f.dex)
  BY DEF FindFrame
<1>2. x \in DOMAIN dex /\ x[1] = "class" /\ x[2] = f.dex
  BY <1>1, <1>x DEF HasDex
<1>3. <<"class", ClassJvm(x[2])>> \in DOMAIN jvm
  BY <1>2 DEF ClassInv
<1> QED BY <1>1, <1>2, <1>3 DEF HasJvm

(* A walk goes on while the handles of the call are free.                  *)
LEMMA FindFree ==
  ASSUME IInv, Runs("find"), ~returned, NEW f, f = Top, Fresh(f) => ~Known(f)
  PROVE  ~HasJvm(f) /\ (f.dex # NoHdl => ~HasDex(f))
<1>1. /\ FindFrame(f) /\ OpenFrame(jvm, f) /\ f.op = "find"
      /\ f.kind = "class" /\ f.jvm = <<f.jvm[1], f.jvm[2]>>
  BY FindTop
<1>2. ~HasJvm(f)
  <2>1. CASE Fresh(f)
    BY <2>1 DEF Known
  <2>2. CASE ~Fresh(f)
    BY <1>1, <2>2 DEF Fresh, OpenFrame, Unbound, ClassKey, HasJvm
  <2> QED BY <2>1, <2>2
<1> QED BY <1>1, <1>2, DexAfterJvm DEF IInv

LEMMA FindKnownStep ==
  ASSUME IInv, FindKnown
  PROVE  IInv' /\ NothingMoves
<1>f. PICK f : f = Top
  OBVIOUS
<1>1. Runs("find") /\ Known(f) /\ Answer(f) /\ UNCHANGED <<world, graphs>>
  BY <1>f DEF FindKnown
<1>2. stack # <<>> /\ f.op = "find" /\ FindFrame(f) /\ f.kind = "class"
  BY <1>1, <1>f, FindTop
<1>3. PICK v : /\ Return(v)
               /\ \/ HasDex(f) /\ v = dex[<<f.kind, f.dex>>] /\ UNCHANGED tables
                  \/ ~HasDex(f) /\ HasJvm(f) /\ v = jvm[<<f.kind, f.jvm>>] /\ Binds(f, v)
  BY <1>1, AnswerBinds
<1>4. CASE HasDex(f) /\ v = dex[<<f.kind, f.dex>>] /\ UNCHANGED tables
  <2>1. Quiet
    BY <1>1, <1>4 DEF Quiet, graphs, tables
  <2>2. UNCHANGED <<world, graphs, tables>>
    BY <1>1, <1>4
  <2>3. ClassInv' /\ WorldInv' /\ NothingMoves
    BY <2>2, NothingBound DEF IInv
  <2>4. StackInv' /\ OpenInv'
    BY <1>2, <1>3, <2>1, QuietReturn DEF IInv, Return
  <2>5. ret' \in 1 .. Len(classes')
    <3>1. <<"class", f.dex>>[1] = "class" /\ <<"class", f.dex>> \in DOMAIN dex
      BY <1>2, <1>4 DEF HasDex
    <3>2. dex[<<"class", f.dex>>] \in 1 .. Len(classes)
      BY <3>1 DEF IInv, ClassInv
    <3> QED BY <1>2, <1>3, <1>4, <2>1, <3>2 DEF Return, Quiet
  <2>6. AnswerInv'
    BY <1>2, <1>3, <2>5, <1>f, AnswerAfterReturn DEF IInv, Return
  <2> QED BY <2>3, <2>4, <2>6 DEF IInv
<1>5. CASE ~HasDex(f) /\ HasJvm(f) /\ v = jvm[<<f.kind, f.jvm>>] /\ Binds(f, v)
  <2>1. <<"class", f.jvm>>[1] = "class" /\ <<"class", f.jvm>> \in DOMAIN jvm
    BY <1>2, <1>5 DEF HasJvm
  <2>2. v \in 1 .. Len(classes) /\ v = jvm[<<"class", f.jvm>>]
    BY <1>2, <1>5, <2>1 DEF IInv, ClassInv
  <2> QED BY <1>1, <1>3, <1>5, <2>2, <1>f, FindBinds
<1> QED BY <1>3, <1>4, <1>5

LEMMA FindThereStep ==
  ASSUME IInv, FindThere
  PROVE  IInv' /\ NothingMoves
<1>f. PICK f : f = Top
  OBVIOUS
<1>v. PICK v : v = jvm[<<"class", <<Head(f.todo), f.jvm[2]>>>>]
  OBVIOUS
<1>1. /\ Runs("find") /\ ~returned /\ (Fresh(f) => ~Known(f)) /\ Lookup(Head(f.todo), f.jvm[2])
      /\ Found(f, v) /\ UNCHANGED <<world, graphs>>
  BY <1>f, <1>v DEF FindThere, Walking
<1>2. Binds(f, v) /\ Return(v)
  BY <1>1 DEF Found, Binds
<1>3. v \in 1 .. Len(classes)
  <2>1. <<"class", <<Head(f.todo), f.jvm[2]>>>> \in DOMAIN jvm
    BY <1>1 DEF Lookup
  <2>2. <<"class", <<Head(f.todo), f.jvm[2]>>>>[1] = "class"
    OBVIOUS
  <2> QED BY <1>v, <2>1, <2>2 DEF IInv, ClassInv
<1>4. ~HasJvm(f) /\ (f.dex # NoHdl => ~HasDex(f))
  BY <1>1, <1>f, FindFree
<1> QED BY <1>1, <1>2, <1>3, <1>4, <1>f, FindBinds

LEMMA FindLoadedStep ==
  ASSUME IInv, FindLoaded
  PROVE  IInv' /\ NothingMoves
<1>f. PICK f : f = Top
  OBVIOUS
<1>v. PICK v : v = ret
  OBVIOUS
<1>1. Runs("find") /\ returned /\ ret # 0 /\ Found(f, v) /\ UNCHANGED <<world, graphs>>
  BY <1>f, <1>v DEF FindLoaded
<1>2. Binds(f, v) /\ Return(v)
  BY <1>1 DEF Found, Binds
<1>3. stack # <<>> /\ f.op = "find" /\ f.kind = "class"
  BY <1>1, <1>f, FindTop
<1>4. /\ v \in 1 .. Len(classes)
      /\ HasJvm(f) => jvm[<<"class", f.jvm>>] = v
      /\ HasDex(f) /\ f.dex # NoHdl => dex[<<"class", f.dex>>] = v
  BY <1>1, <1>3, <1>f, <1>v DEF IInv, AnswerInv
<1> QED BY <1>1, <1>2, <1>4, <1>f, FindBinds

LEMMA FindNextStep ==
  ASSUME IInv, FindNext
  PROVE  IInv' /\ NothingMoves
<1>1. /\ Runs("find") /\ returned /\ ret = 0 /\ ~returned' /\ stack' = stack
      /\ UNCHANGED <<world, graphs, tables>>
  BY DEF FindNext, Resume
<1>2. ClassInv' /\ WorldInv' /\ NothingMoves /\ Quiet
  BY <1>1, NothingBound DEF IInv
<1>3. world' = world /\ classes' = classes /\ jvm' = jvm
  BY <1>2 DEF Quiet
<1>4. ASSUME NEW f, FrameInv(f) PROVE FrameInv(f)'
  BY <1>2, <1>4, QuietFrame DEF IInv
<1>5. StackInv'
  <2>s. PICK s : s = stack
    OBVIOUS
  <2>1. /\ IsList(s) /\ \A k \in DOMAIN s : FrameInv(s[k])
        /\ \A k \in DOMAIN s : k + 1 \in DOMAIN s => CalledBy(s[k], s[k + 1])
        /\ \A k \in DOMAIN s : s[k].op = "load" => k + 1 \in DOMAIN s
    BY <2>s DEF IInv, StackInv
  <2>2. \A k \in DOMAIN s : FrameInv(s[k])'
    BY <1>4, <2>1
  <2> QED BY <1>1, <2>1, <2>2, <2>s DEF StackInv
<1>6. OpenInv'
  <2>1. \A k \in DOMAIN stack : OpenFrame(jvm, stack[k])
    BY <1>1 DEF IInv, OpenInv
  <2> QED BY <1>1, <1>3, <2>1 DEF OpenInv
<1>7. AnswerInv'
  BY <1>1 DEF AnswerInv
<1> QED BY <1>2, <1>5, <1>6, <1>7 DEF IInv

LEMMA FindNotFound ==
  ASSUME IInv, FindNoLoader \/ FindFailed \/ Abandon
  PROVE  IInv' /\ NothingMoves
<1>1. stack # <<>> /\ stack' = Tail(stack) /\ ret' = 0 /\ UNCHANGED <<world, graphs, tables>>
  BY DEF FindNoLoader, FindFailed, Abandon, Return, Runs
<1> QED BY <1>1, SilentReturn

-----------------------------------------------------------------------------
(* dex_file::load_class.                                                   *)

(* A call of find_class begins.                                            *)
Begins(c, d, a, b, t) == c = Find(d, <<a, b>>, t) /\ (d # NoHdl => <<a, b>> = ClassJvm(d))

LEMMA FindMade ==
  ASSUME NEW d, NEW a, NEW b, NEW t, NEW c, Begins(c, d, a, b, t)
  PROVE  FrameInv(c) /\ c.op = "find" /\ c.jvm = <<a, b>> /\ OpenFrame(jvm, c)
<1>l. PICK l : l = <<a>>
  OBVIOUS
<1>1. c = [op |-> "find", kind |-> "class", dex |-> d, jvm |-> <<a, b>>, try |-> t,
           todo |-> l, seen |-> {}, files |-> <<>>]
  BY <1>l DEF Find, Begins
<1>2. /\ c.op = "find" /\ c.kind = "class" /\ c.dex = d /\ c.jvm = <<a, b>> /\ c.try = t /\ c.todo = l
      /\ c.seen = {} /\ c.files = <<>> /\ c.jvm[1] = a /\ c.jvm[2] = b
  BY <1>1
<1>3. c = [op |-> "find", kind |-> "class", dex |-> c.dex, jvm |-> <<c.jvm[1], c.jvm[2]>>,
           try |-> c.try, todo |-> c.todo, seen |-> c.seen, files |-> c.files]
  BY <1>1, <1>2
<1>4. IsList(c.files) /\ DOMAIN c.files = {}
  <2>e. PICK e : e = <<>>
    OBVIOUS
  <2>1. e = [k \in 1 .. 0 |-> e[k]] /\ DOMAIN e = {}
    BY <2>e
  <2>2. IsList(e)
    BY <2>1, ListMade
  <2> QED BY <1>2, <2>1, <2>2, <2>e
<1>5. FindFrame(c)
  BY <1>2, <1>3, <1>4 DEF FindFrame, Begins
<1>6. OpenFrame(jvm, c)
  BY <1>2 DEF OpenFrame
<1> QED BY <1>2, <1>5, <1>6 DEF FrameInv

LEMMA LoadTop ==
  ASSUME IInv, Runs("load"), NEW f, f = Top
  PROVE  stack # <<>> /\ f.op = "load" /\ LoadFrame(f) /\ FrameInv(f) /\ OpenFrame(jvm, f)
<1>1. stack # <<>> /\ f.op = "load"
  BY DEF Runs
<1>2. FrameInv(f) /\ OpenFrame(jvm, f)
  BY <1>1, TopFacts
<1>3. LoadFrame(f)
  BY <1>1, <1>2 DEF FrameInv
<1> QED BY <1>1, <1>2, <1>3

LEMMA LoadSuperStep ==
  ASSUME IInv, LoadSuper
  PROVE  IInv' /\ NothingMoves
<1>f. PICK f : f = Top
  OBVIOUS
<1>a. PICK a : a = f.hdl[1]
  OBVIOUS
<1>n. PICK n : n = Head(f.want)
  OBVIOUS
<1>d. PICK d : d = <<a, f.hdl[2], n>>
  OBVIOUS
<1>c. PICK c : c = Find(d, <<a, n>>, TRUE)
  OBVIOUS
<1>1. /\ Runs("load") /\ ~returned /\ f.want # <<>> /\ Call(c, f)
      /\ UNCHANGED <<world, graphs, tables, result>>
  BY <1>f, <1>a, <1>n, <1>d, <1>c DEF LoadSuper
<1>2. stack # <<>> /\ f.op = "load" /\ LoadFrame(f) /\ FrameInv(f) /\ OpenFrame(jvm, f)
  BY <1>1, <1>f, LoadTop
<1>3. Begins(c, d, a, n, TRUE)
  <2>1. <<a, n>> = ClassJvm(d)
    BY <1>d DEF ClassJvm
  <2> QED BY <1>c, <2>1 DEF Begins
<1>4. FrameInv(c) /\ c.op = "find" /\ c.jvm = <<a, n>> /\ OpenFrame(jvm, c)
  BY <1>3, FindMade
<1>5. CalledBy(c, f)
  BY <1>1, <1>2, <1>4, <1>n DEF CalledBy
<1>6. ~returned' /\ SameCall(f, Top)
  BY <1>1, <1>f DEF result, SameCall
<1> QED BY <1>1, <1>2, <1>4, <1>5, <1>6, SilentCall

LEMMA SuperLoadedStep ==
  ASSUME IInv, SuperLoaded
  PROVE  IInv' /\ NothingMoves
<1>f. PICK f : f = Top
  OBVIOUS
<1>w. PICK w : w = Tail(f.want)
  OBVIOUS
<1>e. PICK e : e = Append(f.got, ret)
  OBVIOUS
<1>g. PICK g : g = [f EXCEPT !.want = w, !.got = e]
  OBVIOUS
<1>1. /\ Runs("load") /\ returned /\ ret # 0 /\ Become(g) /\ ~returned'
      /\ UNCHANGED <<world, graphs, tables>>
  BY <1>f, <1>w, <1>e, <1>g DEF SuperLoaded, Resume
<1>2. stack # <<>> /\ f.op = "load" /\ LoadFrame(f) /\ FrameInv(f) /\ OpenFrame(jvm, f)
  BY <1>1, <1>f, LoadTop
<1>3. f.want # <<>> /\ ret \in 1 .. Len(classes)
  BY <1>1, <1>2, <1>f DEF IInv, AnswerInv
<1>4. IsList(f.want) /\ f.got \in Seq(1 .. Len(classes))
  BY <1>2 DEF LoadFrame
<1>5. /\ IsList(w) /\ Len(w) = Len(f.want) - 1 /\ Len(f.want) \in Nat
      /\ \A j \in DOMAIN w : j + 1 \in DOMAIN f.want /\ w[j] = f.want[j + 1]
  BY <1>3, <1>4, <1>w, ListTail, ListFacts
<1>6. e \in Seq(1 .. Len(classes)) /\ Len(e) = Len(f.got) + 1 /\ Len(f.got) \in Nat
  <2>1. Append(f.got, ret) \in Seq(1 .. Len(classes)) /\ Len(Append(f.got, ret)) = Len(f.got) + 1
    BY <1>3, <1>4, AppendProperties
  <2>2. Len(f.got) \in Nat
    BY <1>4, LenProperties
  <2> QED BY <2>1, <2>2, <1>e
<1>7. PICK h1, h2, h3, w0, e0 : /\ f = [op |-> "load", hdl |-> <<h1, h2, h3>>, want |-> w0, got |-> e0]
                                /\ f.hdl = <<h1, h2, h3>> /\ f.want = w0 /\ f.got = e0
  BY <1>2 DEF LoadFrame
<1>8. g = [op |-> "load", hdl |-> <<h1, h2, h3>>, want |-> w, got |-> e]
  BY <1>7, <1>g
<1>9. g.op = "load" /\ g.hdl = <<h1, h2, h3>> /\ g.hdl = f.hdl /\ g.want = w /\ g.got = e
  BY <1>7, <1>8
<1>10. LoadFrame(g)
  <2>1. g = [op |-> "load", hdl |-> <<g.hdl[1], g.hdl[2], g.hdl[3]>>, want |-> g.want, got |-> g.got]
    BY <1>8, <1>9
  <2>2. Defines(g.hdl[1], g.hdl[2], g.hdl[3])
    BY <1>2, <1>9 DEF LoadFrame
  <2>3. IsList(g.want) /\ \A j \in DOMAIN g.want : g.want[j] \in Wants(DefOf(g.hdl))
    BY <1>2, <1>5, <1>9 DEF LoadFrame
  <2>4. Len(g.got) + Len(g.want) = Len(DefOf(g.hdl).super) + Len(DefOf(g.hdl).interfaces)
    <3>1. Len(f.got) + Len(f.want) = Len(DefOf(f.hdl).super) + Len(DefOf(f.hdl).interfaces)
      BY <1>2 DEF LoadFrame
    <3>2. Len(e) + Len(w) = Len(f.got) + Len(f.want)
      <4>1. PICK x \in Nat : x = Len(f.got) /\ Len(e) = x + 1
        BY <1>6
      <4>2. PICK y \in Nat : y = Len(f.want) /\ Len(w) = y - 1
        BY <1>5
      <4>3. (x + 1) + (y - 1) = x + y
        OBVIOUS
      <4> QED BY <4>1, <4>2, <4>3
    <3> QED BY <1>9, <3>1, <3>2
  <2> QED BY <1>6, <1>9, <2>1, <2>2, <2>3, <2>4 DEF LoadFrame
<1>11. FrameInv(g) /\ SameCall(g, Top) /\ OpenFrame(jvm, g)
  BY <1>2, <1>9, <1>10, <1>f DEF FrameInv, SameCall, OpenFrame
<1> QED BY <1>1, <1>2, <1>11, SilentBecome

-----------------------------------------------------------------------------
(* find_method and find_field.                                             *)

LEMMA MemberTop ==
  ASSUME IInv, Runs("member"), NEW f, f = Top
  PROVE  /\ stack # <<>> /\ f.op = "member" /\ MemberFrame(f) /\ f.kind # "class"
         /\ f.stage = "lookup" \/ f.stage = "search" => ~returned
<1>1. stack # <<>> /\ f.op = "member"
  BY DEF Runs
<1>2. FrameInv(f)
  BY <1>1, TopFacts
<1>3. MemberFrame(f)
  BY <1>1, <1>2 DEF FrameInv
<1>4. returned => f.stage = "load"
  BY <1>1 DEF IInv, AnswerInv
<1> QED BY <1>1, <1>3, <1>4 DEF MemberFrame

(* A member was found; classes keep their handles.                         *)
LEMMA MemberBinds ==
  ASSUME IInv, Runs("member"), UNCHANGED <<world, graphs>>, NEW f, f = Top, NEW v, Binds(f, v), Return(v)
  PROVE  IInv' /\ NothingMoves
<1>1. stack # <<>> /\ f.op = "member" /\ f.kind # "class"
  BY MemberTop
<1>2. /\ ClassInv' /\ WorldInv' /\ NothingMoves
      /\ \A l, m : ClassKey(l, m) \in DOMAIN jvm' =>
           ClassKey(l, m) \in DOMAIN jvm \/ (f.kind = "class" /\ f.jvm = <<l, m>>)
  BY <1>1, BoundKeeps DEF IInv
<1>3. ASSUME NEW k \in DOMAIN stack, k >= 2 PROVE OpenFrame(jvm', stack[k])
  <2>1. OpenFrame(jvm, stack[k])
    BY <1>3 DEF IInv, OpenInv
  <2> QED BY <1>1, <1>2, <2>1, OpenSame
<1>4. stack' = Tail(stack) /\ world' = world /\ classes' = classes
  BY DEF Return, graphs
<1>5. Len(classes) \in Nat
  BY ListFacts DEF IInv, ClassInv
<1>6. StackInv' /\ OpenInv'
  BY <1>1, <1>3, <1>4, <1>5, ReturnStep DEF IInv
<1>7. AnswerInv'
  BY <1>1, <1>4, AnswerAfterReturn DEF IInv
<1> QED BY <1>2, <1>6, <1>7 DEF IInv

LEMMA MemberKnownStep ==
  ASSUME IInv, MemberKnown
  PROVE  IInv' /\ NothingMoves
<1>f. PICK f : f = Top
  OBVIOUS
<1>1. Runs("member") /\ Known(f) /\ Answer(f) /\ UNCHANGED <<world, graphs>>
  BY <1>f DEF MemberKnown
<1>2. stack # <<>> /\ f.op = "member"
  BY <1>1, <1>f, MemberTop
<1>3. PICK v : /\ Return(v)
               /\ \/ HasDex(f) /\ v = dex[<<f.kind, f.dex>>] /\ UNCHANGED tables
                  \/ ~HasDex(f) /\ HasJvm(f) /\ v = jvm[<<f.kind, f.jvm>>] /\ Binds(f, v)
  BY <1>1, AnswerBinds
<1>4. CASE UNCHANGED tables
  <2>1. stack' = Tail(stack) /\ UNCHANGED <<world, graphs, tables>> /\ ~(Top.op \in {"find", "load"})
    BY <1>1, <1>2, <1>3, <1>4, <1>f DEF Return
  <2> QED BY <1>2, <2>1, SilentReturn
<1>5. CASE Binds(f, v)
  BY <1>1, <1>3, <1>5, <1>f, MemberBinds
<1> QED BY <1>3, <1>4, <1>5

(* The next stage, or the next loader of the walk.                         *)
MemberGoing(f, r, t, s, g) == g = [f EXCEPT !.stage = r, !.todo = t, !.seen = s]

LEMMA MemberGoesOn ==
  ASSUME NEW f, f.op = "member", MemberFrame(f), NEW r, NEW t, NEW s,
         r \in {"lookup", "load", "search"}, r = "search" => ~HasJvm(f),
         NEW g, MemberGoing(f, r, t, s, g)
  PROVE  /\ FrameInv(g) /\ SameCall(g, f) /\ g.op = "member" /\ g.stage = r /\ OpenFrame(jvm, g)
<1>1. PICK k, d, a, b, c, y, r0, t0, s0 :
        /\ f = [op |-> "member", kind |-> k, dex |-> d, jvm |-> <<a, b, c>>, try |-> y,
                stage |-> r0, todo |-> t0, seen |-> s0]
        /\ k \in {"method", "field"} /\ (d # NoHdl => <<a, b, c>> = JvmOf(d))
  BY DEF MemberFrame
<1>2. g = [op |-> "member", kind |-> k, dex |-> d, jvm |-> <<a, b, c>>, try |-> y,
           stage |-> r, todo |-> t, seen |-> s]
  BY <1>1 DEF MemberGoing
<1>3. /\ g.op = "member" /\ g.kind = k /\ g.dex = d /\ g.jvm = <<a, b, c>> /\ g.try = y /\ g.stage = r
      /\ g.todo = t /\ g.seen = s /\ g.jvm[1] = a /\ g.jvm[2] = b /\ g.jvm[3] = c
      /\ f.kind = k /\ f.jvm = <<a, b, c>>
  BY <1>1, <1>2
<1>4. g = [op |-> "member", kind |-> g.kind, dex |-> g.dex,
           jvm |-> <<g.jvm[1], g.jvm[2], g.jvm[3]>>, try |-> g.try, stage |-> g.stage,
           todo |-> g.todo, seen |-> g.seen]
  BY <1>2, <1>3
<1>5. r = "search" => ~HasJvm(g)
  BY <1>3 DEF HasJvm
<1>6. MemberFrame(g)
  BY <1>1, <1>3, <1>4, <1>5 DEF MemberFrame
<1>7. OpenFrame(jvm, g)
  BY <1>3 DEF OpenFrame
<1> QED BY <1>3, <1>6, <1>7 DEF FrameInv, SameCall

LEMMA MemberLoadStep ==
  ASSUME IInv, MemberLoad
  PROVE  IInv' /\ NothingMoves
<1>f. PICK f : f = Top
  OBVIOUS
<1>1. /\ Runs("member") /\ f.stage = "lookup" /\ ~Known(f)
      /\ UNCHANGED <<world, graphs, tables, result>>
  BY <1>f DEF MemberLoad
<1>2. stack # <<>> /\ f.op = "member" /\ MemberFrame(f) /\ ~returned
  BY <1>1, <1>f, MemberTop
<1>3. ~returned'
  BY <1>1, <1>2 DEF result
<1>4. CASE f.try
  <2>c. PICK c : c = Find(NoHdl, <<f.jvm[1], f.jvm[2]>>, TRUE)
    OBVIOUS
  <2>g. PICK g : g = [f EXCEPT !.stage = "load"]
    OBVIOUS
  <2>1. Call(c, g)
    BY <1>4, <1>f, <2>c, <2>g DEF MemberLoad
  <2>2. MemberGoing(f, "load", f.todo, f.seen, g)
    BY <1>2, <2>g DEF MemberFrame, MemberGoing
  <2>3. FrameInv(g) /\ SameCall(g, f) /\ g.op = "member" /\ g.stage = "load" /\ OpenFrame(jvm, g)
    BY <1>2, <2>2, MemberGoesOn
  <2>4. FrameInv(c) /\ c.op = "find" /\ OpenFrame(jvm, c)
    <3>a. PICK a : a = f.jvm[1]
      OBVIOUS
    <3>b. PICK b : b = f.jvm[2]
      OBVIOUS
    <3>1. Begins(c, NoHdl, a, b, TRUE)
      BY <2>c, <3>a, <3>b DEF Begins
    <3>2. FrameInv(c) /\ c.op = "find" /\ c.jvm = <<a, b>> /\ OpenFrame(jvm, c)
      BY <3>1, FindMade
    <3> QED BY <3>2
  <2>5. CalledBy(c, g) /\ SameCall(g, Top)
    BY <2>3, <2>4, <1>f DEF CalledBy
  <2> QED BY <1>1, <1>2, <1>3, <2>1, <2>3, <2>4, <2>5, SilentCall
<1>5. CASE ~f.try
  <2>g. PICK g : g = [f EXCEPT !.stage = "search"]
    OBVIOUS
  <2>1. Become(g)
    BY <1>5, <1>f, <2>g DEF MemberLoad
  <2>2. MemberGoing(f, "search", f.todo, f.seen, g)
    BY <1>2, <2>g DEF MemberFrame, MemberGoing
  <2>3. FrameInv(g) /\ SameCall(g, f) /\ g.op = "member" /\ g.stage = "search" /\ OpenFrame(jvm, g)
    <3>1. ~HasJvm(f)
      BY <1>1 DEF Known
    <3> QED BY <1>2, <2>2, <3>1, MemberGoesOn
  <2>4. SameCall(g, Top)
    BY <2>3, <1>f
  <2> QED BY <1>1, <1>2, <1>3, <2>1, <2>3, <2>4, SilentBecome
<1> QED BY <1>4, <1>5

LEMMA MemberLoadedStep ==
  ASSUME IInv, MemberLoaded
  PROVE  IInv' /\ NothingMoves
<1>f. PICK f : f = Top
  OBVIOUS
<1>1. Runs("member") /\ UNCHANGED <<world, graphs>>
  BY <1>f DEF MemberLoaded
<1>2. stack # <<>> /\ f.op = "member" /\ MemberFrame(f)
  BY <1>1, <1>f, MemberTop
<1>3. CASE HasJvm(f)
  <2>v. PICK v : v = jvm[<<f.kind, f.jvm>>]
    OBVIOUS
  <2>1. Return(v) /\ Binds(f, v)
    BY <1>3, <1>f, <2>v DEF MemberLoaded, Binds
  <2> QED BY <1>1, <1>f, <2>1, MemberBinds
<1>4. CASE ~HasJvm(f)
  <2>g. PICK g : g = [f EXCEPT !.stage = "search"]
    OBVIOUS
  <2>1. Become(g) /\ ~returned' /\ UNCHANGED <<world, graphs, tables>>
    BY <1>4, <1>f, <2>g DEF MemberLoaded, Resume
  <2>2. MemberGoing(f, "search", f.todo, f.seen, g)
    BY <1>2, <2>g DEF MemberFrame, MemberGoing
  <2>3. FrameInv(g) /\ SameCall(g, f) /\ g.op = "member" /\ g.stage = "search" /\ OpenFrame(jvm, g)
    BY <1>2, <1>4, <2>2, MemberGoesOn
  <2>4. SameCall(g, Top)
    BY <2>3, <1>f
  <2> QED BY <1>1, <1>2, <2>1, <2>3, <2>4, SilentBecome
<1> QED BY <1>3, <1>4

LEMMA MemberSearchStep ==
  ASSUME IInv, MemberSearch
  PROVE  IInv' /\ NothingMoves
<1>f. PICK f : f = Top
  OBVIOUS
<1>l. PICK l : l = Head(f.todo)
  OBVIOUS
<1>h. PICK h : h = <<f.kind, <<l, f.jvm[2], f.jvm[3]>>>>
  OBVIOUS
<1>1. Runs("member") /\ f.stage = "search" /\ UNCHANGED <<world, graphs>>
  BY <1>f DEF MemberSearch
<1>2. stack # <<>> /\ f.op = "member" /\ MemberFrame(f) /\ ~returned /\ ~HasJvm(f)
  <2>1. stack # <<>> /\ f.op = "member" /\ MemberFrame(f) /\ ~returned
    BY <1>1, <1>f, MemberTop
  <2> QED BY <1>1, <2>1 DEF MemberFrame
<1>3. ASSUME NEW t, NEW s, Become([f EXCEPT !.todo = t, !.seen = s]), UNCHANGED <<tables, result>>
      PROVE  IInv' /\ NothingMoves
  <2>g. PICK g : g = [f EXCEPT !.todo = t, !.seen = s]
    OBVIOUS
  <2>1. Become(g)
    BY <1>3, <2>g
  <2>2. MemberGoing(f, "search", t, s, g)
    BY <1>1, <1>2, <2>g DEF MemberFrame, MemberGoing
  <2>3. FrameInv(g) /\ SameCall(g, f) /\ g.op = "member" /\ OpenFrame(jvm, g)
    BY <1>2, <2>2, MemberGoesOn
  <2>4. SameCall(g, Top) /\ ~returned' /\ UNCHANGED <<world, graphs, tables>>
    BY <1>1, <1>2, <1>3, <2>3, <1>f DEF result
  <2> QED BY <1>2, <2>1, <2>3, <2>4, SilentBecome
<1>4. CASE Coloured(f)
  <2>t. PICK t : t = Tail(f.todo)
    OBVIOUS
  <2>1. Become([f EXCEPT !.todo = t]) /\ UNCHANGED <<tables, result>>
    BY <1>4, <1>f, <2>t DEF MemberSearch
  <2>2. [f EXCEPT !.todo = t] = [f EXCEPT !.todo = t, !.seen = f.seen]
    BY <1>2 DEF MemberFrame
  <2>3. Become([f EXCEPT !.todo = t, !.seen = f.seen])
    BY <2>1, <2>2
  <2> QED BY <1>3, <2>1, <2>3
<1>5. CASE ~Coloured(f) /\ h \in DOMAIN jvm
  <2>v. PICK v : v = jvm[h]
    OBVIOUS
  <2>1. Found(f, v)
    BY <1>5, <1>f, <1>l, <1>h, <2>v DEF MemberSearch
  <2>2. Binds(f, v) /\ Return(v)
    BY <2>1 DEF Found, Binds
  <2> QED BY <1>1, <1>f, <2>2, MemberBinds
<1>6. CASE ~Coloured(f) /\ h \notin DOMAIN jvm
  <2>t. PICK t : t = world.out[l] \o Tail(f.todo)
    OBVIOUS
  <2>s. PICK s : s = f.seen \cup {l}
    OBVIOUS
  <2>1. Become([f EXCEPT !.todo = t, !.seen = s]) /\ UNCHANGED <<tables, result>>
    BY <1>6, <1>f, <1>l, <1>h, <2>t, <2>s DEF MemberSearch
  <2> QED BY <1>3, <2>1
<1> QED BY <1>4, <1>5, <1>6

LEMMA MemberNotFound ==
  ASSUME IInv, MemberNoClass \/ MemberFailed
  PROVE  IInv' /\ NothingMoves
<1>1. stack # <<>> /\ stack' = Tail(stack) /\ ret' = 0 /\ UNCHANGED <<world, graphs, tables>>
  BY DEF MemberNoClass, MemberFailed, Return, Runs
<1> QED BY <1>1, SilentReturn

-----------------------------------------------------------------------------
(* load_all_classes, and the calls of the program.                         *)

LEMMA AllTop ==
  ASSUME IInv, Runs("all"), NEW f, f = Top
  PROVE  stack # <<>> /\ f.op = "all" /\ AllFrame(f)
<1>1. stack # <<>> /\ f.op = "all"
  BY DEF Runs
<1>2. FrameInv(f)
  BY <1>1, TopFacts
<1> QED BY <1>1, <1>2 DEF FrameInv

AllGoing(f, w, b, o, g) == g = [f EXCEPT !.want = w, !.begun = b, !.ok = o]

LEMMA AllGoesOn ==
  ASSUME NEW f, f.op = "all", AllFrame(f), NEW w, NEW b, NEW o,
         NEW g, AllGoing(f, w, b, o, g)
  PROVE  FrameInv(g) /\ SameCall(g, f) /\ g.op = "all" /\ OpenFrame(jvm, g)
<1>1. PICK l, w0, b0, o0 : f = [op |-> "all", loader |-> l, want |-> w0, begun |-> b0, ok |-> o0]
  BY DEF AllFrame
<1>2. g = [op |-> "all", loader |-> l, want |-> w, begun |-> b, ok |-> o]
  BY <1>1 DEF AllGoing
<1>3. g.op = "all" /\ g.loader = l /\ g.want = w /\ g.begun = b /\ g.ok = o
  BY <1>2
<1>4. AllFrame(g)
  BY <1>2, <1>3 DEF AllFrame
<1> QED BY <1>3, <1>4 DEF FrameInv, SameCall, OpenFrame

LEMMA AllSteps ==
  ASSUME IInv, AllBegin \/ AllNext \/ AllDone
  PROVE  IInv' /\ NothingMoves
<1>f. PICK f : f = Top
  OBVIOUS
<1>1. Runs("all") /\ UNCHANGED <<world, graphs, tables>>
  BY DEF AllBegin, AllNext, AllDone
<1>2. stack # <<>> /\ f.op = "all" /\ AllFrame(f)
  BY <1>1, <1>f, AllTop
<1>3. CASE AllBegin
  <2>w. PICK w : w = UNION {{<<f.loader, k, n>> : n \in DOMAIN world.file[f.loader][k]} :
                              k \in 1 .. Len(world.file[f.loader])}
    OBVIOUS
  <2>g. PICK g : g = [f EXCEPT !.begun = TRUE, !.want = w]
    OBVIOUS
  <2>1. Become(g)
    BY <1>3, <1>f, <2>w, <2>g DEF AllBegin
  <2>2. AllGoing(f, w, TRUE, f.ok, g)
    BY <1>2, <2>g DEF AllFrame, AllGoing
  <2>3. FrameInv(g) /\ SameCall(g, f) /\ g.op = "all" /\ OpenFrame(jvm, g)
    BY <1>2, <2>2, AllGoesOn
  <2>4. SameCall(g, Top)
    BY <2>3, <1>f
  <2> QED BY <1>1, <1>2, <2>1, <2>3, <2>4, SilentBecome
<1>4. CASE AllNext
  <2>1. PICK h \in f.want : Call(Find(h, ClassJvm(h), TRUE), [f EXCEPT !.want = @ \ {h}, !.ok = AllOk])
    BY <1>4, <1>f DEF AllNext
  <2>w. PICK w : w = f.want \ {h}
    OBVIOUS
  <2>o. PICK o : o = AllOk
    OBVIOUS
  <2>g. PICK g : g = [f EXCEPT !.want = w, !.ok = o]
    OBVIOUS
  <2>c. PICK c : c = Find(h, ClassJvm(h), TRUE)
    OBVIOUS
  <2>2. Call(c, g)
    BY <2>1, <2>w, <2>o, <2>g, <2>c
  <2>3. AllGoing(f, w, f.begun, o, g)
    BY <1>2, <2>g DEF AllFrame, AllGoing
  <2>4. FrameInv(g) /\ SameCall(g, f) /\ g.op = "all" /\ OpenFrame(jvm, g)
    BY <1>2, <2>3, AllGoesOn
  <2>5. FrameInv(c) /\ c.op = "find" /\ OpenFrame(jvm, c)
    <3>a. PICK a : a = h[1]
      OBVIOUS
    <3>b. PICK b : b = h[3]
      OBVIOUS
    <3>1. Begins(c, h, a, b, TRUE)
      BY <2>c, <3>a, <3>b DEF Begins, ClassJvm
    <3>2. FrameInv(c) /\ c.op = "find" /\ c.jvm = <<a, b>> /\ OpenFrame(jvm, c)
      BY <3>1, FindMade
    <3> QED BY <3>2
  <2>6. CalledBy(c, g) /\ SameCall(g, Top)
    BY <2>4, <2>5, <1>f DEF CalledBy
  <2>7. ~returned'
    BY <1>4 DEF AllNext, Resume
  <2> QED BY <1>1, <1>2, <2>2, <2>4, <2>5, <2>6, <2>7, SilentCall
<1>5. CASE AllDone
  <2>1. stack' = Tail(stack) /\ ~(Top.op \in {"find", "load"})
    BY <1>2, <1>5, <1>f DEF AllDone, Return
  <2> QED BY <1>1, <1>2, <2>1, SilentReturn
<1> QED BY <1>3, <1>4, <1>5

LEMMA RequestFrame ==
  ASSUME WorldInv, NEW r \in world.requests
  PROVE  FrameInv(r) /\ OpenFrame(jvm, r) /\ r.op # "load"
<1>1. PICK w \in Worlds : world.requests = w.requests
  BY DEF WorldInv
<1>2. r \in w.requests
  BY <1>1
<1>3. CASE /\ r.op = "find" /\ r = Find(r.dex, <<r.jvm[1], r.jvm[2]>>, r.try)
           /\ r.dex # NoHdl => r.jvm = ClassJvm(r.dex)
  <2>d. PICK d : d = r.dex
    OBVIOUS
  <2>a. PICK a : a = r.jvm[1]
    OBVIOUS
  <2>b. PICK b : b = r.jvm[2]
    OBVIOUS
  <2>t. PICK t : t = r.try
    OBVIOUS
  <2>1. r = Find(d, <<a, b>>, t)
    BY <1>3, <2>d, <2>a, <2>b, <2>t
  <2>2. r.jvm = <<a, b>>
    BY <2>1 DEF Find
  <2>3. Begins(r, d, a, b, t)
    BY <1>3, <2>1, <2>2, <2>d DEF Begins
  <2>4. FrameInv(r) /\ r.op = "find" /\ r.jvm = <<a, b>> /\ OpenFrame(jvm, r)
    BY <2>3, FindMade
  <2> QED BY <2>4
<1>4. CASE /\ r.op = "member" /\ r.kind \in {"method", "field"}
           /\ r = Member(r.kind, r.dex, <<r.jvm[1], r.jvm[2], r.jvm[3]>>, r.try)
           /\ r.dex # NoHdl => r.jvm = JvmOf(r.dex)
  <2>1. PICK k, d, a, b, c, y, t :
          /\ r = [op |-> "member", kind |-> k, dex |-> d, jvm |-> <<a, b, c>>, try |-> y,
                  stage |-> "lookup", todo |-> t, seen |-> {}]
    BY <1>4 DEF Member
  <2>2. /\ r.op = "member" /\ r.kind = k /\ r.dex = d /\ r.jvm = <<a, b, c>> /\ r.try = y
        /\ r.stage = "lookup" /\ r.todo = t /\ r.seen = {}
        /\ r.jvm[1] = a /\ r.jvm[2] = b /\ r.jvm[3] = c
    BY <2>1
  <2>3. r = [op |-> "member", kind |-> r.kind, dex |-> r.dex,
             jvm |-> <<r.jvm[1], r.jvm[2], r.jvm[3]>>, try |-> r.try, stage |-> r.stage,
             todo |-> r.todo, seen |-> r.seen]
    BY <2>1, <2>2
  <2>4. MemberFrame(r)
    BY <1>4, <2>2, <2>3 DEF MemberFrame
  <2> QED BY <2>2, <2>4 DEF FrameInv, OpenFrame
<1>5. CASE r.op = "all" /\ r = LoadAll(r.loader)
  <2>1. AllFrame(r)
    <3>1. PICK l : r = [op |-> "all", loader |-> l, want |-> {}, begun |-> FALSE, ok |-> TRUE]
      BY <1>5 DEF LoadAll
    <3>2. r.loader = l /\ r.want = {} /\ r.begun = FALSE /\ r.ok = TRUE
      BY <3>1
    <3> QED BY <3>1, <3>2 DEF AllFrame
  <2> QED BY <1>5, <2>1 DEF FrameInv, OpenFrame
<1> QED BY <1>2, <1>3, <1>4, <1>5, RequestsAssumption

LEMMA RequestStep ==
  ASSUME IInv, Request
  PROVE  IInv' /\ NothingMoves
<1>1. PICK r \in world.requests : stack' = <<r>>
  BY DEF Request
<1>2. UNCHANGED <<world, graphs, tables>> /\ ~returned'
  BY DEF Request, Resume
<1>3. ClassInv' /\ WorldInv' /\ NothingMoves /\ Quiet
  BY <1>2, NothingBound DEF IInv
<1>4. FrameInv(r) /\ OpenFrame(jvm, r) /\ r.op # "load"
  BY RequestFrame DEF IInv
<1>5. FrameInv(r)'
  BY <1>3, <1>4, QuietFrame DEF IInv
<1>t. PICK t : t = stack'
  OBVIOUS
<1>6. IsList(t) /\ t[1] = r /\ DOMAIN t = {1}
  <2>1. IsList(<<r>>) /\ Len(<<r>>) = 1 /\ <<r>>[1] = r /\ DOMAIN <<r>> = {1}
    BY ListOne
  <2> QED BY <1>1, <1>t, <2>1
<1>7. \A k \in DOMAIN t : FrameInv(t[k])'
  <2>1. t[1] = r /\ \A k \in DOMAIN t : t[k] = r
    BY <1>6
  <2> QED BY <1>5, <2>1
<1>8. StackInv'
  <2>1. \A k \in DOMAIN t : k = 1 /\ k + 1 \notin DOMAIN t /\ t[k].op # "load"
    BY <1>4, <1>6
  <2> QED BY <1>6, <1>7, <2>1, <1>t DEF StackInv
<1>9. OpenInv'
  <2>1. \A k \in DOMAIN t : OpenFrame(jvm, t[k])
    BY <1>4, <1>6
  <2>2. jvm' = jvm
    BY <1>3 DEF Quiet
  <2> QED BY <2>1, <2>2, <1>t DEF OpenInv
<1>10. AnswerInv'
  BY <1>2 DEF AnswerInv
<1> QED BY <1>3, <1>8, <1>9, <1>10 DEF IInv

-----------------------------------------------------------------------------
(* What changes the loader graph between two calls.                        *)

LEMMA BetweenCalls ==
  ASSUME IInv, stack = <<>>, UNCHANGED <<graphs, tables, stack, result>>, WorldInv'
  PROVE  IInv' /\ NothingMoves
<1>1. classes' = classes /\ jvm' = jvm /\ dex' = dex /\ stack' = stack
  BY DEF graphs, tables
<1>2. ClassInv'
  BY <1>1 DEF IInv, ClassInv
<1>3. Len(classes) \in Nat
  BY ListFacts DEF IInv, ClassInv
<1>4. NothingMoves
  BY <1>1, <1>3 DEF NothingMoves, Kept
<1>5. IsList(stack) /\ DOMAIN stack = {}
  <2>1. IsList(stack)
    BY DEF IInv, StackInv
  <2> QED BY <2>1
<1>6. StackInv' /\ OpenInv' /\ AnswerInv'
  BY <1>1, <1>5 DEF StackInv, OpenInv, AnswerInv
<1> QED BY <1>2, <1>4, <1>6 DEF IInv

LEMMA AddApkStep ==
  ASSUME IInv, AddApk
  PROVE  IInv' /\ NothingMoves
<1>1. PICK l \in DOMAIN world.parent : 
        world' = [world EXCEPT !.loader = @ \cup {l}, !.out = (l :> <<world.parent[l]>>) @@ @]
  BY DEF AddApk
<1>2. PICK w \in Worlds : world.file = w.file /\ world.requests = w.requests /\ world.parent = w.parent
  BY DEF IInv, WorldInv
<1>3. l \in DOMAIN world.file
  BY <1>1, <1>2, ParentsAssumption
<1>o. PICK o : o = (l :> <<world.parent[l]>>) @@ world.out
  OBVIOUS
<1>4. /\ {"loader", "out", "file", "requests", "parent"} \subseteq DOMAIN world
      /\ world.loader \subseteq DOMAIN world.file
  BY DEF IInv, WorldInv
<1>5. world' = [world EXCEPT !.loader = world.loader \cup {l}, !.out = o]
  BY <1>1, <1>o
<1>6. /\ DOMAIN world' = DOMAIN world /\ world'.file = world.file /\ world'.requests = world.requests
      /\ world'.parent = world.parent /\ world'.loader = world.loader \cup {l}
  BY <1>4, <1>5
<1>7. WorldInv'
  BY <1>2, <1>3, <1>4, <1>6 DEF WorldInv
<1> QED BY <1>7, BetweenCalls DEF AddApk

LEMMA AddFlowStep ==
  ASSUME IInv, NEW edges, AddFlow(edges)
  PROVE  IInv' /\ NothingMoves
<1>o. PICK o : o = After(world.out, edges)
  OBVIOUS
<1>1. world' = [world EXCEPT !.out = o]
  BY <1>o DEF AddFlow
<1>2. PICK w \in Worlds : world.file = w.file /\ world.requests = w.requests /\ world.parent = w.parent
  BY DEF IInv, WorldInv
<1>3. /\ {"loader", "out", "file", "requests", "parent"} \subseteq DOMAIN world
      /\ world.loader \subseteq DOMAIN world.file
  BY DEF IInv, WorldInv
<1>4. /\ DOMAIN world' = DOMAIN world /\ world'.file = world.file /\ world'.requests = world.requests
      /\ world'.parent = world.parent /\ world'.loader = world.loader
  BY <1>1, <1>3
<1>5. WorldInv'
  BY <1>2, <1>3, <1>4 DEF WorldInv
<1> QED BY <1>5, BetweenCalls DEF AddFlow

-----------------------------------------------------------------------------
(* A list with another element, and one that grows by some elements of     *)
(* another.                                                                *)

LEMMA ListAppend ==
  ASSUME NEW s, IsList(s), NEW x
  PROVE  /\ IsList(Append(s, x)) /\ Len(Append(s, x)) = Len(s) + 1
         /\ Len(s) \in Nat /\ DOMAIN s = 1 .. Len(s) /\ DOMAIN Append(s, x) = 1 .. Len(s) + 1
         /\ \A k \in DOMAIN s : Append(s, x)[k] = s[k]
         /\ Append(s, x)[Len(s) + 1] = x
<1> DEFINE S == {s[j] : j \in DOMAIN s} \cup {x}
           t == Append(s, x)
<1>1. Len(s) \in Nat /\ DOMAIN s = 1 .. Len(s) /\ s \in [1 .. Len(s) -> S]
  BY ListFacts
<1>2. x \in S
  OBVIOUS
<1> HIDE DEF S
<1>3. s \in Seq(S)
  BY <1>1, SeqDef
<1>4. /\ t \in Seq(S) /\ Len(t) = Len(s) + 1
      /\ \A k \in 1 .. Len(s) : t[k] = s[k]
      /\ t[Len(s) + 1] = x
  BY <1>2, <1>3, AppendProperties
<1>5. DOMAIN t = 1 .. Len(t) /\ t \in [1 .. Len(t) -> S]
  BY <1>4, LenProperties
<1> HIDE DEF t
<1>6. t = [k \in 1 .. Len(s) + 1 |-> t[k]]
  BY <1>4, <1>5
<1>7. IsList(t)
  <2>1. Len(s) + 1 \in Nat
    BY <1>1
  <2> QED BY <1>6, <2>1, ListMade
<1> QED BY <1>1, <1>4, <1>5, <1>7 DEF t

Grows(a, x, C, n, g) ==
  g = [k \in 0 .. n |-> IF k = 0 THEN a ELSE IF k \in C THEN Append(g[k - 1], x[k]) ELSE g[k - 1]]

LEMMA GrowthExists ==
  ASSUME NEW a, NEW x, NEW C, NEW n \in Nat
  PROVE  \E g : Grows(a, x, C, n, g)
<1> DEFINE S == {m \in Nat : \E g : Grows(a, x, C, m, g)}
<1>1. 0 \in S
  <2> DEFINE h == [k \in 0 .. 0 |-> a]
  <2>1. Grows(a, x, C, 0, h)
    BY DEF Grows
  <2> QED BY <2>1
<1>2. ASSUME NEW m \in Nat, m \in S PROVE m + 1 \in S
  <2>1. PICK h : Grows(a, x, C, m, h)
    BY <1>2
  <2>e. PICK e : e = IF m + 1 \in C THEN Append(h[m], x[m + 1]) ELSE h[m]
    OBVIOUS
  <2> DEFINE g == [k \in 0 .. m + 1 |-> IF k <= m THEN h[k] ELSE e]
  <2>2. \A k \in 0 .. m : g[k] = h[k]
    OBVIOUS
  <2>3. ASSUME NEW k \in 0 .. m + 1
        PROVE  g[k] = IF k = 0 THEN a ELSE IF k \in C THEN Append(g[k - 1], x[k]) ELSE g[k - 1]
    <3>1. CASE k <= m
      <4>1. k \in 0 .. m /\ (k # 0 => k - 1 \in 0 .. m)
        BY <3>1
      <4>2. h[k] = IF k = 0 THEN a ELSE IF k \in C THEN Append(h[k - 1], x[k]) ELSE h[k - 1]
        BY <2>1, <4>1 DEF Grows
      <4> HIDE DEF g
      <4> QED BY <2>2, <4>1, <4>2
    <3>2. CASE ~(k <= m)
      <4>1. k = m + 1 /\ k # 0 /\ k - 1 = m /\ m \in 0 .. m
        BY <3>2
      <4>2. g[k] = e
        BY <4>1
      <4> HIDE DEF g
      <4> QED BY <2>e, <2>2, <4>1, <4>2
    <3> QED BY <3>1, <3>2
  <2>4. g = [k \in 0 .. m + 1 |-> g[k]]
    OBVIOUS
  <2> HIDE DEF g
  <2>5. Grows(a, x, C, m + 1, g)
    BY <2>3, <2>4 DEF Grows
  <2> QED BY <2>5
<1> HIDE DEF S
<1>3. Nat \subseteq S
  BY <1>1, <1>2, AllNaturals
<1> QED BY <1>3 DEF S

(* What has grown begins with what was there, and the rest is of the other *)
(* list.                                                                   *)
Grown(a, x, C, n, s) ==
  /\ IsList(s) /\ Len(a) <= Len(s)
  /\ \A j \in DOMAIN a : s[j] = a[j]
  /\ \A j \in DOMAIN s : j \in DOMAIN a \/ \E k \in 1 .. n : k \in C /\ s[j] = x[k]

LEMMA GrowthFacts ==
  ASSUME NEW a, IsList(a), NEW x, NEW C, NEW n \in Nat, NEW g, Grows(a, x, C, n, g)
  PROVE  Grown(a, x, C, n, g[n])
<1> DEFINE S == {m \in Nat : m <= n => Grown(a, x, C, m, g[m])}
<1>1. \A k \in 0 .. n :
        g[k] = IF k = 0 THEN a ELSE IF k \in C THEN Append(g[k - 1], x[k]) ELSE g[k - 1]
  BY DEF Grows
<1>2. 0 \in S
  <2>1. g[0] = a
    BY <1>1
  <2>2. Len(a) \in Nat
    BY ListFacts
  <2> QED BY <2>1, <2>2 DEF Grown
<1>3. ASSUME NEW m \in Nat, m \in S PROVE m + 1 \in S
  <2> SUFFICES ASSUME m + 1 <= n PROVE Grown(a, x, C, m + 1, g[m + 1])
    OBVIOUS
  <2>s. PICK s : s = g[m]
    OBVIOUS
  <2>t. PICK t : t = g[m + 1]
    OBVIOUS
  <2>1. Grown(a, x, C, m, s)
    BY <1>3, <2>s
  <2>2. t = IF m + 1 \in C THEN Append(s, x[m + 1]) ELSE s
    <3>1. m + 1 \in 0 .. n /\ m + 1 # 0 /\ (m + 1) - 1 = m
      OBVIOUS
    <3> QED BY <1>1, <2>s, <2>t, <3>1
  <2>3. \A k \in 1 .. m : k \in 1 .. m + 1
    OBVIOUS
  <2>4. CASE m + 1 \notin C
    BY <2>1, <2>2, <2>3, <2>4, <2>t DEF Grown
  <2>5. CASE m + 1 \in C
    <3>e. PICK e : e = x[m + 1]
      OBVIOUS
    <3>1. /\ IsList(t) /\ Len(t) = Len(s) + 1
          /\ Len(s) \in Nat /\ DOMAIN s = 1 .. Len(s) /\ DOMAIN t = 1 .. Len(s) + 1
          /\ \A k \in DOMAIN s : t[k] = s[k]
          /\ t[Len(s) + 1] = e
      <4>1. IsList(s) /\ t = Append(s, e)
        BY <2>1, <2>2, <2>5, <3>e DEF Grown
      <4> QED BY <4>1, ListAppend
    <3>2. Len(a) \in Nat /\ DOMAIN a = 1 .. Len(a) /\ Len(a) <= Len(s)
      BY <2>1, ListFacts DEF Grown
    <3>3. \A j \in DOMAIN a : t[j] = a[j]
      BY <2>1, <3>1, <3>2 DEF Grown
    <3>4. ASSUME NEW j \in DOMAIN t
          PROVE  j \in DOMAIN a \/ \E k \in 1 .. m + 1 : k \in C /\ t[j] = x[k]
      <4>1. CASE j \in DOMAIN s
        BY <2>1, <2>3, <3>1, <4>1 DEF Grown
      <4>2. CASE j \notin DOMAIN s
        <5>1. j = Len(s) + 1
          BY <3>1, <4>2
        <5>2. m + 1 \in 1 .. m + 1
          OBVIOUS
        <5> QED BY <2>5, <3>1, <3>e, <5>1, <5>2
      <4> QED BY <4>1, <4>2
    <3>5. Len(a) <= Len(t)
      BY <3>1, <3>2
    <3> QED BY <2>t, <3>1, <3>3, <3>4, <3>5 DEF Grown
  <2> QED BY <2>4, <2>5
<1>4. Nat \subseteq S
  <2> HIDE DEF S
  <2> QED BY <1>2, <1>3, AllNaturals
<1> QED BY <1>4

LEMMA VtableGrown ==
  ASSUME NEW f, IsList(OwnVirtual(f)), IsList(Inherited(f, "vtable"))
  PROVE  \E C : /\ \A k \in C : SameEntry(f, OwnVirtual(f)[k]) = {}
                /\ Grown(Inherited(f, "vtable"), OwnVirtual(f), C, Len(OwnVirtual(f)), Vtable(f))
<1>o. PICK own : own = OwnVirtual(f)
  OBVIOUS
<1>a. PICK a : a = Inherited(f, "vtable")
  OBVIOUS
<1>n. PICK n \in Nat : n = Len(own)
  BY <1>o, ListFacts
<1>c. PICK C : C = {k \in 0 .. n : SameEntry(f, own[k]) = {}}
  OBVIOUS
<1> DEFINE G(g) == g = [k \in 0 .. n |-> IF k = 0 THEN a
                                        ELSE IF SameEntry(f, own[k]) = {} THEN Append(g[k - 1], own[k])
                                        ELSE g[k - 1]]
           r == CHOOSE g : G(g)
<1>1. \A g : G(g) <=> Grows(a, own, C, n, g)
  BY <1>c DEF Grows
<1>2. \E g : G(g)
  BY <1>1, GrowthExists
<1>3. G(r)
  BY <1>2
<1>4. Vtable(f) = r[n]
  BY <1>o, <1>a, <1>n DEF Vtable
<1> HIDE DEF r, G
<1>5. Grown(a, own, C, n, r[n])
  <2>1. Grows(a, own, C, n, r)
    BY <1>1, <1>3
  <2> QED BY <1>a, <2>1, GrowthFacts
<1> QED BY <1>4, <1>5, <1>o, <1>a, <1>n, <1>c

-----------------------------------------------------------------------------
(* The handles of a new class.                                             *)

(* Assignments to handles of methods and fields.                           *)
Members(s) == IsList(s) /\ \A k \in DOMAIN s : s[k][1][1] # "class"

LEMMA MembersJoined ==
  ASSUME NEW s, NEW t, Members(s), Members(t), NEW w, Joined(s, t, w)
  PROVE  Members(w)
<1>1. /\ IsList(w)
      /\ \A k \in DOMAIN s : k \in DOMAIN w /\ w[k] = s[k]
      /\ \A k \in DOMAIN t : Len(s) + k \in DOMAIN w /\ w[Len(s) + k] = t[k]
      /\ \A k \in DOMAIN w : k \in DOMAIN s \/ \E i \in DOMAIN t : k = Len(s) + i
  BY JoinedFacts DEF Members
<1>2. ASSUME NEW k \in DOMAIN w PROVE w[k][1][1] # "class"
  <2>1. k \in DOMAIN s \/ \E i \in DOMAIN t : k = Len(s) + i
    BY <1>1
  <2>2. CASE k \in DOMAIN s
    BY <1>1, <2>2 DEF Members
  <2>3. CASE \E i \in DOMAIN t : k = Len(s) + i
    <3>1. PICK i \in DOMAIN t : k = Len(s) + i
      BY <2>3
    <3>2. w[k] = t[i]
      BY <1>1, <3>1
    <3> QED BY <3>2 DEF Members
  <2> QED BY <2>1, <2>2, <2>3
<1> QED BY <1>1, <1>2 DEF Members

(* After the handles of its members, that of the class itself.             *)
LEMMA ClassBound ==
  ASSUME NEW a, Members(a), NEW x, NEW v, NEW s, Joined(a, <<<<<<"class", x>>, v>>>>, s),
         NEW t, NEW u, u = BindAll(t, s)
  PROVE  /\ <<"class", x>> \in DOMAIN u /\ u[<<"class", x>>] = v
         /\ \A h : h[1] = "class" /\ h # <<"class", x>> =>
              (h \in DOMAIN u <=> h \in DOMAIN t) /\ (h \in DOMAIN t => u[h] = t[h])
<1>e. PICK e : e = <<<<"class", x>>, v>>
  OBVIOUS
<1>k. PICK key : key = <<"class", x>>
  OBVIOUS
<1>0. e[1] = key /\ e[2] = v /\ key[1] = "class"
  BY <1>e, <1>k
<1>b. PICK b : b = <<e>>
  OBVIOUS
<1>1. IsList(b) /\ Len(b) = 1 /\ b[1] = e /\ DOMAIN b = {1}
  <2>1. IsList(<<e>>) /\ Len(<<e>>) = 1 /\ <<e>>[1] = e /\ DOMAIN <<e>> = {1}
    BY ListOne
  <2> QED BY <2>1, <1>b
<1>2. Joined(a, b, s)
  BY <1>e, <1>b
<1>3. /\ IsList(s) /\ Len(a) \in Nat /\ DOMAIN a = 1 .. Len(a)
      /\ \A k \in DOMAIN a : k \in DOMAIN s /\ s[k] = a[k]
      /\ \A k \in DOMAIN b : Len(a) + k \in DOMAIN s /\ s[Len(a) + k] = b[k]
      /\ \A k \in DOMAIN s : k \in DOMAIN a \/ \E i \in DOMAIN b : k = Len(a) + i
  BY <1>1, <1>2, JoinedFacts DEF Members
<1>m. PICK m \in Nat : m = Len(a) + 1
  BY <1>3
<1>4. m \in DOMAIN s /\ s[m] = e
  BY <1>1, <1>3, <1>m
<1>5. \A k \in DOMAIN s : k = m \/ (k \in DOMAIN a /\ s[k] = a[k] /\ k < m)
  BY <1>1, <1>3, <1>m
<1>6. \A k \in DOMAIN s : s[k][1] = key => k = m
  BY <1>0, <1>5 DEF Members
<1>7. u[key] = v
  <2>1. s[m][1] = key /\ \A j \in DOMAIN s : j > m => s[j][1] # key
    BY <1>0, <1>4, <1>6, <1>m
  <2>2. BindAll(t, s)[key] = s[m][2]
    BY <1>3, <1>4, <2>1, BindAllLast
  <2> QED BY <1>0, <1>4, <2>2
<1>8. \A h \in Keys(s) : h[1] = "class" => h = key
  BY <1>0, <1>4, <1>5 DEF Keys, Members
<1>9. key \in Keys(s)
  BY <1>0, <1>4 DEF Keys
<1>10. key \in DOMAIN u
  BY <1>9, BindAllDomain
<1>11. ASSUME NEW h, h[1] = "class", h # key
       PROVE  (h \in DOMAIN u <=> h \in DOMAIN t) /\ (h \in DOMAIN t => u[h] = t[h])
  <2>1. h \notin Keys(s)
    BY <1>8, <1>11
  <2> QED BY <2>1, BindAllDomain, BindAllOther
<1> QED BY <1>7, <1>10, <1>11, <1>k

LEMMA InheritMembers ==
  ASSUME NEW f, NEW kind, kind # "class", NEW s, IsList(s)
  PROVE  Members(Inherit(f, kind, s))
<1>l. PICK l : l = Inherit(f, kind, s)
  OBVIOUS
<1>1. Len(s) \in Nat /\ DOMAIN s = 1 .. Len(s)
  BY ListFacts
<1>2. /\ l = [k \in 1 .. Len(s) |-> l[k]]
      /\ \A k \in 1 .. Len(s) : l[k][1][1] = kind
  BY <1>1, <1>l DEF Inherit
<1>3. IsList(l) /\ DOMAIN l = 1 .. Len(s)
  BY <1>1, <1>2, ListMade
<1> QED BY <1>2, <1>3, <1>l DEF Members

LEMMA DeclareMembers ==
  ASSUME NEW kind, kind # "class", NEW s, IsList(s), NEW n
  PROVE  Members(Declare(kind, s, n))
<1>l. PICK l : l = Declare(kind, s, n)
  OBVIOUS
<1>1. Len(s) \in Nat /\ DOMAIN s = 1 .. Len(s)
  BY ListFacts
<1>2. /\ l = [k \in 1 .. Len(s) |-> l[k]]
      /\ \A k \in 1 .. Len(s) : l[k][1][1] = kind
  BY <1>1, <1>l DEF Declare
<1>3. IsList(l) /\ DOMAIN l = 1 .. Len(s)
  BY <1>1, <1>2, ListMade
<1> QED BY <1>2, <1>3, <1>l DEF Members

(* The lists that a class is made of.                                      *)
Parts(f) ==
  /\ \A tbl \in Tables : IsList(Inherited(f, tbl))
  /\ \A s \in {OwnDirect(f), OwnVirtual(f), OwnFields(f, "static"), OwnFields(f, "instance")} : IsList(s)

LEMMA FourJoined ==
  ASSUME NEW a, NEW b, NEW c, NEW d, Members(a), Members(b), Members(c), Members(d)
  PROVE  Members(a \o b \o c \o d)
<1>1. PICK x : Joined(a, b, x)
  BY DEF Joined
<1>2. PICK y : Joined(x, c, y)
  BY DEF Joined
<1>3. PICK z : Joined(y, d, z)
  BY DEF Joined
<1>4. Members(x)
  BY <1>1, MembersJoined
<1>5. Members(y)
  BY <1>2, <1>4, MembersJoined
<1>6. Members(z)
  BY <1>3, <1>5, MembersJoined
<1> QED BY <1>1, <1>2, <1>3, <1>6 DEF Joined

LEMMA JvmHandlesMade ==
  ASSUME NEW f, Parts(f)
  PROVE  \E a : Members(a) /\ Joined(a, <<<<<<"class", ClassJvm(f.hdl)>>, Len(classes) + 1>>>>, JvmHandles(f))
<1>1. Members(FieldHandles(f))
  <2>a. PICK a : a = Inherit(f, "field", Inherited(f, "static"))
    OBVIOUS
  <2>b. PICK b : b = Declare("field", OwnFields(f, "static"), Len(fields))
    OBVIOUS
  <2>c. PICK c : c = Inherit(f, "field", Inherited(f, "instance"))
    OBVIOUS
  <2>d. PICK d : d = Declare("field", OwnFields(f, "instance"), Len(fields) + Len(OwnFields(f, "static")))
    OBVIOUS
  <2>1. Members(a) /\ Members(b) /\ Members(c) /\ Members(d)
    BY <2>a, <2>b, <2>c, <2>d, InheritMembers, DeclareMembers DEF Parts, Tables
  <2>2. Members(a \o b \o c \o d)
    BY <2>1, FourJoined
  <2> QED BY <2>2, <2>a, <2>b, <2>c, <2>d DEF FieldHandles
<1>2. Members(MethodHandles(f))
  <2>a. PICK a : a = Inherit(f, "method", Inherited(f, "dtable"))
    OBVIOUS
  <2>b. PICK b : b = Declare("method", OwnDirect(f), Len(methods))
    OBVIOUS
  <2>c. PICK c : c = Inherit(f, "method", Inherited(f, "vtable"))
    OBVIOUS
  <2>d. PICK d : d = Declare("method", OwnVirtual(f), Len(methods) + Len(OwnDirect(f)))
    OBVIOUS
  <2>1. Members(a) /\ Members(b) /\ Members(c) /\ Members(d)
    BY <2>a, <2>b, <2>c, <2>d, InheritMembers, DeclareMembers DEF Parts, Tables
  <2>2. Members(a \o b \o c \o d)
    BY <2>1, FourJoined
  <2> QED BY <2>2, <2>a, <2>b, <2>c, <2>d DEF MethodHandles
<1>p. PICK p : p = FieldHandles(f)
  OBVIOUS
<1>q. PICK q : q = MethodHandles(f)
  OBVIOUS
<1>3. PICK a : Joined(p, q, a)
  BY DEF Joined
<1>4. Members(a)
  BY <1>1, <1>2, <1>3, <1>p, <1>q, MembersJoined
<1>5. Joined(a, <<<<<<"class", ClassJvm(f.hdl)>>, Len(classes) + 1>>>>, JvmHandles(f))
  BY <1>3, <1>p, <1>q DEF Joined, JvmHandles
<1> QED BY <1>4, <1>5

LEMMA NumberedMembers ==
  ASSUME NEW kind, kind # "class", NEW s, IsList(s), NEW n
  PROVE  Members([k \in DOMAIN s |-> <<<<kind, s[k]>>, n + k>>])
<1>l. PICK l : l = [k \in DOMAIN s |-> <<<<kind, s[k]>>, n + k>>]
  OBVIOUS
<1>1. Len(s) \in Nat /\ DOMAIN s = 1 .. Len(s)
  BY ListFacts
<1>2. /\ l = [k \in 1 .. Len(s) |-> l[k]]
      /\ \A k \in 1 .. Len(s) : l[k][1][1] = kind
  BY <1>1, <1>l
<1>3. IsList(l) /\ DOMAIN l = 1 .. Len(s)
  BY <1>1, <1>2, ListMade
<1> QED BY <1>2, <1>3, <1>l DEF Members

LEMMA DexHandlesMade ==
  ASSUME NEW f, Parts(f)
  PROVE  \E a : Members(a) /\ Joined(a, <<<<<<"class", f.hdl>>, Len(classes) + 1>>>>, DexHandles(f))
<1>m. PICK ms : ms = OwnDirect(f) \o OwnVirtual(f)
  OBVIOUS
<1>f. PICK fs : fs = OwnFields(f, "static") \o OwnFields(f, "instance")
  OBVIOUS
<1>1. IsList(ms) /\ IsList(fs)
  BY <1>m, <1>f, ListConcat DEF Parts
<1>p. PICK p : p = [k \in DOMAIN ms |-> <<<<"method", ms[k]>>, Len(methods) + k>>]
  OBVIOUS
<1>q. PICK q : q = [k \in DOMAIN fs |-> <<<<"field", fs[k]>>, Len(fields) + k>>]
  OBVIOUS
<1>2. Members(p) /\ Members(q)
  BY <1>1, <1>p, <1>q, NumberedMembers
<1>3. PICK a : Joined(p, q, a)
  BY DEF Joined
<1>4. Members(a)
  BY <1>2, <1>3, MembersJoined
<1>5. Joined(a, <<<<<<"class", f.hdl>>, Len(classes) + 1>>>>, DexHandles(f))
  BY <1>3, <1>p, <1>q, <1>m, <1>f DEF Joined, DexHandles
<1> QED BY <1>4, <1>5

LEMMA PartsMade ==
  ASSUME IInv, Runs("load"), NEW f, f = Top, f.want = <<>>
  PROVE  /\ Parts(f) /\ WellFormed(DefOf(f.hdl))
         /\ SuperOf(f) \in 0 .. Len(classes)
<1>1. stack # <<>> /\ f.op = "load" /\ LoadFrame(f) /\ FrameInv(f) /\ OpenFrame(jvm, f)
  BY LoadTop
<1>d. PICK d : d = DefOf(f.hdl)
  OBVIOUS
<1>h. PICK h : h = f.hdl
  OBVIOUS
<1>2. WellFormed(d)
  <2>1. Defines(h[1], h[2], h[3])
    BY <1>1, <1>h DEF LoadFrame
  <2>2. WellFormed(DefOf(h))
    BY <2>1, DefinitionFacts DEF IInv
  <2> QED BY <1>d, <1>h, <2>2
<1>3. IsList(d.super) /\ IsList(d.interfaces) /\ IsList(d.static) /\ IsList(d.instance) /\ IsList(d.direct) /\ IsList(d.virtual)
  BY <1>2 DEF WellFormed
<1>n. PICK n \in Nat : n = Len(classes)
  BY ListFacts DEF IInv, ClassInv
<1>4. SuperOf(f) \in 0 .. n
  <2>1. CASE d.super = <<>>
    BY <1>d, <2>1 DEF SuperOf
  <2>2. CASE d.super # <<>>
    <3>1. Len(d.super) \in Nat /\ Len(d.super) # 0 /\ Len(d.interfaces) \in Nat
      BY <1>3, <2>2, ListFacts
    <3>2. f.got \in Seq(1 .. n) /\ Len(f.got) + Len(f.want) = Len(d.super) + Len(d.interfaces)
      BY <1>1, <1>d, <1>n DEF LoadFrame
    <3>3. Len(f.want) = 0
      <4>1. IsList(f.want)
        BY <1>1 DEF LoadFrame
      <4> QED BY <4>1, ListFacts
    <3>4. Len(f.got) \in Nat
      BY <3>2, LenProperties
    <3>5. 1 \in 1 .. Len(f.got)
      <4>1. \A g, i, j \in Nat : i # 0 /\ g + 0 = i + j => 1 \in 1 .. g
        OBVIOUS
      <4>2. Len(f.got) + 0 = Len(d.super) + Len(d.interfaces)
        BY <3>2, <3>3
      <4> QED BY <3>1, <3>4, <4>1, <4>2
    <3>6. f.got[1] \in 1 .. n
      BY <3>2, <3>5, ElementOfSeq
    <3> QED BY <1>d, <2>2, <3>6 DEF SuperOf
  <2> QED BY <2>1, <2>2
<1>5. ASSUME NEW tbl \in Tables PROVE IsList(Inherited(f, tbl))
  <2>1. CASE Inherits(f)
    <3>1. SuperOf(f) \in 1 .. Len(classes)
      BY <1>4, <1>n, <2>1 DEF Inherits
    <3> QED BY <2>1, <3>1 DEF Inherited, IInv, ClassInv
  <2>2. CASE ~Inherits(f)
    <3>1. <<>> = [k \in 1 .. 0 |-> <<>>[k]]
      OBVIOUS
    <3>2. IsList(<<>>)
      BY <3>1, ListMade
    <3> QED BY <2>2, <3>2 DEF Inherited
  <2> QED BY <2>1, <2>2
<1>6. IsList(OwnDirect(f))
  <2>s. PICK s : s = OwnDirect(f)
    OBVIOUS
  <2>1. Len(d.direct) \in Nat /\ DOMAIN d.direct = 1 .. Len(d.direct)
    BY <1>3, ListFacts
  <2>2. s = [k \in 1 .. Len(d.direct) |-> s[k]]
    BY <1>d, <2>1, <2>s DEF OwnDirect
  <2> QED BY <2>1, <2>2, <2>s, ListMade
<1>7. IsList(OwnVirtual(f))
  <2>s. PICK s : s = OwnVirtual(f)
    OBVIOUS
  <2>1. Len(d.virtual) \in Nat /\ DOMAIN d.virtual = 1 .. Len(d.virtual)
    BY <1>3, ListFacts
  <2>2. s = [k \in 1 .. Len(d.virtual) |-> s[k]]
    BY <1>d, <2>1, <2>s DEF OwnVirtual
  <2> QED BY <2>1, <2>2, <2>s, ListMade
<1>8. ASSUME NEW tbl \in {"static", "instance"} PROVE IsList(OwnFields(f, tbl))
  <2>s. PICK s : s = OwnFields(f, tbl)
    OBVIOUS
  <2>1. Len(d[tbl]) \in Nat /\ DOMAIN d[tbl] = 1 .. Len(d[tbl])
    BY <1>3, <1>8, ListFacts
  <2>2. s = [k \in 1 .. Len(d[tbl]) |-> s[k]]
    BY <1>d, <2>1, <2>s DEF OwnFields
  <2> QED BY <2>1, <2>2, <2>s, ListMade
<1>9. Parts(f)
  BY <1>5, <1>6, <1>7, <1>8 DEF Parts
<1> QED BY <1>2, <1>4, <1>9, <1>d, <1>n

LEMMA NewClassMade ==
  ASSUME NEW f, Parts(f), NEW tbl \in Tables
  PROVE  IsList(NewClass(f)[tbl])
<1>1. CASE tbl = "static"
  <2>1. NewClass(f)[tbl] = Inherited(f, "static") \o OwnFields(f, "static")
    BY <1>1 DEF NewClass
  <2> QED BY <2>1, ListConcat DEF Parts, Tables
<1>2. CASE tbl = "instance"
  <2>1. NewClass(f)[tbl] = Inherited(f, "instance") \o OwnFields(f, "instance")
    BY <1>2 DEF NewClass
  <2> QED BY <2>1, ListConcat DEF Parts, Tables
<1>3. CASE tbl = "dtable"
  <2>1. NewClass(f)[tbl] = Inherited(f, "dtable") \o OwnDirect(f)
    BY <1>3 DEF NewClass
  <2> QED BY <2>1, ListConcat DEF Parts, Tables
<1>4. CASE tbl = "vtable"
  <2>1. NewClass(f)[tbl] = Vtable(f)
    BY <1>4 DEF NewClass
  <2>2. IsList(Vtable(f))
    <3>1. IsList(OwnVirtual(f)) /\ IsList(Inherited(f, "vtable"))
      BY DEF Parts, Tables
    <3> QED BY <3>1, VtableGrown DEF Grown
  <2> QED BY <2>1, <2>2
<1> QED BY <1>1, <1>2, <1>3, <1>4 DEF Tables

(* What the tables say of classes after Define.                            *)
LEMMA DefineBinds ==
  ASSUME IInv, Define, NEW f, f = Top
  PROVE  /\ ClassKey(f.hdl[1], f.hdl[3]) \in DOMAIN jvm'
         /\ jvm'[ClassKey(f.hdl[1], f.hdl[3])] = Len(classes) + 1
         /\ \A x : x[1] = "class" /\ x # ClassKey(f.hdl[1], f.hdl[3]) =>
              (x \in DOMAIN jvm' <=> x \in DOMAIN jvm) /\ (x \in DOMAIN jvm => jvm'[x] = jvm[x])
         /\ <<"class", f.hdl>> \in DOMAIN dex' /\ dex'[<<"class", f.hdl>>] = Len(classes) + 1
         /\ \A x : x[1] = "class" /\ x # <<"class", f.hdl>> =>
              (x \in DOMAIN dex' <=> x \in DOMAIN dex) /\ (x \in DOMAIN dex => dex'[x] = dex[x])
<1>1. Parts(f)
  BY PartsMade DEF Define
<1>2. jvm' = BindAll(jvm, JvmHandles(f)) /\ dex' = BindAll(dex, DexHandles(f))
  BY DEF Define
<1>v. PICK v : v = Len(classes) + 1
  OBVIOUS
<1>x. PICK x : x = ClassJvm(f.hdl)
  OBVIOUS
<1>h. PICK h : h = f.hdl
  OBVIOUS
<1>s. PICK s : s = JvmHandles(f)
  OBVIOUS
<1>r. PICK r : r = DexHandles(f)
  OBVIOUS
<1>3. PICK a : Members(a) /\ Joined(a, <<<<<<"class", x>>, v>>>>, s)
  BY <1>1, <1>v, <1>x, <1>s, JvmHandlesMade
<1>4. PICK b : Members(b) /\ Joined(b, <<<<<<"class", h>>, v>>>>, r)
  BY <1>1, <1>v, <1>h, <1>r, DexHandlesMade
<1>5. /\ <<"class", x>> \in DOMAIN jvm' /\ jvm'[<<"class", x>>] = v
      /\ \A y : y[1] = "class" /\ y # <<"class", x>> =>
           (y \in DOMAIN jvm' <=> y \in DOMAIN jvm) /\ (y \in DOMAIN jvm => jvm'[y] = jvm[y])
  <2>1. jvm' = BindAll(jvm, s)
    BY <1>2, <1>s
  <2> QED BY ONLY <1>3, <2>1, ClassBound
<1>6. /\ <<"class", h>> \in DOMAIN dex' /\ dex'[<<"class", h>>] = v
      /\ \A y : y[1] = "class" /\ y # <<"class", h>> =>
           (y \in DOMAIN dex' <=> y \in DOMAIN dex) /\ (y \in DOMAIN dex => dex'[y] = dex[y])
  <2>1. dex' = BindAll(dex, r)
    BY <1>2, <1>r
  <2> QED BY ONLY <1>4, <2>1, ClassBound
<1>7. <<"class", x>> = ClassKey(f.hdl[1], f.hdl[3])
  BY <1>x DEF ClassKey, ClassJvm
<1> QED BY <1>5, <1>6, <1>7, <1>v, <1>h

LEMMA DefineStep ==
  ASSUME IInv, Define
  PROVE  IInv' /\ NothingMoves
<1>f. PICK f : f = Top
  OBVIOUS
<1>h. PICK h : h = f.hdl
  OBVIOUS
<1>n. PICK n \in Nat : n = Len(classes)
  BY ListFacts DEF IInv, ClassInv
<1>1. stack # <<>> /\ f.op = "load" /\ LoadFrame(f) /\ OpenFrame(jvm, f)
  BY <1>f, LoadTop DEF Define
<1>2. f.want = <<>>
  BY <1>f DEF Define
<1>3. h = <<h[1], h[2], h[3]>>
  <2>1. PICK a, b, c, w, g : f = [op |-> "load", hdl |-> <<a, b, c>>, want |-> w, got |-> g]
    BY <1>1 DEF LoadFrame
  <2> QED BY <1>h, <2>1
<1>4. Parts(f)
  BY <1>f, <1>2, PartsMade DEF Define
<1>k. PICK key : key = ClassKey(h[1], h[3])
  OBVIOUS
<1>d. PICK dkey : dkey = <<"class", h>>
  OBVIOUS
<1>0. key[1] = "class" /\ dkey[1] = "class" /\ dkey[2] = h /\ key = <<"class", ClassJvm(h)>>
  BY <1>k, <1>d DEF ClassKey, ClassJvm
<1>5. /\ key \in DOMAIN jvm' /\ jvm'[key] = n + 1
      /\ \A x : x[1] = "class" /\ x # key =>
           (x \in DOMAIN jvm' <=> x \in DOMAIN jvm) /\ (x \in DOMAIN jvm => jvm'[x] = jvm[x])
      /\ dkey \in DOMAIN dex' /\ dex'[dkey] = n + 1
      /\ \A x : x[1] = "class" /\ x # dkey =>
           (x \in DOMAIN dex' <=> x \in DOMAIN dex) /\ (x \in DOMAIN dex => dex'[x] = dex[x])
  BY <1>f, <1>h, <1>n, <1>k, <1>d, DefineBinds
<1>6. key \notin DOMAIN jvm
  BY <1>1, <1>h, <1>k DEF OpenFrame, Unbound
<1>7. dkey \notin DOMAIN dex
  BY <1>0, <1>6 DEF IInv, ClassInv
<1>c. PICK c : c = NewClass(f)
  OBVIOUS
<1>8. /\ classes' = Append(classes, c) /\ world' = world
      /\ stack' = Tail(stack) /\ returned' = TRUE /\ ret' = n + 1
  BY <1>f, <1>c, <1>n DEF Define, Return
<1>9. /\ IsList(classes') /\ Len(classes') = n + 1
      /\ \A v \in 1 .. n : classes'[v] = classes[v]
      /\ classes'[n + 1] = c
  <2>1. /\ IsList(Append(classes, c)) /\ Len(Append(classes, c)) = Len(classes) + 1
        /\ Len(classes) \in Nat /\ DOMAIN classes = 1 .. Len(classes)
        /\ \A k \in DOMAIN classes : Append(classes, c)[k] = classes[k]
        /\ Append(classes, c)[Len(classes) + 1] = c
    BY ListAppend DEF IInv, ClassInv
  <2> QED BY <1>8, <1>n, <2>1
<1>10. NothingMoves
  <2>1. Kept(jvm, jvm') /\ Kept(dex, dex')
    BY <1>5, <1>6, <1>7 DEF Kept
  <2>2. \A v \in 1 .. n : v <= n + 1
    OBVIOUS
  <2> QED BY <1>9, <1>n, <2>1, <2>2 DEF NothingMoves
<1>11. ClassInv'
  <2>1. \A v \in 1 .. n + 1 : \A tbl \in Tables : IsList(classes'[v][tbl])
    <3> TAKE v \in 1 .. n + 1
    <3> TAKE tbl \in Tables
    <3>1. CASE v \in 1 .. n
      BY <1>9, <1>n, <3>1 DEF IInv, ClassInv
    <3>2. CASE v \notin 1 .. n
      <4>1. v = n + 1
        BY <3>2
      <4> QED BY <1>4, <1>9, <1>c, <4>1, NewClassMade
    <3> QED BY <3>1, <3>2
  <2>2. \A i \in 1 .. n : i \in 1 .. n + 1
    OBVIOUS
  <2>3. n + 1 \in 1 .. n + 1
    OBVIOUS
  <2>4. ASSUME NEW x \in DOMAIN jvm', x[1] = "class" PROVE jvm'[x] \in 1 .. n + 1
    <3>1. CASE x = key
      BY <1>5, <2>3, <3>1
    <3>2. CASE x # key
      <4>1. x \in DOMAIN jvm /\ jvm'[x] = jvm[x]
        BY <1>5, <2>4, <3>2
      <4>2. jvm[x] \in 1 .. n
        BY <1>n, <2>4, <4>1 DEF IInv, ClassInv
      <4> QED BY <2>2, <4>1, <4>2
    <3> QED BY <3>1, <3>2
  <2>5. ASSUME NEW x \in DOMAIN dex', x[1] = "class"
        PROVE  dex'[x] \in 1 .. n + 1 /\ <<"class", ClassJvm(x[2])>> \in DOMAIN jvm'
    <3>1. CASE x = dkey
      BY <1>0, <1>5, <2>3, <3>1
    <3>2. CASE x # dkey
      <4>1. x \in DOMAIN dex /\ dex'[x] = dex[x]
        BY <1>5, <2>5, <3>2
      <4>y. PICK y : y = <<"class", ClassJvm(x[2])>>
        OBVIOUS
      <4>2. dex[x] \in 1 .. n /\ y \in DOMAIN jvm /\ y[1] = "class"
        BY <1>n, <2>5, <4>1, <4>y DEF IInv, ClassInv
      <4>3. y \in DOMAIN jvm'
        BY <1>5, <4>2
      <4> QED BY <2>2, <4>1, <4>2, <4>3, <4>y
    <3> QED BY <3>1, <3>2
  <2> QED BY <1>9, <2>1, <2>4, <2>5 DEF ClassInv
<1>12. WorldInv'
  BY <1>8 DEF IInv, WorldInv
<1>13. 1 \in DOMAIN stack /\ Top = stack[1] /\ 2 \in DOMAIN stack
  <2>1. 1 \in DOMAIN stack /\ Top = stack[1]
    BY <1>1, TopFacts
  <2>2. 1 + 1 = 2
    OBVIOUS
  <2> QED BY <1>1, <1>f, <2>1, <2>2 DEF IInv, StackInv
<1>g. PICK g : g = stack[2]
  OBVIOUS
<1>14. g.op = "find" /\ g.seen # {} /\ g.jvm[2] = h[3] /\ FindFrame(g)
  <2>1. CalledBy(f, g)
    <3>1. 1 + 1 = 2
      OBVIOUS
    <3> QED BY <1>f, <1>g, <1>13, <3>1 DEF IInv, StackInv
  <2>2. g.op = "find" /\ g.seen # {} /\ g.jvm[2] = h[3]
    BY <1>1, <1>h, <2>1 DEF CalledBy
  <2> QED BY <1>g, <1>13, <2>2 DEF IInv, StackInv, FrameInv
<1>15. \A l, m : ClassKey(l, m) \in DOMAIN jvm' => ClassKey(l, m) \in DOMAIN jvm \/ m = h[3]
  <2> TAKE l, m
  <2> HAVE ClassKey(l, m) \in DOMAIN jvm'
  <2>1. CASE ClassKey(l, m) = key
    BY <1>k, <2>1 DEF ClassKey
  <2>2. CASE ClassKey(l, m) # key
    <3>1. ClassKey(l, m)[1] = "class"
      BY DEF ClassKey
    <3> QED BY <1>5, <2>2, <3>1
  <2> QED BY <2>1, <2>2
<1>16. ASSUME NEW k \in DOMAIN stack, k >= 2
       PROVE  OpenFrame(jvm', stack[k]) \/ (k = 2 /\ stack[k].op = "find" /\ returned' /\ ret' # 0)
  <2>1. CASE k = 2
    <3>1. n + 1 # 0
      OBVIOUS
    <3> QED BY <1>8, <1>14, <1>g, <2>1, <3>1
  <2>2. CASE k # 2
    <3>0. DOMAIN stack = 1 .. Len(stack) /\ Len(stack) \in Nat
      BY ListFacts DEF IInv, StackInv
    <3>1. 2 < k /\ k # 1
      BY <1>16, <2>2, <3>0
    <3>2. OpenFrame(jvm, stack[k])
      BY <3>1 DEF IInv, OpenInv
    <3>3. stack[k].op \in {"find", "load"} => NameOf(stack[k]) # h[3]
      BY <1>13, <1>14, <1>g, <3>1, NamesApart DEF IInv
    <3> QED BY <1>15, <3>2, <3>3, OpenStays
  <2> QED BY <2>1, <2>2
<1>17. StackInv' /\ OpenInv'
  <2>1. n \in Nat /\ n + 1 \in Nat /\ n <= n + 1
    OBVIOUS
  <2>2. world'.file = world.file
    BY <1>8
  <2> QED BY <1>1, <1>8, <1>9, <1>16, <1>n, <2>1, <2>2, ReturnStep DEF IInv
<1>18. AnswerInv'
  <2>1. stack' # <<>> => Top' = g
    <3>1. \A t : t = Tail(stack) /\ t # <<>> => Head(t) = stack[2]
      <4>1. IsList(stack)
        BY DEF IInv, StackInv
      <4> QED BY <1>1, <4>1, StackReturn
    <3> QED BY <1>8, <1>g, <3>1 DEF Top
  <2>a. PICK a : a = g.jvm[1]
    OBVIOUS
  <2>2. g.jvm = <<a, h[3]>>
    <3>1. PICK x, y, z, b, t, s, p : g = [op |-> "find", kind |-> "class", dex |-> x, jvm |-> <<y, z>>,
                                          try |-> b, todo |-> t, seen |-> s, files |-> p]
      BY <1>14 DEF FindFrame
    <3> QED BY <1>14, <2>a, <3>1
  <2>3. g.kind = "class" /\ (g.dex # NoHdl => g.jvm = ClassJvm(g.dex))
    <3>1. PICK x, y, z, b, t, s, p : g = [op |-> "find", kind |-> "class", dex |-> x, jvm |-> <<y, z>>,
                                          try |-> b, todo |-> t, seen |-> s, files |-> p]
      BY <1>14 DEF FindFrame
    <3> QED BY <1>14, <3>1 DEF FindFrame
  <2>j. PICK j : j = <<"class", g.jvm>>
    OBVIOUS
  <2>e. PICK e : e = <<"class", g.dex>>
    OBVIOUS
  <2>4. j[1] = "class" /\ e[1] = "class" /\ e[2] = g.dex /\ j = ClassKey(a, h[3])
    BY <2>j, <2>e, <2>2 DEF ClassKey
  <2>5. j \notin DOMAIN jvm
    <3>1. OpenFrame(jvm, g)
      <4>1. 2 # 1
        OBVIOUS
      <4> QED BY <1>13, <1>g, <4>1 DEF IInv, OpenInv
    <3> QED BY <1>14, <2>4, <2>a, <3>1 DEF OpenFrame, Unbound
  <2>6. g.dex # NoHdl => e \notin DOMAIN dex
    <3>1. e \in DOMAIN dex => <<"class", ClassJvm(g.dex)>> \in DOMAIN jvm
      BY <2>4 DEF IInv, ClassInv
    <3> QED BY <2>3, <2>5, <2>j, <3>1
  <2>7. j \in DOMAIN jvm' => jvm'[j] = ret'
    <3>1. j \in DOMAIN jvm' => j = key
      BY <1>5, <2>4, <2>5
    <3> QED BY <1>5, <1>8, <3>1
  <2>8. g.dex # NoHdl /\ e \in DOMAIN dex' => dex'[e] = ret'
    <3>1. g.dex # NoHdl /\ e \in DOMAIN dex' => e = dkey
      BY <1>5, <2>4, <2>6
    <3> QED BY <1>5, <1>8, <3>1
  <2>9. ret' \in 1 .. Len(classes')
    BY <1>8, <1>9
  <2>10. HasJvm(g)' => jvm'[<<"class", g.jvm>>] = ret'
    BY <2>3, <2>7, <2>j DEF HasJvm
  <2>11. HasDex(g)' /\ g.dex # NoHdl => dex'[<<"class", g.dex>>] = ret'
    BY <2>3, <2>8, <2>e DEF HasDex
  <2> SUFFICES ASSUME returned', stack' # <<>>
               PROVE  /\ Top'.op \in {"find", "load"} /\ ret' # 0 => ret' \in 1 .. Len(classes')
                      /\ Top'.op = "find" => Top'.seen # {}
                      /\ Top'.op = "find" /\ ret' # 0 =>
                           /\ HasJvm(Top)' => jvm'[<<"class", Top'.jvm>>] = ret'
                           /\ HasDex(Top)' /\ Top'.dex # NoHdl => dex'[<<"class", Top'.dex>>] = ret'
                      /\ Top'.op = "member" => Top'.stage = "load"
                      /\ Top'.op = "load" => Top'.want # <<>>
    BY DEF AnswerInv
  <2>12. HasJvm(Top)' = HasJvm(g)' /\ HasDex(Top)' = HasDex(g)'
    BY <2>1 DEF HasJvm, HasDex
  <2> QED BY <1>14, <2>1, <2>9, <2>10, <2>11, <2>12
<1> QED BY <1>10, <1>11, <1>12, <1>17, <1>18 DEF IInv

-----------------------------------------------------------------------------
(* The invariant holds, and nothing that was answered moves.               *)

LEMMA InitInv ==
  ASSUME IInit
  PROVE  IInv
<1>1. /\ world \in Worlds /\ classes = <<>> /\ jvm = <<>> /\ dex = <<>>
      /\ stack = <<>> /\ returned = FALSE
  BY DEF IInit, Init
<1>2. WorldInv
  <2>1. {"loader", "out", "file", "requests", "parent"} \subseteq DOMAIN world
    BY <1>1, WorldsAssumption, ParentsAssumption
  <2>2. world.loader \subseteq DOMAIN world.file
    BY <1>1, WorldsAssumption
  <2> QED BY <1>1, <2>1, <2>2 DEF WorldInv
<1>3. IsList(<<>>) /\ Len(<<>>) = 0 /\ DOMAIN <<>> = {}
  <2>s. PICK s : s = <<>>
    OBVIOUS
  <2>1. s = [k \in 1 .. 0 |-> s[k]] /\ DOMAIN s = {}
    BY <2>s
  <2>2. 0 \in Nat
    OBVIOUS
  <2>3. IsList(s) /\ Len(s) = 0
    BY ONLY <2>1, <2>2, ListMade
  <2> QED BY <2>s, <2>1, <2>3
<1>4. StackInv /\ OpenInv
  BY <1>1, <1>3 DEF StackInv, OpenInv
<1>5. AnswerInv
  BY <1>1 DEF AnswerInv
<1>6. ClassInv
  BY <1>1, <1>3 DEF ClassInv
<1> QED BY <1>2, <1>4, <1>5, <1>6 DEF IInv

LEMMA Step ==
  ASSUME IInv, [INext]_ivars
  PROVE  IInv' /\ NothingMoves
<1>1. CASE Next
  BY <1>1, RequestStep, FindKnownStep, FindNotFound, SkipLoaderStep, FindThereStep, DiscoverStep,
     SkipFileStep, LoadFromFileStep, FindLoadedStep, FindNextStep, LoadSuperStep, SuperLoadedStep,
     DefineStep, MemberKnownStep, MemberLoadStep, MemberNotFound, MemberLoadedStep, MemberSearchStep,
     AllSteps
     DEF Next
<1>2. CASE AddApk
  BY <1>2, AddApkStep
<1>3. CASE AddIntentFlow \/ AddProviderFlow
  <2>1. PICK edges : AddFlow(edges)
    BY <1>3 DEF AddIntentFlow, AddProviderFlow
  <2> QED BY <2>1, AddFlowStep
<1>4. CASE UNCHANGED ivars
  <2>1. /\ UNCHANGED <<world, graphs, tables>> /\ UNCHANGED <<stack, returned, ret>>
    BY <1>4 DEF ivars, vars, result
  <2>2. ClassInv' /\ WorldInv' /\ NothingMoves
    BY <2>1, NothingBound DEF IInv
  <2>3. /\ world' = world /\ classes' = classes /\ jvm' = jvm /\ dex' = dex
        /\ stack' = stack /\ returned' = returned /\ ret' = ret
    BY <2>1 DEF graphs, tables
  <2>4. Quiet
    BY <2>3 DEF Quiet
  <2>5. \A k \in DOMAIN stack : FrameInv(stack[k])'
    <3> TAKE k \in DOMAIN stack
    <3>f. PICK f : f = stack[k]
      OBVIOUS
    <3>1. FrameInv(f)
      BY <3>f DEF IInv, StackInv
    <3>2. FrameInv(f)'
      BY <2>4, <3>1, QuietFrame DEF IInv
    <3> QED BY <2>3, <3>2, <3>f
  <2>6. StackInv'
    BY <2>3, <2>5 DEF IInv, StackInv
  <2>7. OpenInv' /\ AnswerInv'
    BY <2>3 DEF IInv, OpenInv, AnswerInv, Top, HasJvm, HasDex
  <2> QED BY <2>2, <2>6, <2>7 DEF IInv
<1> QED BY <1>1, <1>2, <1>3, <1>4 DEF INext

LEMMA Invariant == ISpec => []IInv
<1>1. IInit => IInv
  BY InitInv
<1>2. IInv /\ [INext]_ivars => IInv'
  BY Step
<1> QED BY <1>1, <1>2, PTL DEF ISpec

(* No call that is in progress, however deep, and no call that comes after *)
(* it moves the handle of a class from one vertex to another, in any       *)
(* arrangement of loaders and files and with any edges that intents and    *)
(* content providers add (virtual_machine.cpp, find_class, and             *)
(* dex_file.cpp, load_class).                                              *)
THEOREM HandlesStay == ISpec => HandlesNeverMove
<1>1. IInv /\ [INext]_ivars =>
        [ /\ \A h \in DOMAIN jvm : h[1] = "class" => h \in DOMAIN jvm' /\ jvm'[h] = jvm[h]
          /\ \A h \in DOMAIN dex : h[1] = "class" => h \in DOMAIN dex' /\ dex'[h] = dex[h]
          /\ \A v \in 1 .. Len(classes) : v <= Len(classes') /\ classes'[v] = classes[v] ]_vars
  BY Step DEF NothingMoves, Kept
<1> QED BY <1>1, Invariant, PTL DEF ISpec, HandlesNeverMove

-----------------------------------------------------------------------------
(* The vertices and their defining handles.                                *)

(* A class hides an inherited member if it declares a static field with    *)
(* the name of an inherited instance field, or a direct method with that   *)
(* of an inherited virtual one: load_class registers the inherited member  *)
(* last (dex_file.cpp:321-335, 373-432).                                   *)
Names(s) == {s[j][4] : j \in DOMAIN s}

Hides(d, u) ==
  /\ d.hasData
  /\ \/ \E j \in DOMAIN d.static : d.static[j].name \in Names(u.instance)
     \/ \E j \in DOMAIN d.direct : d.direct[j] \in Names(u.vtable)

NothingHides(file, cs) ==
  \A v \in 1 .. Len(cs) :
    LET h == cs[v].hdl
    IN  cs[v].super # 0 => ~Hides(file[h[1]][h[2]][h[3]], cs[cs[v].super])

NothingHidden == NothingHides(world.file, classes)

Owns(t, x, v) == x \in DOMAIN t /\ t[x] = v

ClassesInv ==
  \A v \in 1 .. Len(classes) :
    /\ classes[v].super \in 0 .. Len(classes)
    /\ Owns(jvm, <<"class", ClassJvm(classes[v].hdl)>>, v)
    /\ Owns(dex, <<"class", classes[v].hdl>>, v)

(* A method or field has its defining handles, whichever vertex they lead  *)
(* to, and its class has one.                                              *)
HandlesThere(kind, h) ==
  /\ ClassKey(h[1], h[3]) \in DOMAIN jvm
  /\ <<kind, JvmOf(h)>> \in DOMAIN jvm
  /\ <<kind, h>> \in DOMAIN dex

VerticesInv ==
  /\ IsList(methods) /\ \A v \in 1 .. Len(methods) : HandlesThere("method", methods[v])
  /\ IsList(fields) /\ \A v \in 1 .. Len(fields) : HandlesThere("field", fields[v].hdl)

(* No handle of a file without that of its loader.                         *)
KeysInv ==
  \A x \in DOMAIN dex : x[1] \in {"method", "field"} => <<x[1], JvmOf(x[2])>> \in DOMAIN jvm

OwnHandles(kind, h, v) == jvm[<<kind, JvmOf(h)>>] = v /\ dex[<<kind, h>>] = v

MembersInv ==
  NothingHidden =>
    /\ \A v \in 1 .. Len(methods) : OwnHandles("method", methods[v], v)
    /\ \A v \in 1 .. Len(fields) : OwnHandles("field", fields[v].hdl, v)

HInv == ClassesInv /\ VerticesInv /\ KeysInv /\ MembersInv

(* A step that makes no vertex: handles stay, except that the handle of a  *)
(* file may be bound to what that of its loader leads to.                  *)
Tame ==
  /\ world'.file = world.file /\ UNCHANGED graphs
  /\ \A x \in DOMAIN jvm : Owns(jvm', x, jvm[x])
  /\ \A x \in DOMAIN dex :
       Owns(dex', x, dex[x]) \/ (x[1] # "class" /\ Owns(dex', x, jvm[<<x[1], JvmOf(x[2])>>]))
  /\ \A x \in DOMAIN dex' \ DOMAIN dex :
       x[1] \in {"method", "field"} => <<x[1], JvmOf(x[2])>> \in DOMAIN jvm'

LEMMA TameMember ==
  ASSUME Tame, NEW kind, kind # "class", NEW h, HandlesThere(kind, h)
  PROVE  /\ HandlesThere(kind, h)'
         /\ \A v : OwnHandles(kind, h, v) => OwnHandles(kind, h, v)'
<1>c. PICK c : c = ClassKey(h[1], h[3])
  OBVIOUS
<1>j. PICK j : j = <<kind, JvmOf(h)>>
  OBVIOUS
<1>d. PICK d : d = <<kind, h>>
  OBVIOUS
<1>1. d[1] = kind /\ d[2] = h /\ <<d[1], JvmOf(d[2])>> = j
  BY <1>d, <1>j
<1>2. c \in DOMAIN jvm /\ j \in DOMAIN jvm /\ d \in DOMAIN dex
  BY <1>c, <1>j, <1>d DEF HandlesThere
<1>3. c \in DOMAIN jvm' /\ j \in DOMAIN jvm' /\ jvm'[j] = jvm[j]
  BY <1>2 DEF Tame, Owns
<1>4. d \in DOMAIN dex' /\ (dex'[d] = dex[d] \/ dex'[d] = jvm[j])
  BY <1>1, <1>2 DEF Tame, Owns
<1>5. HandlesThere(kind, h)'
  BY <1>3, <1>4, <1>c, <1>j, <1>d DEF HandlesThere, ClassKey, JvmOf
<1>6. ASSUME NEW v, OwnHandles(kind, h, v) PROVE OwnHandles(kind, h, v)'
  <2>1. jvm[j] = v /\ dex[d] = v
    BY <1>6, <1>j, <1>d DEF OwnHandles
  <2>2. jvm'[j] = v /\ dex'[d] = v
    BY <1>3, <1>4, <2>1
  <2> QED BY <2>2, <1>j, <1>d DEF OwnHandles, JvmOf
<1> QED BY <1>5, <1>6

LEMMA TameStep ==
  ASSUME HInv, Tame
  PROVE  HInv'
<1>1. classes' = classes /\ methods' = methods /\ fields' = fields /\ world'.file = world.file
  BY DEF Tame, graphs
<1>2. ClassesInv'
  <2> SUFFICES ASSUME NEW v \in 1 .. Len(classes)
               PROVE  /\ classes[v].super \in 0 .. Len(classes)
                      /\ Owns(jvm', <<"class", ClassJvm(classes[v].hdl)>>, v)
                      /\ Owns(dex', <<"class", classes[v].hdl>>, v)
    BY <1>1 DEF ClassesInv, ClassJvm
  <2>j. PICK j : j = <<"class", ClassJvm(classes[v].hdl)>>
    OBVIOUS
  <2>d. PICK d : d = <<"class", classes[v].hdl>>
    OBVIOUS
  <2>1. /\ classes[v].super \in 0 .. Len(classes) /\ d[1] = "class"
        /\ j \in DOMAIN jvm /\ jvm[j] = v /\ d \in DOMAIN dex /\ dex[d] = v
    BY <2>j, <2>d DEF HInv, ClassesInv, Owns
  <2>2. Owns(jvm', j, v) /\ Owns(dex', d, v)
    BY <2>1 DEF Tame
  <2> QED BY <2>1, <2>2, <2>j, <2>d
<1>3. VerticesInv'
  <2>1. ASSUME NEW v \in 1 .. Len(methods) PROVE HandlesThere("method", methods[v])'
    <3>h. PICK h : h = methods[v]
      OBVIOUS
    <3>1. HandlesThere("method", h)
      BY <3>h DEF HInv, VerticesInv
    <3>2. HandlesThere("method", h)'
      BY <3>1, TameMember
    <3> QED BY <1>1, <3>2, <3>h DEF HandlesThere, JvmOf, ClassKey
  <2>2. ASSUME NEW v \in 1 .. Len(fields) PROVE HandlesThere("field", fields[v].hdl)'
    <3>h. PICK h : h = fields[v].hdl
      OBVIOUS
    <3>1. HandlesThere("field", h)
      BY <3>h DEF HInv, VerticesInv
    <3>2. HandlesThere("field", h)'
      BY <3>1, TameMember
    <3> QED BY <1>1, <3>2, <3>h DEF HandlesThere, JvmOf, ClassKey
  <2> QED BY <1>1, <2>1, <2>2 DEF HInv, VerticesInv
<1>4. KeysInv'
  <2> SUFFICES ASSUME NEW x \in DOMAIN dex', x[1] \in {"method", "field"}
               PROVE  <<x[1], JvmOf(x[2])>> \in DOMAIN jvm'
    BY DEF KeysInv, JvmOf
  <2>1. CASE x \in DOMAIN dex
    BY <2>1 DEF Tame, Owns, HInv, KeysInv
  <2>2. CASE x \notin DOMAIN dex
    BY <2>2 DEF Tame
  <2> QED BY <2>1, <2>2
<1>5. MembersInv'
  <2>1. NothingHidden' => NothingHidden
    BY <1>1 DEF NothingHidden
  <2> SUFFICES ASSUME NothingHidden
               PROVE  /\ \A v \in 1 .. Len(methods) : OwnHandles("method", methods[v], v)'
                      /\ \A v \in 1 .. Len(fields) : OwnHandles("field", fields[v].hdl, v)'
    BY <1>1, <2>1 DEF MembersInv
  <2>2. ASSUME NEW v \in 1 .. Len(methods) PROVE OwnHandles("method", methods[v], v)'
    <3>h. PICK h : h = methods[v]
      OBVIOUS
    <3>1. HandlesThere("method", h) /\ OwnHandles("method", h, v)
      BY <3>h DEF HInv, VerticesInv, MembersInv
    <3>2. OwnHandles("method", h, v)'
      BY <3>1, TameMember
    <3> QED BY <1>1, <3>2, <3>h DEF OwnHandles, JvmOf
  <2>3. ASSUME NEW v \in 1 .. Len(fields) PROVE OwnHandles("field", fields[v].hdl, v)'
    <3>h. PICK h : h = fields[v].hdl
      OBVIOUS
    <3>1. HandlesThere("field", h) /\ OwnHandles("field", h, v)
      BY <3>h DEF HInv, VerticesInv, MembersInv
    <3>2. OwnHandles("field", h, v)'
      BY <3>1, TameMember
    <3> QED BY <1>1, <3>2, <3>h DEF OwnHandles, JvmOf
  <2> QED BY <2>2, <2>3
<1> QED BY <1>2, <1>3, <1>4, <1>5 DEF HInv

LEMMA QuietTame ==
  ASSUME world'.file = world.file, UNCHANGED <<graphs, tables>>
  PROVE  Tame
<1>1. jvm' = jvm /\ dex' = dex
  BY DEF tables
<1> QED BY <1>1 DEF Tame, Owns

(* Only handles of classes are bound.                                      *)
LEMMA ClassTame ==
  ASSUME world' = world, UNCHANGED graphs, NothingMoves, NEW f, f.kind = "class", NEW v,
         jvm' = jvm \/ jvm' = Bind(jvm, <<f.kind, f.jvm>>, v),
         dex' = dex \/ dex' = DexBound(f, v)
  PROVE  Tame
<1>j. PICK j : j = <<f.kind, f.jvm>>
  OBVIOUS
<1>d. PICK d : d = <<f.kind, f.dex>>
  OBVIOUS
<1>0. j[1] = "class" /\ d[1] = "class"
  BY <1>j, <1>d
<1>1. \A x \in DOMAIN jvm : x # j => Owns(jvm', x, jvm[x])
  <2>1. jvm' = jvm \/ jvm' = Bind(jvm, j, v)
    BY <1>j
  <2> QED BY <2>1 DEF Bind, Owns
<1>2. dex' = dex \/ dex' = Bind(dex, d, v)
  BY <1>d DEF DexBound
<1>3. /\ \A x \in DOMAIN dex : x # d => Owns(dex', x, dex[x])
      /\ \A x \in DOMAIN dex' : x # d => x \in DOMAIN dex
  BY <1>2 DEF Bind, Owns
<1>4. /\ j \in DOMAIN jvm => Owns(jvm', j, jvm[j])
      /\ d \in DOMAIN dex => Owns(dex', d, dex[d])
  BY <1>0 DEF NothingMoves, Kept, Owns
<1>5. world'.file = world.file
  OBVIOUS
<1> QED BY <1>0, <1>1, <1>3, <1>4, <1>5 DEF Tame

(* The handle of a file follows that of its loader.                        *)
LEMMA MemberTame ==
  ASSUME world' = world, UNCHANGED graphs, NEW f, MemberFrame(f), NEW v,
         \/ jvm' = jvm /\ HasJvm(f) /\ v = jvm[<<f.kind, f.jvm>>]
         \/ jvm' = Bind(jvm, <<f.kind, f.jvm>>, v) /\ ~HasJvm(f),
         dex' = dex \/ (dex' = DexBound(f, v) /\ (HasDex(f) /\ f.dex # NoHdl => HasJvm(f)))
  PROVE  Tame
<1>j. PICK j : j = <<f.kind, f.jvm>>
  OBVIOUS
<1>d. PICK d : d = <<f.kind, f.dex>>
  OBVIOUS
<1>k. PICK k : k = f.kind
  OBVIOUS
<1>0. /\ k \in {"method", "field"} /\ d[1] = k /\ d[2] = f.dex
      /\ f.dex # NoHdl => j = <<k, JvmOf(d[2])>>
  BY <1>j, <1>d, <1>k DEF MemberFrame
<1>1. /\ \A x \in DOMAIN jvm : Owns(jvm', x, jvm[x])
      /\ j \in DOMAIN jvm' /\ jvm'[j] = v
  <2>1. CASE jvm' = jvm /\ HasJvm(f) /\ v = jvm[<<f.kind, f.jvm>>]
    BY <1>j, <2>1 DEF HasJvm, Owns
  <2>2. CASE jvm' = Bind(jvm, <<f.kind, f.jvm>>, v) /\ ~HasJvm(f)
    <3>1. jvm' = Bind(jvm, j, v) /\ j \notin DOMAIN jvm
      BY <1>j, <2>2 DEF HasJvm
    <3> QED BY <3>1 DEF Bind, Owns
  <2> QED BY <2>1, <2>2
<1>2. dex' = dex \/ (f.dex # NoHdl /\ dex' = Bind(dex, d, v) /\ (d \in DOMAIN dex => j \in DOMAIN jvm))
  BY <1>d, <1>j DEF DexBound, HasDex, HasJvm
<1>3. world'.file = world.file
  OBVIOUS
<1>4. CASE dex' = dex
  BY <1>1, <1>3, <1>4 DEF Tame, Owns
<1>5. CASE f.dex # NoHdl /\ dex' = Bind(dex, d, v) /\ (d \in DOMAIN dex => j \in DOMAIN jvm)
  <2>1. /\ \A x \in DOMAIN dex : x # d => Owns(dex', x, dex[x])
        /\ Owns(dex', d, v) /\ \A x \in DOMAIN dex' : x = d \/ x \in DOMAIN dex
    BY <1>5 DEF Bind, Owns
  <2>2. d \in DOMAIN dex => v = jvm[j]
    BY <1>1, <1>5 DEF Owns
  <2>3. \A x \in DOMAIN dex :
          Owns(dex', x, dex[x]) \/ (x[1] # "class" /\ Owns(dex', x, jvm[<<x[1], JvmOf(x[2])>>]))
    <3> TAKE x \in DOMAIN dex
    <3>1. CASE x # d
      BY <2>1, <3>1
    <3>2. CASE x = d
      <4>1. Owns(dex', x, jvm[j]) /\ x[1] # "class" /\ <<x[1], JvmOf(x[2])>> = j
        BY <1>0, <1>5, <2>1, <2>2, <3>2
      <4> QED BY <4>1
    <3> QED BY <3>1, <3>2
  <2>4. \A x \in DOMAIN dex' \ DOMAIN dex :
          x[1] \in {"method", "field"} => <<x[1], JvmOf(x[2])>> \in DOMAIN jvm'
    <3> TAKE x \in DOMAIN dex' \ DOMAIN dex
    <3>1. x = d
      BY <2>1
    <3>2. <<x[1], JvmOf(x[2])>> = j
      BY <1>0, <1>5, <3>1
    <3> QED BY <1>1, <3>2
  <2> QED BY <1>1, <1>3, <2>3, <2>4 DEF Tame
<1> QED BY <1>2, <1>4, <1>5

LEMMA OtherStepsTame ==
  ASSUME IInv, KeysInv, [INext]_ivars, NothingMoves
  PROVE  Define \/ Tame
<1>f. PICK f : f = Top
  OBVIOUS
<1>1. CASE \/ Request \/ FindNoLoader \/ SkipLoader \/ Discover \/ SkipFile \/ LoadFromFile
           \/ FindNext \/ FindFailed \/ LoadSuper \/ SuperLoaded \/ Abandon
           \/ MemberLoad \/ MemberNoClass \/ MemberFailed \/ AllBegin \/ AllNext \/ AllDone
  <2>1. UNCHANGED <<world, graphs, tables>>
    BY <1>1 DEF Request, FindNoLoader, SkipLoader, Discover, SkipFile, LoadFromFile,
       FindNext, FindFailed, LoadSuper, SuperLoaded, Abandon,
       MemberLoad, MemberNoClass, MemberFailed, AllBegin, AllNext, AllDone
  <2> QED BY <2>1, QuietTame
<1>2. CASE FindKnown \/ FindThere \/ FindLoaded
  <2>1. f.kind = "class"
    <3>1. Runs("find")
      BY <1>2 DEF FindKnown, FindThere, FindLoaded, Walking
    <3> QED BY <1>f, <3>1, FindTop
  <2>2. world' = world /\ UNCHANGED graphs
    BY <1>2 DEF FindKnown, FindThere, FindLoaded
  <2>3. \E v : /\ jvm' = jvm \/ jvm' = Bind(jvm, <<f.kind, f.jvm>>, v)
               /\ dex' = dex \/ dex' = DexBound(f, v)
    <3>1. CASE FindKnown
      <4>1. Answer(f)
        BY <1>f, <3>1 DEF FindKnown
      <4> QED BY <4>1 DEF Answer, tables
    <3>2. CASE FindThere
      BY <1>f, <3>2 DEF FindThere, Found
    <3>3. CASE FindLoaded
      BY <1>f, <3>3 DEF FindLoaded, Found
    <3> QED BY <1>2, <3>1, <3>2, <3>3
  <2>4. PICK v : /\ jvm' = jvm \/ jvm' = Bind(jvm, <<f.kind, f.jvm>>, v)
                 /\ dex' = dex \/ dex' = DexBound(f, v)
    BY <2>3
  <2> QED BY <2>1, <2>2, <2>4, ClassTame
<1>3. CASE MemberKnown
  <2>1. MemberFrame(f)
    BY <1>f, <1>3, MemberTop DEF MemberKnown
  <2>2. Known(f) /\ Answer(f) /\ world' = world /\ UNCHANGED graphs
    BY <1>f, <1>3 DEF MemberKnown
  <2>3. CASE HasDex(f)
    BY <2>2, <2>3, QuietTame DEF Answer
  <2>4. CASE ~HasDex(f)
    <3>v. PICK v : v = jvm[<<f.kind, f.jvm>>]
      OBVIOUS
    <3>1. jvm' = jvm /\ HasJvm(f) /\ dex' = DexBound(f, v)
      BY <2>2, <2>4, <3>v DEF Answer, Known
    <3> QED BY <2>1, <2>2, <2>4, <3>1, <3>v, MemberTame
  <2> QED BY <2>3, <2>4
<1>4. CASE MemberLoaded
  <2>1. MemberFrame(f)
    BY <1>f, <1>4, MemberTop DEF MemberLoaded
  <2>2. world' = world /\ UNCHANGED graphs
    BY <1>4 DEF MemberLoaded
  <2>3. CASE ~HasJvm(f)
    <3>1. UNCHANGED tables
      BY <1>f, <1>4, <2>3 DEF MemberLoaded
    <3> QED BY <2>2, <3>1, QuietTame
  <2>4. CASE HasJvm(f)
    <3>v. PICK v : v = jvm[<<f.kind, f.jvm>>]
      OBVIOUS
    <3>1. jvm' = jvm /\ dex' = DexBound(f, v)
      BY <1>f, <1>4, <2>4, <3>v DEF MemberLoaded
    <3> QED BY <2>1, <2>2, <2>4, <3>1, <3>v, MemberTame
  <2> QED BY <2>3, <2>4
<1>5. CASE MemberSearch /\ KeysInv
  <2>1. MemberFrame(f)
    BY <1>f, <1>5, MemberTop DEF MemberSearch
  <2>2. world' = world /\ UNCHANGED graphs /\ f.stage = "search"
    BY <1>f, <1>5 DEF MemberSearch
  <2>3. ~HasJvm(f)
    BY <2>1, <2>2 DEF MemberFrame
  <2>4. (HasDex(f) /\ f.dex # NoHdl => HasJvm(f))
    <3>d. PICK d : d = <<f.kind, f.dex>>
      OBVIOUS
    <3>1. d[1] = f.kind /\ d[2] = f.dex
      BY <3>d
    <3>2. f.kind \in {"method", "field"} /\ (f.dex # NoHdl => f.jvm = JvmOf(f.dex))
      BY <2>1 DEF MemberFrame
    <3>3. d \in DOMAIN dex => <<f.kind, JvmOf(f.dex)>> \in DOMAIN jvm
      BY <1>5, <3>1, <3>2 DEF KeysInv
    <3> QED BY <3>2, <3>3, <3>d DEF HasDex, HasJvm
  <2>5. UNCHANGED tables \/ \E v : Found(f, v)
    BY <1>f, <1>5 DEF MemberSearch
  <2>6. CASE UNCHANGED tables
    BY <2>2, <2>6, QuietTame
  <2>7. CASE \E v : Found(f, v)
    <3>1. PICK v : Found(f, v)
      BY <2>7
    <3>2. jvm' = Bind(jvm, <<f.kind, f.jvm>>, v) /\ dex' = DexBound(f, v)
      BY <3>1 DEF Found
    <3> QED BY <2>1, <2>2, <2>3, <2>4, <3>2, MemberTame
  <2> QED BY <2>5, <2>6, <2>7
<1>6. CASE AddApk \/ \E edges : AddFlow(edges)
  <2>1. UNCHANGED <<graphs, tables>>
    BY <1>6 DEF AddApk, AddFlow
  <2>2. "file" \in DOMAIN world
    BY DEF IInv, WorldInv
  <2>3. world'.file = world.file
    BY <1>6, <2>2 DEF AddApk, AddFlow
  <2> QED BY <2>1, <2>3, QuietTame
<1>7. CASE UNCHANGED ivars
  <2>1. UNCHANGED <<world, graphs, tables>>
    BY <1>7 DEF ivars, vars
  <2> QED BY <2>1, QuietTame
<1> QED BY <1>1, <1>2, <1>3, <1>4, <1>5, <1>6, <1>7 DEF INext, Next, AddIntentFlow, AddProviderFlow

-----------------------------------------------------------------------------
(* Which of several assignments to a handle stays.                         *)

LastIs(s, x, v) ==
  \E k \in DOMAIN s : s[k][1] = x /\ s[k][2] = v /\ \A j \in DOMAIN s : j > k => s[j][1] # x

LEMMA LastBinds ==
  ASSUME NEW t, NEW s, IsList(s), NEW x, NEW v, LastIs(s, x, v)
  PROVE  x \in DOMAIN BindAll(t, s) /\ BindAll(t, s)[x] = v /\ x \in Keys(s)
<1>1. PICK k \in DOMAIN s : s[k][1] = x /\ s[k][2] = v /\ \A j \in DOMAIN s : j > k => s[j][1] # x
  BY DEF LastIs
<1>2. BindAll(t, s)[x] = s[k][2]
  BY <1>1, BindAllLast
<1>3. x \in Keys(s)
  BY <1>1 DEF Keys
<1> QED BY <1>1, <1>2, <1>3, BindAllDomain

LEMMA JoinedKeys ==
  ASSUME NEW s, NEW t, IsList(s), IsList(t), NEW w, Joined(s, t, w)
  PROVE  IsList(w) /\ Keys(w) = Keys(s) \cup Keys(t)
<1>1. IsList(w)
  BY JoinedFacts
<1>2. Keys(s \o t) = Keys(s) \cup Keys(t)
  BY KeysConcat
<1> QED BY <1>1, <1>2 DEF Joined

LEMMA LastInSecond ==
  ASSUME NEW s, NEW t, IsList(s), IsList(t), NEW w, Joined(s, t, w), NEW x, NEW v, LastIs(t, x, v)
  PROVE  LastIs(w, x, v)
<1>1. /\ Len(s) \in Nat /\ DOMAIN s = 1 .. Len(s) /\ DOMAIN t = 1 .. Len(t) /\ Len(t) \in Nat
      /\ \A k \in DOMAIN t : Len(s) + k \in DOMAIN w /\ w[Len(s) + k] = t[k]
      /\ \A k \in DOMAIN w : k \in DOMAIN s \/ \E i \in DOMAIN t : k = Len(s) + i
  BY JoinedFacts
<1>2. PICK k \in DOMAIN t : t[k][1] = x /\ t[k][2] = v /\ \A j \in DOMAIN t : j > k => t[j][1] # x
  BY DEF LastIs
<1>n. PICK n \in Nat : n = Len(s)
  BY <1>1
<1>m. PICK m \in Nat : m = n + k
  BY <1>1, <1>n
<1>3. m \in DOMAIN w /\ w[m] = t[k]
  BY <1>1, <1>n, <1>m
<1>4. ASSUME NEW j \in DOMAIN w, j > m PROVE w[j][1] # x
  <2>1. \A i \in DOMAIN s : ~(i > m)
    BY <1>1, <1>n, <1>m
  <2>2. PICK i \in DOMAIN t : j = Len(s) + i
    BY <1>1, <1>4, <2>1
  <2>3. i > k
    BY <1>1, <1>4, <1>n, <1>m, <2>2
  <2> QED BY <1>1, <1>2, <2>2, <2>3
<1> QED BY <1>2, <1>3, <1>4 DEF LastIs

LEMMA LastInFirst ==
  ASSUME NEW s, NEW t, IsList(s), IsList(t), NEW w, Joined(s, t, w), NEW x, NEW v, LastIs(s, x, v),
         x \notin Keys(t)
  PROVE  LastIs(w, x, v)
<1>1. /\ \A k \in DOMAIN s : k \in DOMAIN w /\ w[k] = s[k]
      /\ \A k \in DOMAIN t : Len(s) + k \in DOMAIN w /\ w[Len(s) + k] = t[k]
      /\ \A k \in DOMAIN w : k \in DOMAIN s \/ \E i \in DOMAIN t : k = Len(s) + i
  BY JoinedFacts
<1>2. PICK k \in DOMAIN s : s[k][1] = x /\ s[k][2] = v /\ \A j \in DOMAIN s : j > k => s[j][1] # x
  BY DEF LastIs
<1>3. ASSUME NEW j \in DOMAIN w, j > k PROVE w[j][1] # x
  <2>1. CASE j \in DOMAIN s
    BY <1>1, <1>2, <1>3, <2>1
  <2>2. CASE \E i \in DOMAIN t : j = Len(s) + i
    <3>1. PICK i \in DOMAIN t : j = Len(s) + i
      BY <2>2
    <3>2. w[j] = t[i]
      BY <1>1, <3>1
    <3> QED BY <3>2 DEF Keys
  <2> QED BY <1>1, <2>1, <2>2
<1>4. k \in DOMAIN w /\ w[k] = s[k]
  BY <1>1
<1> QED BY <1>2, <1>3, <1>4 DEF LastIs

-----------------------------------------------------------------------------
(* The members that a class declares.                                      *)

(* The handles o of the members named p of the class h.                    *)
OwnList(h, p, o) ==
  /\ IsList(p) /\ IsList(o) /\ DOMAIN o = DOMAIN p
  /\ \A k \in DOMAIN o : o[k] = <<h[1], h[2], h[3], p[k]>>

LEMMA TuplesJoined ==
  ASSUME NEW a, NEW b, NEW c, NEW m
  PROVE  <<a, b, c>> \o <<m>> = <<a, b, c, m>> /\ <<a, b>> \o <<m>> = <<a, b, m>>
<1>t. PICK t : t = <<m>>
  OBVIOUS
<1>1. IsList(t) /\ Len(t) = 1 /\ t[1] = m /\ DOMAIN t = {1}
  BY <1>t, ListOne
<1>2. <<a, b, c>> \o <<m>> = <<a, b, c, m>>
  <2>s. PICK s : s = <<a, b, c>>
    OBVIOUS
  <2>1. s = [k \in 1 .. 3 |-> s[k]] /\ s[1] = a /\ s[2] = b /\ s[3] = c
    BY <2>s
  <2>2. IsList(s) /\ Len(s) = 3
    BY <2>1, ListMade
  <2>w. PICK w : Joined(s, t, w)
    BY DEF Joined
  <2>3. /\ IsList(w) /\ Len(w) = Len(s) + Len(t) /\ DOMAIN s = 1 .. Len(s)
        /\ \A k \in DOMAIN s : w[k] = s[k]
        /\ \A k \in DOMAIN t : w[Len(s) + k] = t[k]
    <3>1. IsList(s) /\ IsList(t)
      BY <1>1, <2>2
    <3> QED BY ONLY <3>1, <2>w, JoinedFacts
  <2>4. Len(w) = 4 /\ w[1] = a /\ w[2] = b /\ w[3] = c /\ w[4] = m
    BY <1>1, <2>1, <2>2, <2>3
  <2>5. w = [k \in 1 .. 4 |-> w[k]]
    BY <2>3, <2>4, ListFacts
  <2>6. w = <<a, b, c, m>>
    BY <2>4, <2>5
  <2> QED BY <1>t, <2>s, <2>w, <2>6 DEF Joined
<1>3. <<a, b>> \o <<m>> = <<a, b, m>>
  <2>s. PICK s : s = <<a, b>>
    OBVIOUS
  <2>1. s = [k \in 1 .. 2 |-> s[k]] /\ s[1] = a /\ s[2] = b
    BY <2>s
  <2>2. IsList(s) /\ Len(s) = 2
    BY <2>1, ListMade
  <2>w. PICK w : Joined(s, t, w)
    BY DEF Joined
  <2>3. /\ IsList(w) /\ Len(w) = Len(s) + Len(t) /\ DOMAIN s = 1 .. Len(s)
        /\ \A k \in DOMAIN s : w[k] = s[k]
        /\ \A k \in DOMAIN t : w[Len(s) + k] = t[k]
    <3>1. IsList(s) /\ IsList(t)
      BY <1>1, <2>2
    <3> QED BY ONLY <3>1, <2>w, JoinedFacts
  <2>4. Len(w) = 3 /\ w[1] = a /\ w[2] = b /\ w[3] = m
    BY <1>1, <2>1, <2>2, <2>3
  <2>5. w = [k \in 1 .. 3 |-> w[k]]
    BY <2>3, <2>4, ListFacts
  <2>6. w = <<a, b, m>>
    BY <2>4, <2>5
  <2> QED BY <1>t, <2>s, <2>w, <2>6 DEF Joined
<1> QED BY <1>2, <1>3

LEMMA OwnJoined ==
  ASSUME NEW h, NEW p, NEW q, NEW o, NEW u, OwnList(h, p, o), OwnList(h, q, u),
         NEW r, Joined(p, q, r), NEW w, Joined(o, u, w)
  PROVE  OwnList(h, r, w) /\ Len(p) = Len(o)
<1>1. /\ IsList(r) /\ Len(p) \in Nat /\ DOMAIN p = 1 .. Len(p) /\ DOMAIN r = 1 .. Len(r)
      /\ Len(r) = Len(p) + Len(q)
      /\ \A k \in DOMAIN p : k \in DOMAIN r /\ r[k] = p[k]
      /\ \A k \in DOMAIN q : Len(p) + k \in DOMAIN r /\ r[Len(p) + k] = q[k]
  BY JoinedFacts DEF OwnList
<1>2. /\ IsList(w) /\ Len(o) \in Nat /\ DOMAIN o = 1 .. Len(o) /\ DOMAIN w = 1 .. Len(w)
      /\ Len(w) = Len(o) + Len(u)
      /\ \A k \in DOMAIN o : k \in DOMAIN w /\ w[k] = o[k]
      /\ \A k \in DOMAIN u : Len(o) + k \in DOMAIN w /\ w[Len(o) + k] = u[k]
      /\ \A k \in DOMAIN w : k \in DOMAIN o \/ \E i \in DOMAIN u : k = Len(o) + i
  BY JoinedFacts DEF OwnList
<1>3. Len(p) = Len(o)
  <2>1. \A i, j \in Nat : 1 .. i = 1 .. j => i = j
    OBVIOUS
  <2> QED BY <1>1, <1>2, <2>1 DEF OwnList
<1>4. Len(q) = Len(u)
  <2>1. \A i, j \in Nat : 1 .. i = 1 .. j => i = j
    OBVIOUS
  <2>2. Len(q) \in Nat /\ Len(u) \in Nat /\ DOMAIN q = 1 .. Len(q) /\ DOMAIN u = 1 .. Len(u)
    BY ListFacts DEF OwnList
  <2> QED BY <2>1, <2>2 DEF OwnList
<1>5. ASSUME NEW k \in DOMAIN w PROVE w[k] = <<h[1], h[2], h[3], r[k]>>
  <2>1. CASE k \in DOMAIN o
    BY <1>1, <1>2, <2>1 DEF OwnList
  <2>2. CASE \E i \in DOMAIN u : k = Len(o) + i
    <3>1. PICK i \in DOMAIN u : k = Len(o) + i
      BY <2>2
    <3>2. w[k] = u[i] /\ r[k] = q[i] /\ u[i] = <<h[1], h[2], h[3], q[i]>>
      BY <1>1, <1>2, <1>3, <3>1 DEF OwnList
    <3> QED BY <3>2
  <2> QED BY <1>2, <2>1, <2>2
<1>6. DOMAIN w = DOMAIN r
  BY <1>1, <1>2, <1>3, <1>4
<1> QED BY <1>1, <1>2, <1>3, <1>5, <1>6 DEF OwnList

(* The assignments w bring the handles of the members o, numbered after n; *)
(* if free, nothing takes them back.                                       *)
Registers(w, kind, h, o, n, free) ==
  /\ IsList(w)
  /\ \A x \in Keys(w) : x[1] = kind /\ x[2][1] = h[1] /\ x[2][2] = h[3]
  /\ \A i \in DOMAIN o : /\ <<kind, JvmOf(o[i])>> \in Keys(w)
                         /\ free => LastIs(w, <<kind, JvmOf(o[i])>>, n + i)

LEMMA DeclareRegisters ==
  ASSUME NEW kind, NEW h, NEW p, NEW o, OwnList(h, p, o), NoneTwice(p), NEW n
  PROVE  Registers(Declare(kind, o, n), kind, h, o, n, TRUE)
<1>w. PICK w : w = Declare(kind, o, n)
  OBVIOUS
<1>1. Len(o) \in Nat /\ DOMAIN o = 1 .. Len(o)
  BY ListFacts DEF OwnList
<1>2. /\ w = [k \in 1 .. Len(o) |-> w[k]] /\ DOMAIN w = DOMAIN o
      /\ \A k \in DOMAIN o : w[k][1] = <<kind, JvmOf(o[k])>> /\ w[k][2] = n + k
  BY <1>1, <1>w DEF Declare
<1>3. IsList(w)
  BY <1>1, <1>2, ListMade
<1>4. \A k \in DOMAIN o : JvmOf(o[k]) = <<h[1], h[3], p[k]>>
  BY DEF OwnList, JvmOf
<1>5. \A x \in Keys(w) : x[1] = kind /\ x[2][1] = h[1] /\ x[2][2] = h[3]
  <2> TAKE x \in Keys(w)
  <2>0. PICK k \in DOMAIN w : x = w[k][1]
    BY DEF Keys
  <2>1. k \in DOMAIN o /\ x = <<kind, <<h[1], h[3], p[k]>>>>
    BY <1>2, <1>4, <2>0
  <2> QED BY <2>1
<1>6. ASSUME NEW i \in DOMAIN o
      PROVE  <<kind, JvmOf(o[i])>> \in Keys(w) /\ LastIs(w, <<kind, JvmOf(o[i])>>, n + i)
  <2>x. PICK x : x = <<kind, JvmOf(o[i])>>
    OBVIOUS
  <2>1. w[i][1] = x /\ w[i][2] = n + i
    BY <1>2, <2>x
  <2>2. ASSUME NEW j \in DOMAIN w, j > i PROVE w[j][1] # x
    <3>1. i \in DOMAIN p /\ j \in DOMAIN p /\ j # i
      BY <1>1, <1>2, <2>2 DEF OwnList
    <3>2. p[j] # p[i]
      BY <3>1 DEF NoneTwice
    <3>3. w[j][1] = <<kind, <<h[1], h[3], p[j]>>>> /\ x = <<kind, <<h[1], h[3], p[i]>>>>
      BY <1>2, <1>4, <2>x
    <3> QED BY <3>2, <3>3
  <2>3. LastIs(w, x, n + i)
    BY <1>2, <2>1, <2>2 DEF LastIs
  <2>4. x \in Keys(w)
    BY <1>2, <2>1 DEF Keys
  <2> QED BY <2>3, <2>4, <2>x
<1> QED BY <1>3, <1>5, <1>6, <1>w DEF Registers

LEMMA InheritKeys ==
  ASSUME NEW f, NEW h, h = f.hdl, NEW kind, NEW e, IsList(e)
  PROVE  /\ IsList(Inherit(f, kind, e))
         /\ \A x \in Keys(Inherit(f, kind, e)) :
              x[1] = kind /\ x[2][1] = h[1] /\ x[2][2] = h[3] /\ x[2][3] \in Names(e)
<1>w. PICK w : w = Inherit(f, kind, e)
  OBVIOUS
<1>1. Len(e) \in Nat /\ DOMAIN e = 1 .. Len(e)
  BY ListFacts
<1>2. /\ w = [k \in 1 .. Len(e) |-> w[k]] /\ DOMAIN w = DOMAIN e
      /\ \A k \in DOMAIN e : w[k][1] = <<kind, ClassJvm(h) \o <<e[k][4]>>>>
  BY <1>1, <1>w DEF Inherit
<1>3. IsList(w)
  BY <1>1, <1>2, ListMade
<1>4. \A k \in DOMAIN e : ClassJvm(h) \o <<e[k][4]>> = <<h[1], h[3], e[k][4]>>
  BY TuplesJoined DEF ClassJvm
<1>5. ASSUME NEW x \in Keys(w)
      PROVE  x[1] = kind /\ x[2][1] = h[1] /\ x[2][2] = h[3] /\ x[2][3] \in Names(e)
  <2>0. PICK k \in DOMAIN w : x = w[k][1]
    BY DEF Keys
  <2>1. k \in DOMAIN e /\ x = <<kind, <<h[1], h[3], e[k][4]>>>>
    BY <1>2, <1>4, <2>0
  <2> QED BY <2>1 DEF Names
<1> QED BY <1>3, <1>5, <1>w

LEMMA DeclareKeys ==
  ASSUME NEW kind, NEW h, NEW p, NEW o, OwnList(h, p, o), NEW n, NEW x \in Keys(Declare(kind, o, n))
  PROVE  \E k \in DOMAIN p : x = <<kind, <<h[1], h[3], p[k]>>>>
<1>w. PICK w : w = Declare(kind, o, n)
  OBVIOUS
<1>1. PICK k \in DOMAIN w : x = w[k][1]
  BY <1>w DEF Keys
<1>2. k \in DOMAIN o /\ w[k][1] = <<kind, JvmOf(o[k])>>
  BY <1>w DEF Declare
<1>3. JvmOf(o[k]) = <<h[1], h[3], p[k]>> /\ k \in DOMAIN p
  BY <1>2 DEF OwnList, JvmOf
<1> QED BY <1>1, <1>2, <1>3

(* The inherited members e, then the own ones, and so once more.           *)
RegisteredBy(w, f, kind, e, o, g, u, n) ==
  w = Inherit(f, kind, e) \o Declare(kind, o, n) \o Inherit(f, kind, g) \o Declare(kind, u, n + Len(o))

LEMMA FourRegister ==
  ASSUME NEW f, NEW h, h = f.hdl, NEW kind, NEW e, NEW g, IsList(e), IsList(g),
         NEW p, NEW q, NEW o, NEW u, OwnList(h, p, o), OwnList(h, q, u),
         NEW r, Joined(p, q, r), NoneTwice(r), NEW v, Joined(o, u, v),
         NEW n \in Nat, NEW w, RegisteredBy(w, f, kind, e, o, g, u, n)
  PROVE  Registers(w, kind, h, v, n, \A k \in DOMAIN p : p[k] \notin Names(g))
<1>1. /\ Len(p) \in Nat /\ DOMAIN p = 1 .. Len(p) /\ DOMAIN q = 1 .. Len(q)
      /\ \A k \in DOMAIN p : k \in DOMAIN r /\ r[k] = p[k]
      /\ \A k \in DOMAIN q : Len(p) + k \in DOMAIN r /\ r[Len(p) + k] = q[k]
  BY JoinedFacts DEF OwnList
<1>2. NoneTwice(p)
  BY <1>1 DEF NoneTwice
<1>3. NoneTwice(q)
  <2> SUFFICES ASSUME NEW j \in DOMAIN q, NEW k \in DOMAIN q, q[j] = q[k] PROVE j = k
    BY DEF NoneTwice
  <2>1. j \in Nat /\ k \in Nat
    BY <1>1
  <2>2. Len(p) + j = Len(p) + k
    BY <1>1 DEF NoneTwice
  <2> QED BY <1>1, <2>1, <2>2
<1>4. \A j \in DOMAIN p : \A k \in DOMAIN q : p[j] # q[k]
  <2> TAKE j \in DOMAIN p
  <2> TAKE k \in DOMAIN q
  <2>1. j <= Len(p) /\ k >= 1 /\ j \in Nat /\ k \in Nat
    BY <1>1
  <2>2. j # Len(p) + k
    BY <1>1, <2>1
  <2> QED BY <1>1, <2>2 DEF NoneTwice
<1>m. PICK m \in Nat : m = Len(o)
  BY ListFacts DEF OwnList
<1>a. PICK a : a = Inherit(f, kind, e)
  OBVIOUS
<1>b. PICK b : b = Declare(kind, o, n)
  OBVIOUS
<1>c. PICK c : c = Inherit(f, kind, g)
  OBVIOUS
<1>d. PICK d : d = Declare(kind, u, n + m)
  OBVIOUS
<1>5. /\ IsList(a)
      /\ \A x \in Keys(a) : x[1] = kind /\ x[2][1] = h[1] /\ x[2][2] = h[3]
  BY <1>a, InheritKeys
<1>6. Registers(b, kind, h, o, n, TRUE)
  BY <1>2, <1>b, DeclareRegisters
<1>7. /\ IsList(c)
      /\ \A x \in Keys(c) : x[1] = kind /\ x[2][1] = h[1] /\ x[2][2] = h[3] /\ x[2][3] \in Names(g)
  BY <1>c, InheritKeys
<1>8. Registers(d, kind, h, u, n + m, TRUE)
  BY <1>3, <1>d, DeclareRegisters
<1>y. PICK y : Joined(a, b, y)
  BY DEF Joined
<1>z. PICK z : Joined(y, c, z)
  BY DEF Joined
<1>9. Joined(z, d, w)
  BY <1>a, <1>b, <1>c, <1>d, <1>m, <1>y, <1>z DEF Joined, RegisteredBy
<1>10. IsList(b) /\ IsList(d)
  BY <1>6, <1>8 DEF Registers
<1>11. IsList(y) /\ Keys(y) = Keys(a) \cup Keys(b)
  BY <1>5, <1>10, <1>y, JoinedKeys
<1>12. IsList(z) /\ Keys(z) = Keys(y) \cup Keys(c)
  BY <1>7, <1>11, <1>z, JoinedKeys
<1>13. IsList(w) /\ Keys(w) = Keys(z) \cup Keys(d)
  BY <1>9, <1>10, <1>12, JoinedKeys
<1>14. \A x \in Keys(w) : x[1] = kind /\ x[2][1] = h[1] /\ x[2][2] = h[3]
  BY <1>5, <1>6, <1>7, <1>8, <1>11, <1>12, <1>13 DEF Registers
<1>15. /\ DOMAIN u = 1 .. Len(u)
       /\ \A k \in DOMAIN o : k \in DOMAIN v /\ v[k] = o[k]
       /\ \A k \in DOMAIN u : Len(o) + k \in DOMAIN v /\ v[Len(o) + k] = u[k]
       /\ \A k \in DOMAIN v : k \in DOMAIN o \/ \E i \in DOMAIN u : k = Len(o) + i
  BY JoinedFacts DEF OwnList
<1>f. PICK free : free = (\A k \in DOMAIN p : p[k] \notin Names(g))
  OBVIOUS
<1>16. ASSUME NEW i \in DOMAIN v
       PROVE  <<kind, JvmOf(v[i])>> \in Keys(w) /\ (free => LastIs(w, <<kind, JvmOf(v[i])>>, n + i))
  <2>x. PICK x : x = <<kind, JvmOf(v[i])>>
    OBVIOUS
  <2>1. CASE i \in DOMAIN o
    <3>1. v[i] = o[i] /\ i \in DOMAIN p
      BY <1>15, <2>1 DEF OwnList
    <3>2. x \in Keys(b) /\ LastIs(b, x, n + i)
      BY <1>6, <2>1, <2>x, <3>1 DEF Registers
    <3>3. x = <<kind, <<h[1], h[3], p[i]>>>>
      BY <2>1, <2>x, <3>1 DEF OwnList, JvmOf
    <3>4. x \notin Keys(d)
      <4> SUFFICES ASSUME x \in Keys(d) PROVE FALSE
        OBVIOUS
      <4>1. PICK k \in DOMAIN q : x = <<kind, <<h[1], h[3], q[k]>>>>
        BY <1>d, DeclareKeys
      <4>2. q[k] = p[i]
        BY <3>3, <4>1
      <4> QED BY <1>4, <3>1, <4>2
    <3>5. ASSUME free PROVE LastIs(w, x, n + i)
      <4>0. x[2][3] = p[i]
        BY <3>3
      <4>1. x \notin Keys(c)
        BY <1>7, <1>f, <3>1, <3>5, <4>0
      <4>2. LastIs(y, x, n + i)
        BY <1>5, <1>10, <1>y, <3>2, LastInSecond
      <4>3. LastIs(z, x, n + i)
        BY <1>7, <1>11, <1>z, <4>1, <4>2, LastInFirst
      <4> QED BY <1>9, <1>10, <1>12, <3>4, <4>3, LastInFirst
    <3>6. x \in Keys(w)
      BY <1>11, <1>12, <1>13, <3>2
    <3> QED BY <2>x, <3>5, <3>6
  <2>2. CASE \E k \in DOMAIN u : i = Len(o) + k
    <3>1. PICK k \in DOMAIN u : i = m + k /\ v[i] = u[k]
      BY <1>15, <1>m, <2>2
    <3>2. x \in Keys(d) /\ LastIs(d, x, (n + m) + k)
      BY <1>8, <2>x, <3>1 DEF Registers
    <3>3. (n + m) + k = n + i
      <4>1. k \in Nat
        BY <1>15
      <4> QED BY <3>1, <4>1
    <3>4. LastIs(w, x, n + i)
      BY <1>9, <1>10, <1>12, <3>2, <3>3, LastInSecond
    <3>5. x \in Keys(w)
      BY <1>13, <3>2
    <3> QED BY <2>x, <3>4, <3>5
  <2> QED BY <1>15, <2>1, <2>2
<1>17. Registers(w, kind, h, v, n, free)
  BY <1>13, <1>14, <1>16 DEF Registers
<1> QED BY <1>17, <1>f

-----------------------------------------------------------------------------
(* The members of a class that is made.                                    *)

Making(f, h, d) == f = Top /\ f.want = <<>> /\ h = f.hdl /\ d = DefOf(h)

LEMMA OwnListMade ==
  ASSUME NEW h, NEW p, IsList(p), NEW o, DOMAIN o = DOMAIN p, o = [k \in DOMAIN o |-> o[k]],
         \A k \in DOMAIN o : o[k] = <<h[1], h[2], h[3], p[k]>>
  PROVE  OwnList(h, p, o)
<1>1. Len(p) \in Nat /\ DOMAIN p = 1 .. Len(p)
  BY ListFacts
<1>2. o = [k \in 1 .. Len(p) |-> o[k]]
  BY <1>1
<1>3. IsList(o)
  BY <1>1, <1>2, ListMade
<1> QED BY <1>3 DEF OwnList

LEMMA OwnLists ==
  ASSUME IInv, Runs("load"), NEW f, NEW h, NEW d, Making(f, h, d)
  PROVE  /\ h = <<h[1], h[2], h[3]>> /\ Unbound(jvm, h[1], h[3])
         /\ Parts(f) /\ WellFormed(d) /\ SuperOf(f) \in 0 .. Len(classes)
         /\ OwnList(h, d.direct, OwnDirect(f)) /\ OwnList(h, d.virtual, OwnVirtual(f))
         /\ OwnList(h, FieldNames(d.static), OwnFields(f, "static"))
         /\ OwnList(h, FieldNames(d.instance), OwnFields(f, "instance"))
<1>1. f = Top /\ f.want = <<>> /\ h = f.hdl /\ d = DefOf(h) /\ d = DefOf(f.hdl)
  BY DEF Making
<1>2. Parts(f) /\ WellFormed(d) /\ SuperOf(f) \in 0 .. Len(classes)
  BY <1>1, PartsMade
<1>3. f.op = "load" /\ LoadFrame(f) /\ OpenFrame(jvm, f)
  BY <1>1, LoadTop
<1>4. h = <<h[1], h[2], h[3]>>
  <2>1. PICK a, b, c, w, g : f = [op |-> "load", hdl |-> <<a, b, c>>, want |-> w, got |-> g]
    BY <1>3 DEF LoadFrame
  <2> QED BY <1>1, <2>1
<1>5. Unbound(jvm, h[1], h[3])
  BY <1>1, <1>3 DEF OpenFrame
<1>6. \A m : OwnMember(f, m) = <<h[1], h[2], h[3], m>>
  <2> TAKE m
  <2>1. OwnMember(f, m) = h \o <<m>>
    BY <1>1 DEF OwnMember
  <2>2. <<h[1], h[2], h[3]>> \o <<m>> = <<h[1], h[2], h[3], m>>
    BY TuplesJoined
  <2> QED BY <1>4, <2>1, <2>2
<1>7. IsList(d.direct) /\ IsList(d.virtual) /\ IsList(d.static) /\ IsList(d.instance)
  BY <1>2 DEF WellFormed
<1>8. OwnList(h, d.direct, OwnDirect(f))
  <2>o. PICK o : o = OwnDirect(f)
    OBVIOUS
  <2>p. PICK p : p = d.direct
    OBVIOUS
  <2>1. /\ DOMAIN o = DOMAIN p /\ o = [k \in DOMAIN o |-> o[k]]
        /\ \A k \in DOMAIN o : o[k] = OwnMember(f, p[k])
    BY <1>1, <2>o, <2>p DEF OwnDirect
  <2> QED BY <1>6, <1>7, <2>1, <2>o, <2>p, OwnListMade
<1>9. OwnList(h, d.virtual, OwnVirtual(f))
  <2>o. PICK o : o = OwnVirtual(f)
    OBVIOUS
  <2>p. PICK p : p = d.virtual
    OBVIOUS
  <2>1. /\ DOMAIN o = DOMAIN p /\ o = [k \in DOMAIN o |-> o[k]]
        /\ \A k \in DOMAIN o : o[k] = OwnMember(f, p[k])
    BY <1>1, <2>o, <2>p DEF OwnVirtual
  <2> QED BY <1>6, <1>7, <2>1, <2>o, <2>p, OwnListMade
<1>10. ASSUME NEW tbl \in {"static", "instance"} PROVE OwnList(h, FieldNames(d[tbl]), OwnFields(f, tbl))
  <2>o. PICK o : o = OwnFields(f, tbl)
    OBVIOUS
  <2>p. PICK p : p = FieldNames(d[tbl])
    OBVIOUS
  <2>1. /\ DOMAIN p = DOMAIN d[tbl] /\ p = [k \in DOMAIN p |-> p[k]]
        /\ \A k \in DOMAIN p : p[k] = d[tbl][k].name
    BY <2>p DEF FieldNames
  <2>2. /\ DOMAIN o = DOMAIN p /\ o = [k \in DOMAIN o |-> o[k]]
        /\ \A k \in DOMAIN o : o[k] = OwnMember(f, p[k])
    BY <1>1, <2>1, <2>o DEF OwnFields
  <2>3. IsList(p)
    <3>1. IsList(d[tbl])
      BY <1>7, <1>10
    <3>2. Len(d[tbl]) \in Nat /\ DOMAIN d[tbl] = 1 .. Len(d[tbl])
      BY <3>1, ListFacts
    <3>3. p = [k \in 1 .. Len(d[tbl]) |-> p[k]]
      BY <2>1, <3>2
    <3> QED BY <3>2, <3>3, ListMade
  <2> QED BY <1>6, <2>2, <2>3, <2>o, <2>p, OwnListMade
<1>11. /\ OwnList(h, FieldNames(d.static), OwnFields(f, "static"))
       /\ OwnList(h, FieldNames(d.instance), OwnFields(f, "instance"))
  BY <1>10
<1> QED BY <1>2, <1>4, <1>5, <1>8, <1>9, <1>11

LEMMA NamesJoined ==
  ASSUME NEW s, NEW t, IsList(s), IsList(t), NEW w, Joined(s, t, w), NoneTwice(FieldNames(w)),
         NEW r, Joined(FieldNames(s), FieldNames(t), r)
  PROVE  NoneTwice(r)
<1>1. /\ Len(s) \in Nat /\ DOMAIN s = 1 .. Len(s) /\ Len(t) \in Nat /\ DOMAIN t = 1 .. Len(t)
      /\ \A k \in DOMAIN s : k \in DOMAIN w /\ w[k] = s[k]
      /\ \A k \in DOMAIN t : Len(s) + k \in DOMAIN w /\ w[Len(s) + k] = t[k]
  BY JoinedFacts
<1>a. PICK a : a = FieldNames(s)
  OBVIOUS
<1>b. PICK b : b = FieldNames(t)
  OBVIOUS
<1>n. PICK n : n = FieldNames(w)
  OBVIOUS
<1>2. /\ DOMAIN a = DOMAIN s /\ a = [k \in 1 .. Len(s) |-> a[k]] /\ \A k \in DOMAIN s : a[k] = s[k].name
      /\ DOMAIN b = DOMAIN t /\ b = [k \in 1 .. Len(t) |-> b[k]] /\ \A k \in DOMAIN t : b[k] = t[k].name
      /\ DOMAIN n = DOMAIN w /\ \A k \in DOMAIN w : n[k] = w[k].name
  BY <1>1, <1>a, <1>b, <1>n DEF FieldNames
<1>3. IsList(a) /\ Len(a) = Len(s)
  BY <1>1, <1>2, ListMade
<1>4. IsList(b)
  BY <1>1, <1>2, ListMade
<1>5. /\ \A k \in DOMAIN a : r[k] = a[k]
      /\ \A k \in DOMAIN b : r[Len(a) + k] = b[k]
      /\ \A k \in DOMAIN r : k \in DOMAIN a \/ \E i \in DOMAIN b : k = Len(a) + i
  <2>1. Joined(a, b, r)
    BY <1>a, <1>b
  <2> QED BY ONLY <1>3, <1>4, <2>1, JoinedFacts
<1>6. ASSUME NEW k \in DOMAIN r PROVE k \in DOMAIN n /\ r[k] = n[k]
  <2>1. CASE k \in DOMAIN a
    BY <1>1, <1>2, <1>5, <2>1
  <2>2. CASE \E i \in DOMAIN b : k = Len(a) + i
    <3>1. PICK i \in DOMAIN b : k = Len(a) + i
      BY <2>2
    <3>2. r[k] = t[i].name /\ k \in DOMAIN w /\ w[k] = t[i]
      BY <1>1, <1>2, <1>3, <1>5, <3>1
    <3> QED BY <1>2, <3>2
  <2> QED BY <1>5, <2>1, <2>2
<1>7. \A j, k \in DOMAIN n : n[j] = n[k] => j = k
  BY <1>n DEF NoneTwice
<1> QED BY <1>6, <1>7 DEF NoneTwice

(* The handles that the new members are registered under.                  *)
LEMMA MethodsRegister ==
  ASSUME IInv, VerticesInv, Runs("load"), NEW f, NEW h, NEW d, Making(f, h, d),
         NEW ms, Joined(OwnDirect(f), OwnVirtual(f), ms)
  PROVE  /\ Registers(MethodHandles(f), "method", h, ms, Len(methods),
                      \A k \in DOMAIN d.direct : d.direct[k] \notin Names(Inherited(f, "vtable")))
         /\ \E r : OwnList(h, r, ms) /\ NoneTwice(r)
<1>1. /\ Parts(f) /\ WellFormed(d) /\ h = f.hdl
      /\ OwnList(h, d.direct, OwnDirect(f)) /\ OwnList(h, d.virtual, OwnVirtual(f))
  BY OwnLists DEF Making
<1>n. PICK n \in Nat : n = Len(methods)
  BY ListFacts DEF VerticesInv
<1>p. PICK p : p = d.direct
  OBVIOUS
<1>q. PICK q : q = d.virtual
  OBVIOUS
<1>o. PICK o : o = OwnDirect(f)
  OBVIOUS
<1>u. PICK u : u = OwnVirtual(f)
  OBVIOUS
<1>e. PICK e : e = Inherited(f, "dtable")
  OBVIOUS
<1>g. PICK g : g = Inherited(f, "vtable")
  OBVIOUS
<1>w. PICK w : w = MethodHandles(f)
  OBVIOUS
<1>r. PICK r : Joined(p, q, r)
  BY DEF Joined
<1>2. OwnList(h, p, o) /\ OwnList(h, q, u) /\ Joined(o, u, ms)
  BY <1>1, <1>p, <1>q, <1>o, <1>u
<1>3. IsList(e) /\ IsList(g)
  BY <1>1, <1>e, <1>g DEF Parts, Tables
<1>4. NoneTwice(r)
  BY <1>1, <1>p, <1>q, <1>r DEF WellFormed, Joined
<1>5. RegisteredBy(w, f, "method", e, o, g, u, n)
  BY <1>w, <1>e, <1>o, <1>g, <1>u, <1>n DEF RegisteredBy, MethodHandles
<1>6. Registers(w, "method", h, ms, n, \A k \in DOMAIN p : p[k] \notin Names(g))
  BY <1>1, <1>2, <1>3, <1>4, <1>5, <1>r, FourRegister
<1>7. OwnList(h, r, ms)
  BY <1>2, <1>r, OwnJoined
<1> QED BY <1>4, <1>6, <1>7, <1>w, <1>n, <1>p, <1>g

LEMMA FieldsRegister ==
  ASSUME IInv, VerticesInv, Runs("load"), NEW f, NEW h, NEW d, Making(f, h, d),
         NEW fs, Joined(OwnFields(f, "static"), OwnFields(f, "instance"), fs)
  PROVE  /\ Registers(FieldHandles(f), "field", h, fs, Len(fields),
                      \A k \in DOMAIN d.static : d.static[k].name \notin Names(Inherited(f, "instance")))
         /\ \E r : OwnList(h, r, fs) /\ NoneTwice(r)
<1>1. /\ Parts(f) /\ WellFormed(d) /\ h = f.hdl
      /\ OwnList(h, FieldNames(d.static), OwnFields(f, "static"))
      /\ OwnList(h, FieldNames(d.instance), OwnFields(f, "instance"))
  BY OwnLists DEF Making
<1>n. PICK n \in Nat : n = Len(fields)
  BY ListFacts DEF VerticesInv
<1>p. PICK p : p = FieldNames(d.static)
  OBVIOUS
<1>q. PICK q : q = FieldNames(d.instance)
  OBVIOUS
<1>o. PICK o : o = OwnFields(f, "static")
  OBVIOUS
<1>u. PICK u : u = OwnFields(f, "instance")
  OBVIOUS
<1>e. PICK e : e = Inherited(f, "static")
  OBVIOUS
<1>g. PICK g : g = Inherited(f, "instance")
  OBVIOUS
<1>w. PICK w : w = FieldHandles(f)
  OBVIOUS
<1>r. PICK r : Joined(p, q, r)
  BY DEF Joined
<1>2. OwnList(h, p, o) /\ OwnList(h, q, u) /\ Joined(o, u, fs)
  BY <1>1, <1>p, <1>q, <1>o, <1>u
<1>3. IsList(e) /\ IsList(g)
  BY <1>1, <1>e, <1>g DEF Parts, Tables
<1>4. NoneTwice(r)
  <2>s. PICK s : s = d.static
    OBVIOUS
  <2>t. PICK t : t = d.instance
    OBVIOUS
  <2>b. PICK b : Joined(s, t, b)
    BY DEF Joined
  <2>1. IsList(s) /\ IsList(t) /\ NoneTwice(FieldNames(b))
    BY <1>1, <2>s, <2>t, <2>b DEF WellFormed, Joined
  <2>2. Joined(FieldNames(s), FieldNames(t), r)
    BY <1>p, <1>q, <1>r, <2>s, <2>t
  <2> QED BY <2>1, <2>2, <2>b, NamesJoined
<1>5. RegisteredBy(w, f, "field", e, o, g, u, n)
  BY <1>w, <1>e, <1>o, <1>g, <1>u, <1>n DEF RegisteredBy, FieldHandles
<1>6. Registers(w, "field", h, fs, n, \A k \in DOMAIN p : p[k] \notin Names(g))
  BY <1>1, <1>2, <1>3, <1>4, <1>5, <1>r, FourRegister
<1>7. OwnList(h, r, fs)
  BY <1>2, <1>r, OwnJoined
<1>8. (\A k \in DOMAIN p : p[k] \notin Names(g))
        = (\A k \in DOMAIN d.static : d.static[k].name \notin Names(Inherited(f, "instance")))
  BY <1>p, <1>g DEF FieldNames
<1> QED BY <1>4, <1>6, <1>7, <1>8, <1>w, <1>n

(* The handles of the file: those of the members in turn.                  *)
NumberedBy(w, kind, s, n) == w = [k \in DOMAIN s |-> <<<<kind, s[k]>>, n + k>>]

LEMMA NumberedLast ==
  ASSUME NEW kind, NEW h, NEW r, NEW s, OwnList(h, r, s), NoneTwice(r), NEW n,
         NEW w, NumberedBy(w, kind, s, n)
  PROVE  /\ IsList(w) /\ Keys(w) = {<<kind, s[k]>> : k \in DOMAIN s}
         /\ \A k \in DOMAIN s : LastIs(w, <<kind, s[k]>>, n + k)
<1>1. Len(s) \in Nat /\ DOMAIN s = 1 .. Len(s)
  BY ListFacts DEF OwnList
<1>2. /\ w = [k \in 1 .. Len(s) |-> w[k]] /\ DOMAIN w = DOMAIN s
      /\ \A k \in DOMAIN s : w[k][1] = <<kind, s[k]>> /\ w[k][2] = n + k
  BY <1>1 DEF NumberedBy
<1>3. IsList(w)
  BY <1>1, <1>2, ListMade
<1>4. ASSUME NEW i \in DOMAIN s PROVE LastIs(w, <<kind, s[i]>>, n + i)
  <2>x. PICK x : x = <<kind, s[i]>>
    OBVIOUS
  <2>1. i \in DOMAIN w /\ w[i][1] = x /\ w[i][2] = n + i
    BY <1>2, <2>x
  <2>2. ASSUME NEW j \in DOMAIN w, j > i PROVE w[j][1] # x
    <3>1. i \in DOMAIN r /\ j \in DOMAIN r /\ j # i /\ j \in DOMAIN s
      BY <1>1, <1>2, <2>2 DEF OwnList
    <3>2. r[j] # r[i]
      BY <3>1 DEF NoneTwice
    <3>3. s[j] = <<h[1], h[2], h[3], r[j]>> /\ s[i] = <<h[1], h[2], h[3], r[i]>>
      BY <3>1 DEF OwnList
    <3>4. s[j] # s[i]
      BY <3>2, <3>3
    <3>5. w[j][1] = <<kind, s[j]>>
      BY <1>2, <3>1
    <3> QED BY <2>x, <3>4, <3>5
  <2>3. LastIs(w, x, n + i)
    BY <2>1, <2>2 DEF LastIs
  <2> QED BY <2>3, <2>x
<1>5. Keys(w) = {<<kind, s[k]>> : k \in DOMAIN s}
  <2>1. \A k \in DOMAIN w : k \in DOMAIN s /\ w[k][1] = <<kind, s[k]>>
    BY <1>2
  <2>2. \A k \in DOMAIN s : k \in DOMAIN w
    BY <1>2
  <2>3. ASSUME NEW x \in Keys(w) PROVE \E k \in DOMAIN s : x = <<kind, s[k]>>
    <3>1. PICK k \in DOMAIN w : x = w[k][1]
      BY DEF Keys
    <3> QED BY <2>1, <3>1
  <2>4. ASSUME NEW k \in DOMAIN s PROVE <<kind, s[k]>> \in Keys(w)
    BY <2>1, <2>2 DEF Keys
  <2> QED BY <2>3, <2>4
<1> QED BY <1>3, <1>4, <1>5

(* The tables after Define: the handles of the new class and its members.  *)
LEMMA DefineJvm ==
  ASSUME IInv, VerticesInv, Define, NEW f, NEW h, NEW d, Making(f, h, d),
         NEW ms, Joined(OwnDirect(f), OwnVirtual(f), ms),
         NEW fs, Joined(OwnFields(f, "static"), OwnFields(f, "instance"), fs)
  PROVE  /\ \A x \in DOMAIN jvm :
              x \in DOMAIN jvm' /\ (~(x[2][1] = h[1] /\ x[2][2] = h[3]) => jvm'[x] = jvm[x])
         /\ \A i \in DOMAIN ms :
              /\ <<"method", JvmOf(ms[i])>> \in DOMAIN jvm'
              /\ (\A k \in DOMAIN d.direct : d.direct[k] \notin Names(Inherited(f, "vtable"))) =>
                   jvm'[<<"method", JvmOf(ms[i])>>] = Len(methods) + i
         /\ \A i \in DOMAIN fs :
              /\ <<"field", JvmOf(fs[i])>> \in DOMAIN jvm'
              /\ (\A k \in DOMAIN d.static : d.static[k].name \notin Names(Inherited(f, "instance"))) =>
                   jvm'[<<"field", JvmOf(fs[i])>>] = Len(fields) + i
<1>m. PICK free : free = (\A k \in DOMAIN d.direct : d.direct[k] \notin Names(Inherited(f, "vtable")))
  OBVIOUS
<1>s. PICK open : open = (\A k \in DOMAIN d.static : d.static[k].name \notin Names(Inherited(f, "instance")))
  OBVIOUS
<1>p. PICK p : p = FieldHandles(f)
  OBVIOUS
<1>q. PICK q : q = MethodHandles(f)
  OBVIOUS
<1>w. PICK w : w = JvmHandles(f)
  OBVIOUS
<1>c. PICK c : c = <<"class", ClassJvm(h)>>
  OBVIOUS
<1>e. PICK e : e = <<c, Len(classes) + 1>>
  OBVIOUS
<1>1. Registers(p, "field", h, fs, Len(fields), open) /\ Registers(q, "method", h, ms, Len(methods), free)
  BY <1>m, <1>s, <1>p, <1>q, MethodsRegister, FieldsRegister DEF Define
<1>2. h = f.hdl /\ f = Top
  BY DEF Making
<1>3. jvm' = BindAll(jvm, w)
  BY <1>2, <1>w DEF Define
<1>a. PICK a : Joined(p, q, a)
  BY DEF Joined
<1>b. PICK b : b = <<e>>
  OBVIOUS
<1>4. Joined(a, b, w)
  BY <1>2, <1>a, <1>b, <1>c, <1>e, <1>p, <1>q, <1>w DEF Joined, JvmHandles
<1>5. IsList(b) /\ Keys(b) = {c}
  <2>1. IsList(<<e>>) /\ <<e>>[1] = e /\ DOMAIN <<e>> = {1}
    BY ListOne
  <2>2. e[1] = c
    BY <1>e
  <2> QED BY <1>b, <2>1, <2>2 DEF Keys
<1>6. IsList(p) /\ IsList(q)
  BY <1>1 DEF Registers
<1>7. IsList(a) /\ Keys(a) = Keys(p) \cup Keys(q)
  BY <1>6, <1>a, JoinedKeys
<1>8. IsList(w) /\ Keys(w) = Keys(a) \cup Keys(b)
  BY <1>4, <1>5, <1>7, JoinedKeys
<1>9. c[1] = "class" /\ c[2][1] = h[1] /\ c[2][2] = h[3]
  BY <1>c DEF ClassJvm
<1>10. \A x \in Keys(w) : x[2][1] = h[1] /\ x[2][2] = h[3]
  BY <1>1, <1>5, <1>7, <1>8, <1>9 DEF Registers
<1>11. ASSUME NEW x \in DOMAIN jvm
       PROVE  x \in DOMAIN jvm' /\ (~(x[2][1] = h[1] /\ x[2][2] = h[3]) => jvm'[x] = jvm[x])
  <2>1. x \in DOMAIN jvm'
    BY <1>3, BindAllDomain
  <2>2. ASSUME ~(x[2][1] = h[1] /\ x[2][2] = h[3]) PROVE jvm'[x] = jvm[x]
    <3>1. x \notin Keys(w)
      BY <1>10, <2>2
    <3> QED BY <1>3, <3>1, BindAllOther
  <2> QED BY <2>1, <2>2
<1>12. ASSUME NEW i \in DOMAIN ms
       PROVE  /\ <<"method", JvmOf(ms[i])>> \in DOMAIN jvm'
              /\ free => jvm'[<<"method", JvmOf(ms[i])>>] = Len(methods) + i
  <2>x. PICK x : x = <<"method", JvmOf(ms[i])>>
    OBVIOUS
  <2>v. PICK v : v = Len(methods) + i
    OBVIOUS
  <2>1. x \in Keys(q) /\ (free => LastIs(q, x, v))
    BY <1>1, <2>x, <2>v DEF Registers
  <2>2. x \in DOMAIN jvm'
    <3>1. x \in Keys(w)
      BY <1>7, <1>8, <2>1
    <3>2. DOMAIN jvm' = DOMAIN jvm \cup Keys(w)
      BY <1>3, BindAllDomain
    <3> QED BY <3>1, <3>2
  <2>3. ASSUME free PROVE jvm'[x] = v
    <3>1. LastIs(a, x, v)
      BY <1>6, <1>a, <2>1, <2>3, LastInSecond
    <3>2. x \notin Keys(b)
      <4>1. x[1] = "method"
        BY <2>x
      <4> QED BY <1>5, <1>9, <4>1
    <3>3. LastIs(w, x, v)
      BY <1>4, <1>5, <1>7, <3>1, <3>2, LastInFirst
    <3> QED BY <1>3, <1>8, <3>3, LastBinds
  <2> QED BY <2>2, <2>3, <2>x, <2>v
<1>13. ASSUME NEW i \in DOMAIN fs
       PROVE  /\ <<"field", JvmOf(fs[i])>> \in DOMAIN jvm'
              /\ open => jvm'[<<"field", JvmOf(fs[i])>>] = Len(fields) + i
  <2>x. PICK x : x = <<"field", JvmOf(fs[i])>>
    OBVIOUS
  <2>v. PICK v : v = Len(fields) + i
    OBVIOUS
  <2>0. x[1] = "field"
    BY <2>x
  <2>1. x \in Keys(p) /\ (open => LastIs(p, x, v))
    BY <1>1, <2>x, <2>v DEF Registers
  <2>2. x \in DOMAIN jvm'
    <3>1. x \in Keys(w)
      BY <1>7, <1>8, <2>1
    <3>2. DOMAIN jvm' = DOMAIN jvm \cup Keys(w)
      BY <1>3, BindAllDomain
    <3> QED BY <3>1, <3>2
  <2>3. ASSUME open PROVE jvm'[x] = v
    <3>1. x \notin Keys(q)
      BY <1>1, <2>0 DEF Registers
    <3>2. LastIs(a, x, v)
      BY <1>6, <1>a, <2>1, <2>3, <3>1, LastInFirst
    <3>3. x \notin Keys(b)
      BY <1>5, <1>9, <2>0
    <3>4. LastIs(w, x, v)
      BY <1>4, <1>5, <1>7, <3>2, <3>3, LastInFirst
    <3> QED BY <1>3, <1>8, <3>4, LastBinds
  <2> QED BY <2>2, <2>3, <2>x, <2>v
<1> QED BY <1>11, <1>12, <1>13, <1>m, <1>s

LEMMA DefineDex ==
  ASSUME IInv, VerticesInv, Define, NEW f, NEW h, NEW d, Making(f, h, d),
         NEW ms, Joined(OwnDirect(f), OwnVirtual(f), ms),
         NEW fs, Joined(OwnFields(f, "static"), OwnFields(f, "instance"), fs)
  PROVE  /\ \A x \in DOMAIN dex :
              x \in DOMAIN dex' /\ (~(x[2][1] = h[1] /\ x[2][3] = h[3]) => dex'[x] = dex[x])
         /\ \A i \in DOMAIN ms :
              <<"method", ms[i]>> \in DOMAIN dex' /\ dex'[<<"method", ms[i]>>] = Len(methods) + i
         /\ \A i \in DOMAIN fs :
              <<"field", fs[i]>> \in DOMAIN dex' /\ dex'[<<"field", fs[i]>>] = Len(fields) + i
         /\ \A x \in DOMAIN dex' :
              \/ x \in DOMAIN dex \/ x[1] = "class"
              \/ \E i \in DOMAIN ms : x = <<"method", ms[i]>>
              \/ \E i \in DOMAIN fs : x = <<"field", fs[i]>>
<1>w. PICK w : w = DexHandles(f)
  OBVIOUS
<1>c. PICK c : c = <<"class", h>>
  OBVIOUS
<1>e. PICK e : e = <<c, Len(classes) + 1>>
  OBVIOUS
<1>1. /\ \E r : OwnList(h, r, ms) /\ NoneTwice(r)
      /\ \E r : OwnList(h, r, fs) /\ NoneTwice(r)
  BY MethodsRegister, FieldsRegister DEF Define
<1>2. h = f.hdl /\ f = Top
  BY DEF Making
<1>3. dex' = BindAll(dex, w)
  BY <1>2, <1>w DEF Define
<1>i. PICK i : OwnList(h, i, ms) /\ NoneTwice(i)
  BY <1>1
<1>j. PICK j : OwnList(h, j, fs) /\ NoneTwice(j)
  BY <1>1
<1>q. PICK q : NumberedBy(q, "method", ms, Len(methods))
  BY DEF NumberedBy
<1>p. PICK p : NumberedBy(p, "field", fs, Len(fields))
  BY DEF NumberedBy
<1>4. /\ IsList(q) /\ Keys(q) = {<<"method", ms[k]>> : k \in DOMAIN ms}
      /\ \A k \in DOMAIN ms : LastIs(q, <<"method", ms[k]>>, Len(methods) + k)
  BY <1>i, <1>q, NumberedLast
<1>5. /\ IsList(p) /\ Keys(p) = {<<"field", fs[k]>> : k \in DOMAIN fs}
      /\ \A k \in DOMAIN fs : LastIs(p, <<"field", fs[k]>>, Len(fields) + k)
  BY <1>j, <1>p, NumberedLast
<1>a. PICK a : Joined(q, p, a)
  BY DEF Joined
<1>b. PICK b : b = <<e>>
  OBVIOUS
<1>6. Joined(a, b, w)
  BY <1>2, <1>a, <1>b, <1>c, <1>e, <1>p, <1>q, <1>w DEF Joined, DexHandles, NumberedBy
<1>7. IsList(b) /\ Keys(b) = {c}
  <2>1. IsList(<<e>>) /\ <<e>>[1] = e /\ DOMAIN <<e>> = {1}
    BY ListOne
  <2>2. e[1] = c
    BY <1>e
  <2> QED BY <1>b, <2>1, <2>2 DEF Keys
<1>8. IsList(a) /\ Keys(a) = Keys(q) \cup Keys(p)
  BY <1>4, <1>5, <1>a, JoinedKeys
<1>9. IsList(w) /\ Keys(w) = Keys(a) \cup Keys(b)
  BY <1>6, <1>7, <1>8, JoinedKeys
<1>10. c[1] = "class" /\ c[2] = h
  BY <1>c
<1>11. \A k \in DOMAIN ms : ms[k][1] = h[1] /\ ms[k][3] = h[3]
  BY <1>i DEF OwnList
<1>12. \A k \in DOMAIN fs : fs[k][1] = h[1] /\ fs[k][3] = h[3]
  BY <1>j DEF OwnList
<1>13. ASSUME NEW x \in Keys(w)
       PROVE  \/ x = c
              \/ \E k \in DOMAIN ms : x = <<"method", ms[k]>>
              \/ \E k \in DOMAIN fs : x = <<"field", fs[k]>>
  BY <1>4, <1>5, <1>7, <1>8, <1>9
<1>14. \A x \in Keys(w) : x[2][1] = h[1] /\ x[2][3] = h[3]
  <2> TAKE x \in Keys(w)
  <2>1. CASE x = c
    BY <1>10, <2>1
  <2>2. CASE \E k \in DOMAIN ms : x = <<"method", ms[k]>>
    <3>1. PICK k \in DOMAIN ms : x = <<"method", ms[k]>>
      BY <2>2
    <3>2. x[2] = ms[k]
      BY <3>1
    <3> QED BY <1>11, <3>2
  <2>3. CASE \E k \in DOMAIN fs : x = <<"field", fs[k]>>
    <3>1. PICK k \in DOMAIN fs : x = <<"field", fs[k]>>
      BY <2>3
    <3>2. x[2] = fs[k]
      BY <3>1
    <3> QED BY <1>12, <3>2
  <2> QED BY <1>13, <2>1, <2>2, <2>3
<1>15. ASSUME NEW x \in DOMAIN dex
       PROVE  x \in DOMAIN dex' /\ (~(x[2][1] = h[1] /\ x[2][3] = h[3]) => dex'[x] = dex[x])
  <2>1. x \in DOMAIN dex'
    BY <1>3, BindAllDomain
  <2>2. ASSUME ~(x[2][1] = h[1] /\ x[2][3] = h[3]) PROVE dex'[x] = dex[x]
    <3>1. x \notin Keys(w)
      BY <1>14, <2>2
    <3> QED BY <1>3, <3>1, BindAllOther
  <2> QED BY <2>1, <2>2
<1>16. ASSUME NEW k \in DOMAIN ms
       PROVE  <<"method", ms[k]>> \in DOMAIN dex' /\ dex'[<<"method", ms[k]>>] = Len(methods) + k
  <2>x. PICK x : x = <<"method", ms[k]>>
    OBVIOUS
  <2>v. PICK v : v = Len(methods) + k
    OBVIOUS
  <2>0. x[1] = "method"
    BY <2>x
  <2>1. LastIs(q, x, v)
    BY <1>4, <2>x, <2>v
  <2>2. x \notin Keys(p)
    <3>1. \A y \in Keys(p) : y[1] = "field"
      BY <1>5
    <3> QED BY <2>0, <3>1
  <2>3. LastIs(a, x, v)
    BY <1>4, <1>5, <1>a, <2>1, <2>2, LastInFirst
  <2>4. LastIs(w, x, v)
    <3>1. x \notin Keys(b)
      BY <1>7, <1>10, <2>0
    <3> QED BY <1>6, <1>7, <1>8, <2>3, <3>1, LastInFirst
  <2>5. x \in DOMAIN dex' /\ dex'[x] = v
    BY <1>3, <1>9, <2>4, LastBinds
  <2> QED BY <2>5, <2>x, <2>v
<1>17. ASSUME NEW k \in DOMAIN fs
       PROVE  <<"field", fs[k]>> \in DOMAIN dex' /\ dex'[<<"field", fs[k]>>] = Len(fields) + k
  <2>x. PICK x : x = <<"field", fs[k]>>
    OBVIOUS
  <2>v. PICK v : v = Len(fields) + k
    OBVIOUS
  <2>0. x[1] = "field"
    BY <2>x
  <2>1. LastIs(p, x, v)
    BY <1>5, <2>x, <2>v
  <2>2. LastIs(a, x, v)
    BY <1>4, <1>5, <1>a, <2>1, LastInSecond
  <2>3. LastIs(w, x, v)
    <3>1. x \notin Keys(b)
      BY <1>7, <1>10, <2>0
    <3> QED BY <1>6, <1>7, <1>8, <2>2, <3>1, LastInFirst
  <2>4. x \in DOMAIN dex' /\ dex'[x] = v
    BY <1>3, <1>9, <2>3, LastBinds
  <2> QED BY <2>4, <2>x, <2>v
<1>18. ASSUME NEW x \in DOMAIN dex'
       PROVE  \/ x \in DOMAIN dex \/ x[1] = "class"
              \/ \E k \in DOMAIN ms : x = <<"method", ms[k]>>
              \/ \E k \in DOMAIN fs : x = <<"field", fs[k]>>
  <2>1. x \in DOMAIN dex \/ x \in Keys(w)
    BY <1>3, BindAllDomain
  <2> QED BY <1>10, <1>13, <2>1
<1> QED BY <1>15, <1>16, <1>17, <1>18

(* The new vertices come after the old ones.                               *)
Added(s, a, b, w) == w = s \o a \o b

LEMMA AddedFacts ==
  ASSUME NEW s, NEW a, NEW b, IsList(s), IsList(a), IsList(b), NEW w, Added(s, a, b, w)
  PROVE  /\ IsList(w)
         /\ \A k \in 1 .. Len(s) : w[k] = s[k]
         /\ \A k \in 1 .. Len(w) :
              \/ k \in 1 .. Len(s)
              \/ \E i \in DOMAIN a : k = Len(s) + i /\ w[k] = a[i]
              \/ \E i \in DOMAIN b : k = Len(s) + (Len(a) + i) /\ w[k] = b[i]
<1>y. PICK y : Joined(s, a, y)
  BY DEF Joined
<1>1. Joined(y, b, w)
  BY <1>y DEF Joined, Added
<1>2. /\ IsList(y) /\ Len(y) = Len(s) + Len(a)
      /\ Len(s) \in Nat /\ Len(a) \in Nat /\ DOMAIN s = 1 .. Len(s) /\ DOMAIN a = 1 .. Len(a)
      /\ \A k \in DOMAIN s : k \in DOMAIN y /\ y[k] = s[k]
      /\ \A k \in DOMAIN a : Len(s) + k \in DOMAIN y /\ y[Len(s) + k] = a[k]
      /\ \A k \in DOMAIN y : k \in DOMAIN s \/ \E i \in DOMAIN a : k = Len(s) + i
  BY <1>y, JoinedFacts
<1>3. /\ IsList(w) /\ DOMAIN w = 1 .. Len(w) /\ DOMAIN b = 1 .. Len(b) /\ Len(b) \in Nat
      /\ \A k \in DOMAIN y : k \in DOMAIN w /\ w[k] = y[k]
      /\ \A k \in DOMAIN b : Len(y) + k \in DOMAIN w /\ w[Len(y) + k] = b[k]
      /\ \A k \in DOMAIN w : k \in DOMAIN y \/ \E i \in DOMAIN b : k = Len(y) + i
  <2>1. IsList(y) /\ IsList(b)
    BY <1>2
  <2> QED BY ONLY <1>1, <2>1, JoinedFacts
<1>4. \A k \in 1 .. Len(s) : w[k] = s[k]
  BY <1>2, <1>3
<1>5. ASSUME NEW k \in 1 .. Len(w)
      PROVE  \/ k \in 1 .. Len(s)
             \/ \E i \in DOMAIN a : k = Len(s) + i /\ w[k] = a[i]
             \/ \E i \in DOMAIN b : k = Len(s) + (Len(a) + i) /\ w[k] = b[i]
  <2>1. CASE k \in DOMAIN y
    BY <1>2, <1>3, <2>1
  <2>2. CASE \E i \in DOMAIN b : k = Len(y) + i
    <3>1. PICK i \in DOMAIN b : k = Len(y) + i
      BY <2>2
    <3>2. w[k] = b[i]
      BY <1>3, <3>1
    <3>3. k = Len(s) + (Len(a) + i)
      BY <1>2, <1>3, <3>1
    <3> QED BY <3>2, <3>3
  <2> QED BY <1>3, <2>1, <2>2
<1> QED BY <1>3, <1>4, <1>5

LEMMA DefineVertices ==
  ASSUME IInv, VerticesInv, Define, NEW f, NEW h, NEW d, Making(f, h, d),
         NEW ms, Joined(OwnDirect(f), OwnVirtual(f), ms),
         NEW fs, Joined(OwnFields(f, "static"), OwnFields(f, "instance"), fs)
  PROVE  /\ IsList(methods') /\ IsList(fields')
         /\ \A v \in 1 .. Len(methods) : methods'[v] = methods[v]
         /\ \A v \in 1 .. Len(fields) : fields'[v] = fields[v]
         /\ \A v \in 1 .. Len(methods') :
              \/ v \in 1 .. Len(methods)
              \/ \E i \in DOMAIN ms : v = Len(methods) + i /\ methods'[v] = ms[i]
         /\ \A v \in 1 .. Len(fields') :
              \/ v \in 1 .. Len(fields)
              \/ \E i \in DOMAIN fs : v = Len(fields) + i /\ fields'[v].hdl = fs[i]
<1>1. Parts(f) /\ f = Top
  BY OwnLists DEF Making, Define
<1>2. IsList(methods) /\ IsList(fields)
  BY DEF VerticesInv
<1>3. /\ IsList(methods')
      /\ \A v \in 1 .. Len(methods) : methods'[v] = methods[v]
      /\ \A v \in 1 .. Len(methods') :
           \/ v \in 1 .. Len(methods)
           \/ \E i \in DOMAIN ms : v = Len(methods) + i /\ methods'[v] = ms[i]
  <2>w. PICK w : w = methods'
    OBVIOUS
  <2>a. PICK a : a = OwnDirect(f)
    OBVIOUS
  <2>b. PICK b : b = OwnVirtual(f)
    OBVIOUS
  <2>1. Added(methods, a, b, w)
    BY <1>1, <2>w, <2>a, <2>b DEF Define, Added
  <2>2. IsList(a) /\ IsList(b) /\ Joined(a, b, ms)
    BY <1>1, <2>a, <2>b DEF Parts
  <2>3. /\ IsList(w)
        /\ \A k \in 1 .. Len(methods) : w[k] = methods[k]
        /\ \A k \in 1 .. Len(w) :
             \/ k \in 1 .. Len(methods)
             \/ \E i \in DOMAIN a : k = Len(methods) + i /\ w[k] = a[i]
             \/ \E i \in DOMAIN b : k = Len(methods) + (Len(a) + i) /\ w[k] = b[i]
    BY ONLY <1>2, <2>1, <2>2, AddedFacts
  <2>4. /\ \A k \in DOMAIN a : k \in DOMAIN ms /\ ms[k] = a[k]
        /\ \A k \in DOMAIN b : Len(a) + k \in DOMAIN ms /\ ms[Len(a) + k] = b[k]
    BY ONLY <2>2, JoinedFacts
  <2>5. \A k \in 1 .. Len(w) :
          k \in 1 .. Len(methods) \/ \E i \in DOMAIN ms : k = Len(methods) + i /\ w[k] = ms[i]
    BY ONLY <2>3, <2>4
  <2> QED BY <2>3, <2>5, <2>w
<1>4. /\ IsList(fields')
      /\ \A v \in 1 .. Len(fields) : fields'[v] = fields[v]
      /\ \A v \in 1 .. Len(fields') :
           \/ v \in 1 .. Len(fields)
           \/ \E i \in DOMAIN fs : v = Len(fields) + i /\ fields'[v].hdl = fs[i]
  <2>w. PICK w : w = fields'
    OBVIOUS
  <2>a. PICK a : a = NewFields(f, "static", "staticSize")
    OBVIOUS
  <2>b. PICK b : b = NewFields(f, "instance", "instanceSize")
    OBVIOUS
  <2>p. PICK p : p = OwnFields(f, "static")
    OBVIOUS
  <2>q. PICK q : q = OwnFields(f, "instance")
    OBVIOUS
  <2>1. Added(fields, a, b, w)
    BY <1>1, <2>w, <2>a, <2>b DEF Define, Added
  <2>2. IsList(p) /\ IsList(q) /\ Joined(p, q, fs)
    BY <1>1, <2>p, <2>q DEF Parts
  <2>3. /\ DOMAIN a = DOMAIN p /\ a = [k \in DOMAIN a |-> a[k]] /\ \A k \in DOMAIN p : a[k].hdl = p[k]
        /\ DOMAIN b = DOMAIN q /\ b = [k \in DOMAIN b |-> b[k]] /\ \A k \in DOMAIN q : b[k].hdl = q[k]
    BY <2>a, <2>b, <2>p, <2>q DEF NewFields
  <2>4. Len(p) \in Nat /\ DOMAIN p = 1 .. Len(p) /\ Len(q) \in Nat /\ DOMAIN q = 1 .. Len(q)
    BY <2>2, ListFacts
  <2>5. IsList(a) /\ Len(a) = Len(p) /\ IsList(b)
    <3>1. a = [k \in 1 .. Len(p) |-> a[k]] /\ b = [k \in 1 .. Len(q) |-> b[k]]
      BY <2>3, <2>4
    <3> QED BY ONLY <2>4, <3>1, ListMade
  <2>6. /\ IsList(w)
        /\ \A k \in 1 .. Len(fields) : w[k] = fields[k]
        /\ \A k \in 1 .. Len(w) :
             \/ k \in 1 .. Len(fields)
             \/ \E i \in DOMAIN a : k = Len(fields) + i /\ w[k] = a[i]
             \/ \E i \in DOMAIN b : k = Len(fields) + (Len(a) + i) /\ w[k] = b[i]
    BY ONLY <1>2, <2>1, <2>5, AddedFacts
  <2>7. /\ \A k \in DOMAIN p : k \in DOMAIN fs /\ fs[k] = p[k]
        /\ \A k \in DOMAIN q : Len(p) + k \in DOMAIN fs /\ fs[Len(p) + k] = q[k]
    BY ONLY <2>2, JoinedFacts
  <2>8. ASSUME NEW k \in 1 .. Len(w), k \notin 1 .. Len(fields)
        PROVE  \E i \in DOMAIN fs : k = Len(fields) + i /\ w[k].hdl = fs[i]
    <3>1. CASE \E i \in DOMAIN a : k = Len(fields) + i /\ w[k] = a[i]
      <4>1. PICK i \in DOMAIN a : k = Len(fields) + i /\ w[k] = a[i]
        BY <3>1
      <4>2. w[k].hdl = p[i] /\ i \in DOMAIN p
        BY <2>3, <4>1
      <4> QED BY <2>7, <4>1, <4>2
    <3>2. CASE \E i \in DOMAIN b : k = Len(fields) + (Len(a) + i) /\ w[k] = b[i]
      <4>1. PICK i \in DOMAIN b : k = Len(fields) + (Len(a) + i) /\ w[k] = b[i]
        BY <3>2
      <4>2. w[k].hdl = q[i] /\ i \in DOMAIN q
        BY <2>3, <4>1
      <4> QED BY <2>5, <2>7, <4>1, <4>2
    <3> QED BY <2>6, <2>8, <3>1, <3>2
  <2> QED BY <2>6, <2>8, <2>w
<1> QED BY <1>3, <1>4

(* A member that is there before Define keeps its handles: they name a     *)
(* class that its loader knows, and so another one than the new class.     *)
Apart(h) ==
  /\ Unbound(jvm, h[1], h[3])
  /\ \A x \in DOMAIN jvm : x \in DOMAIN jvm' /\ (~(x[2][1] = h[1] /\ x[2][2] = h[3]) => jvm'[x] = jvm[x])
  /\ \A x \in DOMAIN dex : x \in DOMAIN dex' /\ (~(x[2][1] = h[1] /\ x[2][3] = h[3]) => dex'[x] = dex[x])

LEMMA MemberStays ==
  ASSUME NEW h, Apart(h), NEW kind, NEW g, HandlesThere(kind, g)
  PROVE  /\ HandlesThere(kind, g)'
         /\ \A v : OwnHandles(kind, g, v) => OwnHandles(kind, g, v)'
<1>c. PICK c : c = ClassKey(g[1], g[3])
  OBVIOUS
<1>j. PICK j : j = <<kind, JvmOf(g)>>
  OBVIOUS
<1>d. PICK d : d = <<kind, g>>
  OBVIOUS
<1>1. j[2][1] = g[1] /\ j[2][2] = g[3] /\ d[2] = g
  BY <1>j, <1>d DEF JvmOf
<1>2. c \in DOMAIN jvm /\ j \in DOMAIN jvm /\ d \in DOMAIN dex
  BY <1>c, <1>j, <1>d DEF HandlesThere
<1>3. ~(g[1] = h[1] /\ g[3] = h[3])
  BY <1>2, <1>c DEF Apart, Unbound
<1>4. c \in DOMAIN jvm' /\ j \in DOMAIN jvm' /\ jvm'[j] = jvm[j] /\ d \in DOMAIN dex' /\ dex'[d] = dex[d]
  BY <1>1, <1>2, <1>3 DEF Apart
<1>5. HandlesThere(kind, g)'
  BY <1>4, <1>c, <1>j, <1>d DEF HandlesThere, ClassKey, JvmOf
<1>6. ASSUME NEW v, OwnHandles(kind, g, v) PROVE OwnHandles(kind, g, v)'
  <2>1. jvm[j] = v /\ dex[d] = v
    BY <1>6, <1>j, <1>d DEF OwnHandles
  <2>2. jvm'[j] = v /\ dex'[d] = v
    BY <1>4, <2>1
  <2> QED BY <2>2, <1>j, <1>d DEF OwnHandles, JvmOf
<1> QED BY <1>5, <1>6

(* What hides nothing with the new class hid nothing before, and the new   *)
(* class hides nothing.                                                    *)
LEMMA NothingHiddenBefore ==
  ASSUME IInv, ClassesInv, Define, NEW f, NEW h, NEW d, Making(f, h, d), NothingHidden'
  PROVE  /\ NothingHidden
         /\ \A k \in DOMAIN d.direct : d.direct[k] \notin Names(Inherited(f, "vtable"))
         /\ \A k \in DOMAIN d.static : d.static[k].name \notin Names(Inherited(f, "instance"))
<1>n. PICK n \in Nat : n = Len(classes)
  BY ListFacts DEF IInv, ClassInv
<1>c. PICK c : c = NewClass(f)
  OBVIOUS
<1>s. PICK s : s = SuperOf(f)
  OBVIOUS
<1>1. f = Top /\ h = f.hdl /\ d = DefOf(h) /\ d = DefOf(f.hdl)
  BY DEF Making
<1>2. s \in 0 .. n /\ Parts(f)
  BY <1>n, <1>s, OwnLists DEF Define
<1>3. c.hdl = h /\ c.super = s
  BY <1>1, <1>c, <1>s DEF NewClass
<1>4. classes' = Append(classes, c) /\ world' = world
  BY <1>1, <1>c DEF Define
<1>5. Len(classes') = n + 1 /\ classes'[n + 1] = c /\ \A v \in 1 .. n : classes'[v] = classes[v]
  <2>1. /\ Len(Append(classes, c)) = Len(classes) + 1 /\ DOMAIN classes = 1 .. Len(classes)
        /\ \A k \in DOMAIN classes : Append(classes, c)[k] = classes[k]
        /\ Append(classes, c)[Len(classes) + 1] = c
    BY ListAppend DEF IInv, ClassInv
  <2> QED BY <1>4, <1>n, <2>1
<1>6. \A v \in 1 .. n + 1 :
        classes'[v].super # 0 =>
          ~Hides(world.file[classes'[v].hdl[1]][classes'[v].hdl[2]][classes'[v].hdl[3]],
                 classes'[classes'[v].super])
  BY <1>4, <1>5 DEF NothingHidden, NothingHides
<1>7. NothingHidden
  <2> SUFFICES ASSUME NEW v \in 1 .. n, classes[v].super # 0
               PROVE  ~Hides(world.file[classes[v].hdl[1]][classes[v].hdl[2]][classes[v].hdl[3]],
                             classes[classes[v].super])
    BY <1>n DEF NothingHidden, NothingHides
  <2>1. v \in 1 .. n + 1
    OBVIOUS
  <2>u. PICK u : u = classes[v].super
    OBVIOUS
  <2>2. u \in 0 .. n
    BY <1>n, <2>u DEF ClassesInv
  <2>3. u \in 1 .. n
    BY <2>2, <2>u
  <2>4. classes'[v] = classes[v] /\ classes'[u] = classes[u]
    BY <1>5, <2>3
  <2> QED BY <1>6, <2>1, <2>4, <2>u
<1>8. s # 0 => ~Hides(d, classes[s])
  <2> SUFFICES ASSUME s # 0 PROVE ~Hides(d, classes[s])
    OBVIOUS
  <2>1. n + 1 \in 1 .. n + 1 /\ s \in 1 .. n
    BY <1>2
  <2>2. ~Hides(world.file[h[1]][h[2]][h[3]], classes'[s])
    BY <1>3, <1>5, <1>6, <2>1
  <2> QED BY <1>1, <1>5, <2>1, <2>2 DEF DefOf
<1>9. CASE Inherits(f)
  <2>1. s # 0 /\ d.hasData
    BY <1>1, <1>9, <1>s DEF Inherits
  <2>2. Inherited(f, "vtable") = classes[s].vtable /\ Inherited(f, "instance") = classes[s].instance
    BY <1>9, <1>s DEF Inherited
  <2>3. /\ \A k \in DOMAIN d.direct : d.direct[k] \notin Names(classes[s].vtable)
        /\ \A k \in DOMAIN d.static : d.static[k].name \notin Names(classes[s].instance)
    BY <1>8, <2>1 DEF Hides
  <2> QED BY <1>7, <2>2, <2>3
<1>10. CASE ~Inherits(f)
  <2>1. Inherited(f, "vtable") = <<>> /\ Inherited(f, "instance") = <<>>
    BY <1>10 DEF Inherited
  <2>2. Names(<<>>) = {}
    BY DEF Names
  <2> QED BY <1>7, <2>1, <2>2
<1> QED BY <1>9, <1>10

LEMMA DefineHandles ==
  ASSUME IInv, HInv, Define, NothingMoves
  PROVE  HInv'
<1>f. PICK f : f = Top
  OBVIOUS
<1>h. PICK h : h = f.hdl
  OBVIOUS
<1>d. PICK d : d = DefOf(h)
  OBVIOUS
<1>n. PICK n \in Nat : n = Len(classes)
  BY ListFacts DEF IInv, ClassInv
<1>c. PICK c : c = NewClass(f)
  OBVIOUS
<1>m. PICK ms : Joined(OwnDirect(f), OwnVirtual(f), ms)
  BY DEF Joined
<1>s. PICK fs : Joined(OwnFields(f, "static"), OwnFields(f, "instance"), fs)
  BY DEF Joined
<1>1. Making(f, h, d) /\ Runs("load")
  BY <1>f, <1>h, <1>d DEF Making, Define
<1>2. ClassesInv /\ VerticesInv /\ KeysInv /\ MembersInv
  BY DEF HInv
<1>3. /\ Unbound(jvm, h[1], h[3]) /\ SuperOf(f) \in 0 .. n
      /\ OwnList(h, d.direct, OwnDirect(f)) /\ OwnList(h, d.virtual, OwnVirtual(f))
      /\ OwnList(h, FieldNames(d.static), OwnFields(f, "static"))
      /\ OwnList(h, FieldNames(d.instance), OwnFields(f, "instance"))
  BY <1>1, <1>n, OwnLists
<1>k. PICK key : key = ClassKey(h[1], h[3])
  OBVIOUS
<1>4. /\ key \in DOMAIN jvm' /\ jvm'[key] = n + 1 /\ key = <<"class", ClassJvm(h)>>
      /\ <<"class", h>> \in DOMAIN dex' /\ dex'[<<"class", h>>] = n + 1
  <2>1. key = <<"class", ClassJvm(h)>>
    BY <1>k DEF ClassKey, ClassJvm
  <2> QED BY <1>f, <1>h, <1>n, <1>k, <2>1, DefineBinds
<1>5. /\ \A x \in DOMAIN jvm :
           x \in DOMAIN jvm' /\ (~(x[2][1] = h[1] /\ x[2][2] = h[3]) => jvm'[x] = jvm[x])
      /\ \A i \in DOMAIN ms :
           /\ <<"method", JvmOf(ms[i])>> \in DOMAIN jvm'
           /\ (\A k \in DOMAIN d.direct : d.direct[k] \notin Names(Inherited(f, "vtable"))) =>
                jvm'[<<"method", JvmOf(ms[i])>>] = Len(methods) + i
      /\ \A i \in DOMAIN fs :
           /\ <<"field", JvmOf(fs[i])>> \in DOMAIN jvm'
           /\ (\A k \in DOMAIN d.static : d.static[k].name \notin Names(Inherited(f, "instance"))) =>
                jvm'[<<"field", JvmOf(fs[i])>>] = Len(fields) + i
  BY <1>1, <1>2, <1>m, <1>s, DefineJvm
<1>6. /\ \A x \in DOMAIN dex :
           x \in DOMAIN dex' /\ (~(x[2][1] = h[1] /\ x[2][3] = h[3]) => dex'[x] = dex[x])
      /\ \A i \in DOMAIN ms :
           <<"method", ms[i]>> \in DOMAIN dex' /\ dex'[<<"method", ms[i]>>] = Len(methods) + i
      /\ \A i \in DOMAIN fs :
           <<"field", fs[i]>> \in DOMAIN dex' /\ dex'[<<"field", fs[i]>>] = Len(fields) + i
      /\ \A x \in DOMAIN dex' :
           \/ x \in DOMAIN dex \/ x[1] = "class"
           \/ \E i \in DOMAIN ms : x = <<"method", ms[i]>>
           \/ \E i \in DOMAIN fs : x = <<"field", fs[i]>>
  BY <1>1, <1>2, <1>m, <1>s, DefineDex
<1>7. /\ IsList(methods') /\ IsList(fields')
      /\ \A v \in 1 .. Len(methods) : methods'[v] = methods[v]
      /\ \A v \in 1 .. Len(fields) : fields'[v] = fields[v]
      /\ \A v \in 1 .. Len(methods') :
           \/ v \in 1 .. Len(methods)
           \/ \E i \in DOMAIN ms : v = Len(methods) + i /\ methods'[v] = ms[i]
      /\ \A v \in 1 .. Len(fields') :
           \/ v \in 1 .. Len(fields)
           \/ \E i \in DOMAIN fs : v = Len(fields) + i /\ fields'[v].hdl = fs[i]
  BY <1>1, <1>2, <1>m, <1>s, DefineVertices
<1>8. Apart(h)
  BY <1>3, <1>5, <1>6 DEF Apart
<1>9. /\ \A i \in DOMAIN ms : ms[i][1] = h[1] /\ ms[i][3] = h[3]
      /\ \A i \in DOMAIN fs : fs[i][1] = h[1] /\ fs[i][3] = h[3]
  <2>o. PICK o : o = OwnDirect(f)
    OBVIOUS
  <2>u. PICK u : u = OwnVirtual(f)
    OBVIOUS
  <2>p. PICK p : p = OwnFields(f, "static")
    OBVIOUS
  <2>q. PICK q : q = OwnFields(f, "instance")
    OBVIOUS
  <2>1. \A a, b, j, k, w : OwnList(h, a, j) /\ OwnList(h, b, k) /\ Joined(j, k, w) =>
          \A i \in DOMAIN w : w[i][1] = h[1] /\ w[i][3] = h[3]
    <3> TAKE a, b, j, k, w
    <3> HAVE OwnList(h, a, j) /\ OwnList(h, b, k) /\ Joined(j, k, w)
    <3>r. PICK r : Joined(a, b, r)
      BY DEF Joined
    <3>1. OwnList(h, r, w)
      BY <3>r, OwnJoined
    <3> QED BY <3>1 DEF OwnList
  <2> QED BY <1>3, <1>m, <1>s, <2>1
<1>10. /\ classes' = Append(classes, c) /\ c.hdl = h /\ c.super = SuperOf(f)
  BY <1>f, <1>h, <1>c DEF Define, NewClass
<1>11. Len(classes') = n + 1 /\ classes'[n + 1] = c /\ \A v \in 1 .. n : classes'[v] = classes[v]
  <2>1. /\ Len(Append(classes, c)) = Len(classes) + 1 /\ DOMAIN classes = 1 .. Len(classes)
        /\ \A k \in DOMAIN classes : Append(classes, c)[k] = classes[k]
        /\ Append(classes, c)[Len(classes) + 1] = c
    BY ListAppend DEF IInv, ClassInv
  <2> QED BY <1>10, <1>n, <2>1
<1>12. ClassesInv'
  <2> SUFFICES ASSUME NEW v \in 1 .. n + 1
               PROVE  /\ classes'[v].super \in 0 .. n + 1
                      /\ Owns(jvm', <<"class", ClassJvm(classes'[v].hdl)>>, v)
                      /\ Owns(dex', <<"class", classes'[v].hdl>>, v)
    BY <1>11 DEF ClassesInv, ClassJvm
  <2>0. \A i \in 0 .. n : i \in 0 .. n + 1
    OBVIOUS
  <2>1. CASE v \in 1 .. n
    <3>j. PICK j : j = <<"class", ClassJvm(classes[v].hdl)>>
      OBVIOUS
    <3>e. PICK e : e = <<"class", classes[v].hdl>>
      OBVIOUS
    <3>1. /\ classes[v].super \in 0 .. n /\ j[1] = "class" /\ e[1] = "class"
          /\ j \in DOMAIN jvm /\ jvm[j] = v /\ e \in DOMAIN dex /\ dex[e] = v
      BY <1>2, <1>n, <2>1, <3>j, <3>e DEF ClassesInv, Owns
    <3>2. Owns(jvm', j, v) /\ Owns(dex', e, v)
      BY <3>1 DEF NothingMoves, Kept, Owns
    <3> QED BY <1>11, <2>0, <2>1, <3>1, <3>2, <3>j, <3>e
  <2>2. CASE v \notin 1 .. n
    <3>1. v = n + 1
      BY <2>2
    <3> QED BY <1>3, <1>4, <1>10, <1>11, <2>0, <3>1 DEF Owns
  <2> QED BY <2>1, <2>2
<1>13. ASSUME NEW i \in DOMAIN ms PROVE HandlesThere("method", ms[i])'
  <2>g. PICK g : g = ms[i]
    OBVIOUS
  <2>1. g[1] = h[1] /\ g[3] = h[3] /\ <<"method", JvmOf(g)>> \in DOMAIN jvm' /\ <<"method", g>> \in DOMAIN dex'
    BY <1>5, <1>6, <1>9, <2>g
  <2> QED BY <1>4, <1>k, <2>1, <2>g DEF HandlesThere, ClassKey, JvmOf
<1>14. ASSUME NEW i \in DOMAIN fs PROVE HandlesThere("field", fs[i])'
  <2>g. PICK g : g = fs[i]
    OBVIOUS
  <2>1. g[1] = h[1] /\ g[3] = h[3] /\ <<"field", JvmOf(g)>> \in DOMAIN jvm' /\ <<"field", g>> \in DOMAIN dex'
    BY <1>5, <1>6, <1>9, <2>g
  <2> QED BY <1>4, <1>k, <2>1, <2>g DEF HandlesThere, ClassKey, JvmOf
<1>15. VerticesInv'
  <2>1. ASSUME NEW v \in 1 .. Len(methods') PROVE HandlesThere("method", methods[v])'
    <3>g. PICK g : g = methods'[v]
      OBVIOUS
    <3>1. HandlesThere("method", g)'
      <4>1. CASE v \in 1 .. Len(methods)
        <5>1. g = methods[v]
          BY <1>7, <3>g, <4>1
        <5>2. HandlesThere("method", g)
          BY <1>2, <4>1, <5>1 DEF VerticesInv
        <5> QED BY <1>8, <5>2, MemberStays
      <4>2. CASE \E i \in DOMAIN ms : methods'[v] = ms[i]
        <5>1. PICK i \in DOMAIN ms : g = ms[i]
          BY <3>g, <4>2
        <5> QED BY <1>13, <5>1
      <4> QED BY <1>7, <4>1, <4>2
    <3> QED BY <3>1, <3>g DEF HandlesThere, JvmOf, ClassKey
  <2>2. ASSUME NEW v \in 1 .. Len(fields') PROVE HandlesThere("field", fields[v].hdl)'
    <3>g. PICK g : g = fields'[v].hdl
      OBVIOUS
    <3>1. HandlesThere("field", g)'
      <4>1. CASE v \in 1 .. Len(fields)
        <5>1. g = fields[v].hdl
          BY <1>7, <3>g, <4>1
        <5>2. HandlesThere("field", g)
          BY <1>2, <4>1, <5>1 DEF VerticesInv
        <5> QED BY <1>8, <5>2, MemberStays
      <4>2. CASE \E i \in DOMAIN fs : fields'[v].hdl = fs[i]
        <5>1. PICK i \in DOMAIN fs : g = fs[i]
          BY <3>g, <4>2
        <5> QED BY <1>14, <5>1
      <4> QED BY <1>7, <4>1, <4>2
    <3> QED BY <3>1, <3>g DEF HandlesThere, JvmOf, ClassKey
  <2> QED BY <1>7, <2>1, <2>2 DEF VerticesInv
<1>16. KeysInv'
  <2> SUFFICES ASSUME NEW x \in DOMAIN dex', x[1] \in {"method", "field"}
               PROVE  <<x[1], JvmOf(x[2])>> \in DOMAIN jvm'
    BY DEF KeysInv, JvmOf
  <2>1. CASE x \in DOMAIN dex
    <3>1. <<x[1], JvmOf(x[2])>> \in DOMAIN jvm
      BY <1>2, <2>1 DEF KeysInv
    <3> QED BY <1>5, <3>1
  <2>2. CASE \E i \in DOMAIN ms : x = <<"method", ms[i]>>
    <3>1. PICK i \in DOMAIN ms : x = <<"method", ms[i]>>
      BY <2>2
    <3>2. x[1] = "method" /\ x[2] = ms[i]
      BY <3>1
    <3> QED BY <1>5, <3>2
  <2>3. CASE \E i \in DOMAIN fs : x = <<"field", fs[i]>>
    <3>1. PICK i \in DOMAIN fs : x = <<"field", fs[i]>>
      BY <2>3
    <3>2. x[1] = "field" /\ x[2] = fs[i]
      BY <3>1
    <3> QED BY <1>5, <3>2
  <2> QED BY <1>6, <2>1, <2>2, <2>3
<1>17. MembersInv'
  <2> SUFFICES ASSUME NothingHidden'
               PROVE  /\ \A v \in 1 .. Len(methods') : OwnHandles("method", methods[v], v)'
                      /\ \A v \in 1 .. Len(fields') : OwnHandles("field", fields[v].hdl, v)'
    BY DEF MembersInv
  <2>1. /\ NothingHidden
        /\ \A k \in DOMAIN d.direct : d.direct[k] \notin Names(Inherited(f, "vtable"))
        /\ \A k \in DOMAIN d.static : d.static[k].name \notin Names(Inherited(f, "instance"))
    BY <1>1, <1>2, NothingHiddenBefore
  <2>2. ASSUME NEW v \in 1 .. Len(methods') PROVE OwnHandles("method", methods[v], v)'
    <3>g. PICK g : g = methods'[v]
      OBVIOUS
    <3>1. OwnHandles("method", g, v)'
      <4>1. CASE v \in 1 .. Len(methods)
        <5>1. g = methods[v]
          BY <1>7, <3>g, <4>1
        <5>2. HandlesThere("method", g) /\ OwnHandles("method", g, v)
          BY <1>2, <2>1, <4>1, <5>1 DEF VerticesInv, MembersInv
        <5> QED BY <1>8, <5>2, MemberStays
      <4>2. CASE \E i \in DOMAIN ms : v = Len(methods) + i /\ methods'[v] = ms[i]
        <5>1. PICK i \in DOMAIN ms : v = Len(methods) + i /\ g = ms[i]
          BY <3>g, <4>2
        <5>2. jvm'[<<"method", JvmOf(g)>>] = v /\ dex'[<<"method", g>>] = v
          BY <1>5, <1>6, <2>1, <5>1
        <5> QED BY <5>2 DEF OwnHandles, JvmOf
      <4> QED BY <1>7, <4>1, <4>2
    <3> QED BY <3>1, <3>g DEF OwnHandles, JvmOf
  <2>3. ASSUME NEW v \in 1 .. Len(fields') PROVE OwnHandles("field", fields[v].hdl, v)'
    <3>g. PICK g : g = fields'[v].hdl
      OBVIOUS
    <3>1. OwnHandles("field", g, v)'
      <4>1. CASE v \in 1 .. Len(fields)
        <5>1. g = fields[v].hdl
          BY <1>7, <3>g, <4>1
        <5>2. HandlesThere("field", g) /\ OwnHandles("field", g, v)
          BY <1>2, <2>1, <4>1, <5>1 DEF VerticesInv, MembersInv
        <5> QED BY <1>8, <5>2, MemberStays
      <4>2. CASE \E i \in DOMAIN fs : v = Len(fields) + i /\ fields'[v].hdl = fs[i]
        <5>1. PICK i \in DOMAIN fs : v = Len(fields) + i /\ g = fs[i]
          BY <3>g, <4>2
        <5>2. jvm'[<<"field", JvmOf(g)>>] = v /\ dex'[<<"field", g>>] = v
          BY <1>5, <1>6, <2>1, <5>1
        <5> QED BY <5>2 DEF OwnHandles, JvmOf
      <4> QED BY <1>7, <4>1, <4>2
    <3> QED BY <3>1, <3>g DEF OwnHandles, JvmOf
  <2> QED BY <2>2, <2>3
<1> QED BY <1>12, <1>15, <1>16, <1>17 DEF HInv

LEMMA InitHandles ==
  ASSUME IInit
  PROVE  HInv
<1>1. classes = <<>> /\ methods = <<>> /\ fields = <<>> /\ jvm = <<>> /\ dex = <<>>
  BY DEF IInit, Init
<1>2. IsList(<<>>) /\ Len(<<>>) = 0 /\ DOMAIN <<>> = {}
  <2>s. PICK s : s = <<>>
    OBVIOUS
  <2>1. s = [k \in 1 .. 0 |-> s[k]] /\ DOMAIN s = {}
    BY <2>s
  <2>2. 0 \in Nat
    OBVIOUS
  <2>3. IsList(s) /\ Len(s) = 0
    BY ONLY <2>1, <2>2, ListMade
  <2> QED BY <2>s, <2>1, <2>3
<1>3. ClassesInv /\ VerticesInv /\ KeysInv /\ MembersInv
  BY <1>1, <1>2 DEF ClassesInv, VerticesInv, KeysInv, MembersInv
<1> QED BY <1>3 DEF HInv

LEMMA HandlesStep ==
  ASSUME IInv, HInv, [INext]_ivars
  PROVE  HInv'
<1>1. NothingMoves
  BY Step
<1>2. Define \/ Tame
  BY <1>1, OtherStepsTame DEF HInv
<1> QED BY <1>1, <1>2, DefineHandles, TameStep

LEMMA HandlesInvariant == ISpec => []HInv
<1>1. IInit => HInv
  BY InitHandles
<1>2. IInv /\ HInv /\ [INext]_ivars => HInv'
  BY HandlesStep
<1> QED BY <1>1, <1>2, Invariant, PTL DEF ISpec

(* As long as no class hides an inherited member, every class, method and  *)
(* field is found under its defining handle, the loader's and the file's,  *)
(* whatever was loaded in whatever order (dex_file.cpp, load_class, and    *)
(* README.md:200).                                                         *)
THEOREM FoundByDefiningHandle == ISpec => [](NothingHidden => DefiningHandle)
<1>1. HInv => (NothingHidden => DefiningHandle)
  <2> SUFFICES ASSUME HInv, NothingHidden PROVE DefiningHandle
    OBVIOUS
  <2>1. \A v \in 1 .. Len(classes) :
          /\ jvm[<<"class", ClassJvm(classes[v].hdl)>>] = v
          /\ dex[<<"class", classes[v].hdl>>] = v
    BY DEF HInv, ClassesInv, Owns
  <2>2. /\ \A v \in 1 .. Len(methods) :
             jvm[<<"method", JvmOf(methods[v])>>] = v /\ dex[<<"method", methods[v]>>] = v
        /\ \A v \in 1 .. Len(fields) :
             jvm[<<"field", JvmOf(fields[v].hdl)>>] = v /\ dex[<<"field", fields[v].hdl>>] = v
    BY DEF HInv, MembersInv, OwnHandles
  <2> QED BY <2>1, <2>2 DEF DefiningHandle
<1> QED BY <1>1, HandlesInvariant, PTL

-----------------------------------------------------------------------------
(* The layout of the fields.                                               *)

(* The totals of the sizes in z, from a on.                                *)
Totals(a, z, n, g) == g = [i \in 0 .. n |-> IF i = 0 THEN a ELSE g[i - 1] + z[i].size]

LEMMA TotalsExist ==
  ASSUME NEW a, NEW z, NEW n \in Nat
  PROVE  \E g : Totals(a, z, n, g)
<1> DEFINE S == {m \in Nat : \E g : Totals(a, z, m, g)}
<1>1. 0 \in S
  <2> DEFINE h == [i \in 0 .. 0 |-> a]
  <2>1. Totals(a, z, 0, h)
    BY DEF Totals
  <2> QED BY <2>1
<1>2. ASSUME NEW m \in Nat, m \in S PROVE m + 1 \in S
  <2>1. PICK h : Totals(a, z, m, h)
    BY <1>2
  <2>e. PICK e : e = h[m] + z[m + 1].size
    OBVIOUS
  <2> DEFINE g == [i \in 0 .. m + 1 |-> IF i <= m THEN h[i] ELSE e]
  <2>2. \A i \in 0 .. m : g[i] = h[i]
    OBVIOUS
  <2>3. ASSUME NEW i \in 0 .. m + 1
        PROVE  g[i] = IF i = 0 THEN a ELSE g[i - 1] + z[i].size
    <3>1. CASE i <= m
      <4>1. i \in 0 .. m /\ (i # 0 => i - 1 \in 0 .. m)
        BY <3>1
      <4>2. h[i] = IF i = 0 THEN a ELSE h[i - 1] + z[i].size
        BY <2>1, <4>1 DEF Totals
      <4> HIDE DEF g
      <4> QED BY <2>2, <4>1, <4>2
    <3>2. CASE ~(i <= m)
      <4>1. i = m + 1 /\ i # 0 /\ i - 1 = m /\ m \in 0 .. m
        BY <3>2
      <4>2. g[i] = e
        BY <4>1
      <4> HIDE DEF g
      <4> QED BY <2>e, <2>2, <4>1, <4>2
    <3> QED BY <3>1, <3>2
  <2>4. g = [i \in 0 .. m + 1 |-> g[i]]
    OBVIOUS
  <2> HIDE DEF g
  <2>5. Totals(a, z, m + 1, g)
    BY <2>3, <2>4 DEF Totals
  <2> QED BY <2>5
<1> HIDE DEF S
<1>3. Nat \subseteq S
  BY <1>1, <1>2, AllNaturals
<1> QED BY <1>3 DEF S

(* The totals of a shorter list are the same.                              *)
LEMMA TotalsAgree ==
  ASSUME NEW a, NEW z, NEW n \in Nat, NEW g, Totals(a, z, n, g),
         NEW m \in 0 .. n, NEW h, Totals(a, z, m, h)
  PROVE  h[m] = g[m]
<1> DEFINE S == {i \in Nat : i <= m => h[i] = g[i]}
<1>1. /\ \A i \in 0 .. n : g[i] = IF i = 0 THEN a ELSE g[i - 1] + z[i].size
      /\ \A i \in 0 .. m : h[i] = IF i = 0 THEN a ELSE h[i - 1] + z[i].size
  BY DEF Totals
<1>2. 0 \in S
  BY <1>1
<1>3. ASSUME NEW i \in Nat, i \in S PROVE i + 1 \in S
  <2> SUFFICES ASSUME i + 1 <= m PROVE h[i + 1] = g[i + 1]
    OBVIOUS
  <2>1. i + 1 \in 0 .. m /\ i + 1 \in 0 .. n /\ i + 1 # 0 /\ (i + 1) - 1 = i
    OBVIOUS
  <2>2. h[i] = g[i]
    BY <1>3
  <2>3. h[i + 1] = h[i] + z[i + 1].size /\ g[i + 1] = g[i] + z[i + 1].size
    BY <1>1, <2>1
  <2> QED BY <2>2, <2>3
<1>4. Nat \subseteq S
  <2> HIDE DEF S
  <2> QED BY <1>2, <1>3, AllNaturals
<1> QED BY <1>4

(* Sizes are positive and at most 8: the totals grow, but not too fast.    *)
Sized(z, n) == \A i \in 1 .. n : z[i].size \in 1 .. 8
Adding(a, z, n, g) ==
  /\ \A i \in 0 .. n : g[i] \in Nat /\ g[i] <= a + 8 * i
  /\ g[0] = a /\ \A i \in 1 .. n : i - 1 \in 0 .. n /\ g[i] = g[i - 1] + z[i].size
  /\ \A i, j \in 0 .. n : i <= j => g[i] <= g[j]

LEMMA TotalsFacts ==
  ASSUME NEW a \in Nat, NEW z, NEW n \in Nat, Sized(z, n), NEW g, Totals(a, z, n, g)
  PROVE  Adding(a, z, n, g)
<1>1. g[0] = a /\ \A i \in 1 .. n : i - 1 \in 0 .. n /\ g[i] = g[i - 1] + z[i].size
  <2>1. \A i \in 0 .. n : g[i] = IF i = 0 THEN a ELSE g[i - 1] + z[i].size
    BY DEF Totals
  <2>2. ASSUME NEW i \in 1 .. n PROVE i - 1 \in 0 .. n /\ i \in 0 .. n /\ i # 0
    OBVIOUS
  <2>3. 0 \in 0 .. n
    OBVIOUS
  <2> QED BY <2>1, <2>2, <2>3
<1> DEFINE S == {i \in Nat : i <= n => g[i] \in Nat /\ g[i] <= a + 8 * i}
           T == {j \in Nat : j <= n => \A i \in 0 .. j : g[i] <= g[j]}
<1>2. 0 \in S
  BY <1>1
<1>3. ASSUME NEW i \in Nat, i \in S PROVE i + 1 \in S
  <2> SUFFICES ASSUME i + 1 <= n PROVE g[i + 1] \in Nat /\ g[i + 1] <= a + 8 * (i + 1)
    OBVIOUS
  <2>1. i + 1 \in 1 .. n /\ (i + 1) - 1 = i
    OBVIOUS
  <2>2. g[i] \in Nat /\ g[i] <= a + 8 * i
    BY <1>3
  <2>z. PICK y \in 1 .. 8 : y = z[i + 1].size
    BY <2>1 DEF Sized
  <2>3. g[i + 1] = g[i] + y
    BY <1>1, <2>1, <2>z
  <2> QED BY <2>2, <2>3
<1>4. Nat \subseteq S
  <2> HIDE DEF S
  <2> QED BY <1>2, <1>3, AllNaturals
<1>5. \A i \in 0 .. n : g[i] \in Nat /\ g[i] <= a + 8 * i
  BY <1>4
<1> HIDE DEF S
<1>6. 0 \in T
  BY <1>5
<1>7. ASSUME NEW j \in Nat, j \in T PROVE j + 1 \in T
  <2> SUFFICES ASSUME j + 1 <= n, NEW i \in 0 .. j + 1 PROVE g[i] <= g[j + 1]
    OBVIOUS
  <2>1. j + 1 \in 1 .. n /\ (j + 1) - 1 = j /\ j \in 0 .. n /\ j + 1 \in 0 .. n /\ i \in 0 .. n
    OBVIOUS
  <2>z. PICK y \in 1 .. 8 : y = z[j + 1].size
    BY <2>1 DEF Sized
  <2>2. g[j + 1] = g[j] + y /\ g[j] \in Nat /\ g[j + 1] \in Nat /\ g[i] \in Nat
    BY <1>1, <1>5, <2>1, <2>z
  <2>3. CASE i = j + 1
    BY <2>2, <2>3
  <2>4. CASE i # j + 1
    <3>1. i \in 0 .. j
      BY <2>4
    <3>2. g[i] <= g[j]
      BY <1>7, <2>1, <3>1
    <3> QED BY <2>2, <3>2
  <2> QED BY <2>3, <2>4
<1>8. Nat \subseteq T
  <2> HIDE DEF T
  <2> QED BY <1>6, <1>7, AllNaturals
<1>9. \A i, j \in 0 .. n : i <= j => g[i] <= g[j]
  BY <1>8
<1> QED BY <1>1, <1>5, <1>9 DEF Adding

(* The offsets that load_class gives, when they fit into 16 bits.          *)
Counts(f, tbl, size, a, z) == a = FirstOffset(f, size) /\ z = DefOf(f.hdl)[tbl]

LEMMA Below64K ==
  ASSUME NEW v \in Nat, v < 65536
  PROVE  v % 65536 = v
  OBVIOUS

LEMMA OffsetTotals ==
  ASSUME NEW f, NEW tbl, NEW size, NEW a, NEW z, Counts(f, tbl, size, a, z),
         NEW n \in Nat, NEW g, Totals(a, z, n, g), NEW m \in 0 .. n, g[m] \in Nat, g[m] < 65536
  PROVE  OffsetAfter(f, tbl, size, m) = g[m]
<1> DEFINE G(h) == h = [i \in 0 .. m |-> IF i = 0 THEN a ELSE h[i - 1] + z[i].size]
           r == CHOOSE h : G(h)
<1>1. \A h : G(h) <=> Totals(a, z, m, h)
  BY DEF Totals
<1>2. m \in Nat
  OBVIOUS
<1>3. \E h : G(h)
  <2> HIDE DEF G
  <2> QED BY <1>1, <1>2, TotalsExist
<1>4. G(r)
  <2> HIDE DEF G
  <2> QED BY <1>3
<1>5. OffsetAfter(f, tbl, size, m) = r[m] % 65536
  BY DEF OffsetAfter, Counts
<1> HIDE DEF r, G
<1>6. r[m] = g[m]
  <2>1. Totals(a, z, m, r)
    BY <1>1, <1>4
  <2> QED BY <2>1, TotalsAgree
<1> QED BY <1>5, <1>6, Below64K

(* The fields s take up to size bytes: each has a vertex, and lies where   *)
(* those before it have ended.                                             *)
Placed(fs, p, s, size) ==
  \A k \in DOMAIN s :
    /\ p[k] \in 1 .. Len(fs) /\ fs[p[k]].hdl = s[k]
    /\ fs[p[k]].offset \in Nat /\ fs[p[k]].size \in 1 .. 8
    /\ fs[p[k]].offset + fs[p[k]].size <= size
    /\ \A j \in DOMAIN s : j < k => fs[p[j]].offset + fs[p[j]].size <= fs[p[k]].offset

Spread(fs, s, size) ==
  /\ size \in Nat /\ size <= 8 * Len(s)
  /\ \E p \in [DOMAIN s -> 1 .. Len(fs)] : Placed(fs, p, s, size)

(* The fields o, of the sizes z, are put after the fields a; their         *)
(* vertices begin after b.                                                 *)
Follows(gs, b, o, z, g) ==
  \A i \in DOMAIN o :
    /\ b + i \in 1 .. Len(gs) /\ z[i].size \in 1 .. 8
    /\ gs[b + i].hdl = o[i] /\ gs[b + i].offset = g[i - 1] /\ gs[b + i].size = z[i].size

LEMMA SpreadGrows ==
  ASSUME NEW fs, NEW gs, \A v \in 1 .. Len(fs) : v \in 1 .. Len(gs) /\ gs[v] = fs[v],
         NEW a, NEW o, IsList(a), IsList(o), NEW s, Joined(a, o, s),
         NEW x, Spread(fs, a, x), NEW z, NEW g, Totals(x, z, Len(o), g),
         NEW b \in Nat, Follows(gs, b, o, z, g)
  PROVE  Spread(gs, s, g[Len(o)])
<1>1. /\ IsList(s) /\ Len(s) = Len(a) + Len(o)
      /\ Len(a) \in Nat /\ Len(o) \in Nat /\ Len(s) \in Nat
      /\ DOMAIN a = 1 .. Len(a) /\ DOMAIN o = 1 .. Len(o) /\ DOMAIN s = 1 .. Len(s)
      /\ \A k \in DOMAIN a : k \in DOMAIN s /\ s[k] = a[k]
      /\ \A k \in DOMAIN o : Len(a) + k \in DOMAIN s /\ s[Len(a) + k] = o[k]
      /\ \A k \in DOMAIN s : k \in DOMAIN a \/ \E i \in DOMAIN o : k = Len(a) + i
  BY JoinedFacts
<1>m. PICK m \in Nat : m = Len(a)
  BY <1>1
<1>n. PICK n \in Nat : n = Len(o)
  BY <1>1
<1>2. x \in Nat /\ x <= 8 * m
  BY <1>m DEF Spread
<1>p. PICK p : Placed(fs, p, a, x)
  BY DEF Spread
<1>3. /\ \A i \in 0 .. n : g[i] \in Nat /\ g[i] <= x + 8 * i
      /\ g[0] = x /\ \A i \in 1 .. n : i - 1 \in 0 .. n /\ g[i] = g[i - 1] + z[i].size
      /\ \A i, j \in 0 .. n : i <= j => g[i] <= g[j]
  <2>1. Sized(z, n)
    BY <1>1, <1>n DEF Follows, Sized
  <2>2. Totals(x, z, n, g)
    BY <1>n
  <2>3. Adding(x, z, n, g)
    BY <1>2, <2>1, <2>2, TotalsFacts
  <2> QED BY <2>3 DEF Adding
<1>y. PICK y : y = g[n]
  OBVIOUS
<1>4. y \in Nat /\ y <= 8 * Len(s)
  <2>1. n \in 0 .. n
    OBVIOUS
  <2>2. y \in Nat /\ y <= x + 8 * n
    BY <1>3, <1>y, <2>1
  <2> QED BY <1>1, <1>2, <1>m, <1>n, <2>2
<1>q. PICK q : q = [k \in DOMAIN s |-> IF k <= m THEN p[k] ELSE b + (k - m)]
  OBVIOUS
<1>5. ASSUME NEW k \in 1 .. m
      PROVE  /\ k \in DOMAIN s /\ k \in DOMAIN a /\ q[k] = p[k]
             /\ q[k] \in 1 .. Len(gs) /\ gs[q[k]].hdl = s[k]
             /\ gs[q[k]].offset \in Nat /\ gs[q[k]].size \in 1 .. 8
             /\ gs[q[k]].offset + gs[q[k]].size <= x
             /\ gs[q[k]] = fs[p[k]]
  <2>1. k \in DOMAIN a /\ k \in DOMAIN s /\ s[k] = a[k]
    BY <1>1, <1>m
  <2>2. q[k] = p[k]
    BY <1>q, <2>1
  <2>3. /\ p[k] \in 1 .. Len(fs) /\ fs[p[k]].hdl = a[k]
        /\ fs[p[k]].offset \in Nat /\ fs[p[k]].size \in 1 .. 8
        /\ fs[p[k]].offset + fs[p[k]].size <= x
    BY <1>p, <2>1 DEF Placed
  <2>4. p[k] \in 1 .. Len(gs) /\ gs[p[k]] = fs[p[k]]
    BY <2>3
  <2> QED BY <2>1, <2>2, <2>3, <2>4
<1>6. ASSUME NEW i \in 1 .. n
      PROVE  /\ m + i \in DOMAIN s /\ q[m + i] \in 1 .. Len(gs) /\ gs[q[m + i]].hdl = s[m + i]
             /\ i - 1 \in 0 .. n /\ gs[q[m + i]].offset = g[i - 1] /\ gs[q[m + i]].offset \in Nat
             /\ gs[q[m + i]].size \in 1 .. 8
             /\ gs[q[m + i]].offset + gs[q[m + i]].size = g[i]
  <2>1. i \in DOMAIN o /\ m + i \in DOMAIN s /\ s[m + i] = o[i]
    BY <1>1, <1>m, <1>n
  <2>2. q[m + i] = b + i
    <3>1. ~(m + i <= m) /\ (m + i) - m = i
      OBVIOUS
    <3> QED BY <1>q, <2>1, <3>1
  <2>3. /\ b + i \in 1 .. Len(gs) /\ z[i].size \in 1 .. 8
        /\ gs[b + i].hdl = o[i] /\ gs[b + i].offset = g[i - 1] /\ gs[b + i].size = z[i].size
    BY <2>1 DEF Follows
  <2>4. i - 1 \in 0 .. n /\ g[i] = g[i - 1] + z[i].size /\ g[i - 1] \in Nat
    BY <1>3
  <2> QED BY <2>1, <2>2, <2>3, <2>4
<1>7. ASSUME NEW k \in DOMAIN s
      PROVE  k \in 1 .. m \/ \E i \in 1 .. n : k = m + i
  BY <1>1, <1>m, <1>n
<1>8. Placed(gs, q, s, y)
  <2> SUFFICES ASSUME NEW k \in DOMAIN s
               PROVE  /\ q[k] \in 1 .. Len(gs) /\ gs[q[k]].hdl = s[k]
                      /\ gs[q[k]].offset \in Nat /\ gs[q[k]].size \in 1 .. 8
                      /\ gs[q[k]].offset + gs[q[k]].size <= y
                      /\ \A j \in DOMAIN s : j < k => gs[q[j]].offset + gs[q[j]].size <= gs[q[k]].offset
    BY DEF Placed
  <2>1. CASE k \in 1 .. m
    <3>1. /\ q[k] \in 1 .. Len(gs) /\ gs[q[k]].hdl = s[k]
          /\ gs[q[k]].offset \in Nat /\ gs[q[k]].size \in 1 .. 8
          /\ gs[q[k]].offset + gs[q[k]].size <= x /\ gs[q[k]] = fs[p[k]] /\ k \in DOMAIN a
      BY <1>5, <2>1
    <3>2. x <= y
      <4>1. 0 \in 0 .. n /\ n \in 0 .. n /\ 0 <= n
        OBVIOUS
      <4> QED BY <1>3, <1>y, <4>1
    <3>3. ASSUME NEW j \in DOMAIN s, j < k PROVE gs[q[j]].offset + gs[q[j]].size <= gs[q[k]].offset
      <4>1. j \in 1 .. m
        BY <1>1, <2>1, <3>3
      <4>2. gs[q[j]] = fs[p[j]] /\ j \in DOMAIN a
        BY <1>5, <4>1
      <4>3. fs[p[j]].offset + fs[p[j]].size <= fs[p[k]].offset
        BY <1>p, <3>1, <3>3, <4>2 DEF Placed
      <4> QED BY <3>1, <4>2, <4>3
    <3>4. gs[q[k]].offset + gs[q[k]].size <= y
      <4>c. PICK c \in Nat : c = gs[q[k]].offset
        BY <3>1
      <4>e. PICK e \in 1 .. 8 : e = gs[q[k]].size
        BY <3>1
      <4>1. c + e <= x
        BY <3>1, <4>c, <4>e
      <4>2. c + e <= y
        BY <1>2, <1>4, <3>2, <4>1
      <4> QED BY <4>2, <4>c, <4>e
    <3> QED BY <3>1, <3>3, <3>4
  <2>2. CASE \E i \in 1 .. n : k = m + i
    <3>i. PICK i \in 1 .. n : k = m + i
      BY <2>2
    <3>1. /\ q[k] \in 1 .. Len(gs) /\ gs[q[k]].hdl = s[k] /\ i - 1 \in 0 .. n
          /\ gs[q[k]].offset = g[i - 1] /\ gs[q[k]].offset \in Nat
          /\ gs[q[k]].size \in 1 .. 8
          /\ gs[q[k]].offset + gs[q[k]].size = g[i]
      BY <1>6, <3>i
    <3>2. g[i] <= y
      <4>1. i \in 0 .. n /\ n \in 0 .. n /\ i <= n
        OBVIOUS
      <4> QED BY <1>3, <1>y, <4>1
    <3>3. ASSUME NEW j \in DOMAIN s, j < k PROVE gs[q[j]].offset + gs[q[j]].size <= gs[q[k]].offset
      <4>1. CASE j \in 1 .. m
        <5>c. PICK c \in Nat : c = gs[q[j]].offset
          BY <1>5, <4>1
        <5>e. PICK e \in 1 .. 8 : e = gs[q[j]].size
          BY <1>5, <4>1
        <5>1. c + e <= x
          BY <1>5, <4>1, <5>c, <5>e
        <5>2. x <= g[i - 1] /\ g[i - 1] \in Nat
          <6>1. 0 \in 0 .. n /\ 0 <= i - 1
            OBVIOUS
          <6> QED BY <1>3, <3>1, <6>1
        <5>3. c + e <= g[i - 1]
          BY <1>2, <5>1, <5>2
        <5> QED BY <3>1, <5>3, <5>c, <5>e
      <4>2. CASE \E l \in 1 .. n : j = m + l
        <5>l. PICK l \in 1 .. n : j = m + l
          BY <4>2
        <5>1. gs[q[j]].offset + gs[q[j]].size = g[l]
          BY <1>6, <5>l
        <5>2. l \in 0 .. n /\ l <= i - 1
          BY <3>3, <3>i, <5>l
        <5>3. g[l] <= g[i - 1]
          BY <1>3, <3>1, <5>2
        <5> QED BY <3>1, <5>1, <5>3
      <4> QED BY <1>7, <4>1, <4>2
    <3> QED BY <3>1, <3>2, <3>3
  <2> QED BY <1>7, <2>1, <2>2
<1>9. q \in [DOMAIN s -> 1 .. Len(gs)]
  <2>1. \A k \in DOMAIN s : q[k] \in 1 .. Len(gs)
    BY <1>8 DEF Placed
  <2>2. q = [k \in DOMAIN s |-> q[k]]
    BY <1>q
  <2> QED BY <2>1, <2>2
<1>10. Spread(gs, s, y)
  BY <1>4, <1>8, <1>9 DEF Spread
<1> QED BY <1>10, <1>n, <1>y

(* A list begins with the first of the two it is made of.                  *)
LEMMA SubSeqJoined ==
  ASSUME NEW a, NEW o, IsList(a), IsList(o), NEW s, Joined(a, o, s)
  PROVE  SubSeq(s, 1, Len(a)) = a
<1>1. /\ Len(a) \in Nat /\ DOMAIN a = 1 .. Len(a)
      /\ \A k \in DOMAIN a : k \in DOMAIN s /\ s[k] = a[k]
  BY JoinedFacts
<1>n. PICK n \in Nat : n = Len(a)
  BY <1>1
<1>t. PICK t : t = SubSeq(s, 1, n)
  OBVIOUS
<1> DEFINE S == {a[k] : k \in DOMAIN a}
<1>2. \A k \in 1 .. n : s[k] \in S /\ s[k] = a[k]
  BY <1>1, <1>n
<1> HIDE DEF S
<1>3. t \in Seq(S) /\ Len(t) = n /\ \A k \in 1 .. n : t[k] = s[k]
  <2>1. /\ t \in Seq(S) /\ Len(t) = IF 1 <= n THEN n - 1 + 1 ELSE 0
        /\ \A k \in 1 .. n - 1 + 1 : t[k] = s[1 + k - 1]
    BY <1>2, <1>t, SubSeqProperties
  <2>2. n - 1 + 1 = n /\ (~(1 <= n) => n = 0) /\ \A k \in 1 .. n : 1 + k - 1 = k
    OBVIOUS
  <2> QED BY <2>1, <2>2
<1>4. t = [k \in 1 .. n |-> t[k]]
  BY <1>3, LenProperties
<1>5. a = [k \in 1 .. n |-> a[k]]
  BY <1>n, ListFacts
<1>6. \A k \in 1 .. n : t[k] = a[k]
  BY <1>2, <1>3
<1> QED BY <1>4, <1>5, <1>6, <1>n, <1>t

(* Up to 8191 fields of up to 8 bytes stay below 64 KB: their offsets fit  *)
(* into 16 bits.                                                           *)
MostFields == 8191

LaidOut(c, fs) ==
  /\ Len(c.static) <= MostFields => Spread(fs, c.static, c.staticSize)
  /\ Len(c.instance) <= MostFields => Spread(fs, c.instance, c.instanceSize)

(* The fields of a class begin with those of its superclass.               *)
StartsWith(s, t) == SubSeq(s, 1, Len(t)) = t
TakesOver(c, d, u) ==
  d.hasData => StartsWith(c.static, u.static) /\ StartsWith(c.instance, u.instance)

LayoutInv ==
  \A v \in 1 .. Len(classes) :
    /\ LaidOut(classes[v], fields)
    /\ classes[v].super # 0 =>
         TakesOver(classes[v], DefOf(classes[v].hdl), classes[classes[v].super])

LEMMA SpreadStays ==
  ASSUME NEW fs, NEW gs, \A v \in 1 .. Len(fs) : v \in 1 .. Len(gs) /\ gs[v] = fs[v],
         NEW s, NEW x, Spread(fs, s, x)
  PROVE  Spread(gs, s, x)
<1>1. PICK p \in [DOMAIN s -> 1 .. Len(fs)] : Placed(fs, p, s, x)
  BY DEF Spread
<1>2. \A k \in DOMAIN s : p[k] \in 1 .. Len(gs) /\ gs[p[k]] = fs[p[k]]
  OBVIOUS
<1>3. Placed(gs, p, s, x)
  BY <1>1, <1>2 DEF Placed
<1>4. p \in [DOMAIN s -> 1 .. Len(gs)]
  BY <1>2
<1> QED BY <1>3, <1>4 DEF Spread

LEMMA EmptySpread ==
  ASSUME NEW fs
  PROVE  Spread(fs, <<>>, 0)
<1>s. PICK s : s = <<>>
  OBVIOUS
<1>1. s = [k \in 1 .. 0 |-> s[k]] /\ DOMAIN s = {}
  BY <1>s
<1>2. 0 \in Nat
  OBVIOUS
<1>3. IsList(s) /\ Len(s) = 0
  BY ONLY <1>1, <1>2, ListMade
<1>4. [k \in {} |-> 1] \in [{} -> 1 .. Len(fs)]
  OBVIOUS
<1>5. PICK p \in [{} -> 1 .. Len(fs)] : TRUE
  BY <1>4
<1>6. Placed(fs, p, s, 0)
  BY <1>1 DEF Placed
<1>7. p \in [DOMAIN s -> 1 .. Len(fs)]
  BY <1>1, <1>5
<1>8. 0 <= 8 * Len(s)
  BY <1>3
<1>9. Spread(fs, s, 0)
  BY <1>2, <1>6, <1>7, <1>8 DEF Spread
<1> QED BY <1>9, <1>s

(* The static or the instance fields of the class that is made.            *)
SizeOf(tbl) == IF tbl = "static" THEN "staticSize" ELSE "instanceSize"

FieldsOf(f, d, tbl, size, z, new, a, o) ==
  /\ size = SizeOf(tbl) /\ z = d[tbl] /\ new = NewFields(f, tbl, size)
  /\ a = Inherited(f, tbl) /\ o = OwnFields(f, tbl)

KeepsFields(gs) == \A v \in 1 .. Len(fields) : v \in 1 .. Len(gs) /\ gs[v] = fields[v]
NewAt(gs, b, new) == b \in Nat /\ \A i \in DOMAIN new : b + i \in 1 .. Len(gs) /\ gs[b + i] = new[i]

LEMMA NewFieldsSpread ==
  ASSUME IInv, LayoutInv, Runs("load"), NEW f, NEW h, NEW d, Making(f, h, d),
         NEW tbl \in {"static", "instance"}, NEW size, NEW z, NEW new, NEW a, NEW o,
         FieldsOf(f, d, tbl, size, z, new, a, o),
         NEW gs, KeepsFields(gs), NEW b, NewAt(gs, b, new),
         NEW s, Joined(a, o, s), Len(s) <= MostFields
  PROVE  Spread(gs, s, OffsetAfter(f, tbl, size, Len(z)))
<1>0. /\ size = SizeOf(tbl) /\ z = d[tbl] /\ new = NewFields(f, tbl, size)
      /\ a = Inherited(f, tbl) /\ o = OwnFields(f, tbl)
      /\ b \in Nat /\ \A i \in DOMAIN new : b + i \in 1 .. Len(gs) /\ gs[b + i] = new[i]
      /\ \A v \in 1 .. Len(fields) : v \in 1 .. Len(gs) /\ gs[v] = fields[v]
  BY DEF FieldsOf, KeepsFields, NewAt
<1>1. /\ Parts(f) /\ WellFormed(d) /\ SuperOf(f) \in 0 .. Len(classes)
      /\ f = Top /\ h = f.hdl /\ d = DefOf(h) /\ d = DefOf(f.hdl) /\ z = DefOf(f.hdl)[tbl]
  BY <1>0, OwnLists DEF Making
<1>2. IsList(z) /\ DOMAIN o = DOMAIN z /\ IsList(o) /\ IsList(a)
  <2>1. IsList(z)
    BY <1>0, <1>1 DEF WellFormed
  <2>2. DOMAIN o = DOMAIN z
    BY <1>0, <1>1 DEF OwnFields
  <2>3. IsList(o) /\ IsList(a)
    BY <1>0, <1>1 DEF Parts, Tables
  <2> QED BY <2>1, <2>2, <2>3
<1>n. PICK n \in Nat : n = Len(o)
  BY <1>2, ListFacts
<1>3. n = Len(z) /\ DOMAIN z = 1 .. n /\ DOMAIN o = 1 .. n
  <2>1. Len(z) \in Nat /\ DOMAIN z = 1 .. Len(z) /\ DOMAIN o = 1 .. n
    BY <1>2, <1>n, ListFacts
  <2>2. \A i, j \in Nat : 1 .. i = 1 .. j => i = j
    OBVIOUS
  <2> QED BY <1>2, <2>1, <2>2
<1>4. \A i \in 1 .. n : z[i].size \in 1 .. 8
  <2>1. \A i \in 1 .. Len(z) : z[i].size \in {1, 2, 4, 8}
    BY <1>0, <1>1 DEF WellFormed
  <2> QED BY <1>3, <2>1
<1>5. /\ Len(s) = Len(a) + n /\ Len(a) \in Nat
  BY <1>2, <1>n, JoinedFacts
<1>x. PICK x : x = FirstOffset(f, size)
  OBVIOUS
<1>6. Spread(fields, a, x)
  <2>1. CASE Inherits(f)
    <3>u. PICK u \in 1 .. Len(classes) : u = SuperOf(f)
      BY <1>1, <2>1, ListFacts DEF Inherits, IInv, ClassInv
    <3>1. a = classes[u][tbl] /\ x = classes[u][size]
      BY <1>0, <2>1, <1>x, <3>u DEF Inherited, FirstOffset
    <3>2. Len(a) <= MostFields
      BY <1>5 DEF MostFields
    <3>3. LaidOut(classes[u], fields)
      BY DEF LayoutInv
    <3> QED BY <1>0, <3>1, <3>2, <3>3 DEF LaidOut, SizeOf
  <2>2. CASE ~Inherits(f)
    <3>1. a = <<>> /\ x = 0
      BY <1>0, <2>2, <1>x DEF Inherited, FirstOffset
    <3> QED BY <3>1, EmptySpread
  <2> QED BY <2>1, <2>2
<1>7. x \in Nat /\ x <= 8 * Len(a)
  BY <1>6 DEF Spread
<1>g. PICK g : Totals(x, z, n, g)
  BY TotalsExist
<1>8. \A i \in 0 .. n : g[i] \in Nat /\ g[i] <= x + 8 * i
  <2>1. Sized(z, n)
    BY <1>4 DEF Sized
  <2>2. Adding(x, z, n, g)
    BY <1>7, <1>g, <2>1, TotalsFacts
  <2> QED BY <2>2 DEF Adding
<1>9. ASSUME NEW i \in 0 .. n PROVE g[i] \in Nat /\ g[i] < 65536
  <2>y. PICK y \in Nat : y = g[i] /\ y <= x + 8 * i
    BY <1>8
  <2>l. PICK l \in Nat : l = Len(a)
    BY <1>5
  <2>1. l + n <= 8191 /\ x <= 8 * l
    BY <1>5, <1>7, <2>l DEF MostFields
  <2>2. i \in Nat /\ i <= n
    OBVIOUS
  <2>3. y < 65536
    BY ONLY <1>7, <2>y, <2>1, <2>2
  <2> QED BY <2>y, <2>3
<1>10. ASSUME NEW i \in 0 .. n PROVE OffsetAfter(f, tbl, size, i) = g[i]
  <2>1. Counts(f, tbl, size, x, z)
    BY <1>1, <1>x DEF Counts
  <2>2. g[i] \in Nat /\ g[i] < 65536
    BY <1>9
  <2> QED BY <1>g, <2>1, <2>2, OffsetTotals
<1>11. Follows(gs, b, o, z, g)
  <2> SUFFICES ASSUME NEW i \in DOMAIN o
               PROVE  /\ b + i \in 1 .. Len(gs) /\ z[i].size \in 1 .. 8
                      /\ gs[b + i].hdl = o[i] /\ gs[b + i].offset = g[i - 1]
                      /\ gs[b + i].size = z[i].size
    BY DEF Follows
  <2>1. i \in 1 .. n /\ i - 1 \in 0 .. n
    BY <1>3
  <2>2. /\ i \in DOMAIN new /\ new[i].hdl = o[i]
        /\ new[i].offset = OffsetAfter(f, tbl, size, i - 1) /\ new[i].size = z[i].size
    BY <1>0, <1>1 DEF NewFields
  <2>3. OffsetAfter(f, tbl, size, i - 1) = g[i - 1]
    BY <1>10, <2>1
  <2> QED BY <1>0, <1>4, <2>1, <2>2, <2>3
<1>12. Spread(gs, s, g[Len(o)])
  <2>1. Totals(x, z, Len(o), g)
    BY <1>g, <1>n
  <2> QED BY <1>0, <1>2, <1>6, <1>11, <2>1, SpreadGrows
<1>13. n \in 0 .. n
  OBVIOUS
<1> QED BY <1>3, <1>10, <1>12, <1>13, <1>n

(* Where the vertices of the new fields are.                               *)
LEMMA AddedAt ==
  ASSUME NEW s, NEW a, NEW b, IsList(s), IsList(a), IsList(b), NEW w, Added(s, a, b, w)
  PROVE  /\ \A v \in 1 .. Len(s) : v \in 1 .. Len(w) /\ w[v] = s[v]
         /\ \A i \in DOMAIN a : Len(s) + i \in 1 .. Len(w) /\ w[Len(s) + i] = a[i]
         /\ \A i \in DOMAIN b :
              (Len(s) + Len(a)) + i \in 1 .. Len(w) /\ w[(Len(s) + Len(a)) + i] = b[i]
         /\ Len(s) \in Nat /\ Len(s) + Len(a) \in Nat
<1>y. PICK y : Joined(s, a, y)
  BY DEF Joined
<1>1. Joined(y, b, w)
  BY <1>y DEF Joined, Added
<1>2. /\ IsList(y) /\ Len(y) = Len(s) + Len(a) /\ Len(s) \in Nat /\ Len(a) \in Nat
      /\ DOMAIN s = 1 .. Len(s)
      /\ \A k \in DOMAIN s : k \in DOMAIN y /\ y[k] = s[k]
      /\ \A k \in DOMAIN a : Len(s) + k \in DOMAIN y /\ y[Len(s) + k] = a[k]
  BY <1>y, JoinedFacts
<1>3. /\ DOMAIN w = 1 .. Len(w)
      /\ \A k \in DOMAIN y : k \in DOMAIN w /\ w[k] = y[k]
      /\ \A k \in DOMAIN b : Len(y) + k \in DOMAIN w /\ w[Len(y) + k] = b[k]
  <2>1. IsList(y) /\ IsList(b)
    BY <1>2
  <2> QED BY ONLY <1>1, <2>1, JoinedFacts
<1>4. \A v \in 1 .. Len(s) : v \in 1 .. Len(w) /\ w[v] = s[v]
  BY <1>2, <1>3
<1>5. \A i \in DOMAIN a : Len(s) + i \in 1 .. Len(w) /\ w[Len(s) + i] = a[i]
  BY <1>2, <1>3
<1>6. \A i \in DOMAIN b :
        (Len(s) + Len(a)) + i \in 1 .. Len(w) /\ w[(Len(s) + Len(a)) + i] = b[i]
  BY <1>2, <1>3
<1> QED BY <1>2, <1>4, <1>5, <1>6

LEMMA NewFieldsMade ==
  ASSUME NEW f, NEW tbl, NEW size, IsList(OwnFields(f, tbl)), NEW new, new = NewFields(f, tbl, size)
  PROVE  IsList(new)
<1>o. PICK o : o = OwnFields(f, tbl)
  OBVIOUS
<1>1. Len(o) \in Nat /\ DOMAIN o = 1 .. Len(o)
  BY <1>o, ListFacts
<1>2. DOMAIN new = DOMAIN o /\ new = [k \in DOMAIN new |-> new[k]]
  BY <1>o DEF NewFields
<1>3. new = [k \in 1 .. Len(o) |-> new[k]]
  BY <1>1, <1>2
<1> QED BY ONLY <1>1, <1>3, ListMade

(* The new class is laid out, and takes over what its superclass has.      *)
LEMMA NewClassLaidOut ==
  ASSUME IInv, HInv, LayoutInv, Define, NEW f, NEW h, NEW d, Making(f, h, d),
         NEW c, c = NewClass(f)
  PROVE  /\ LaidOut(c, fields') /\ c.super \in 0 .. Len(classes) /\ c.hdl = h
         /\ c.super # 0 => TakesOver(c, d, classes[c.super])
         /\ \A v \in 1 .. Len(fields) : v \in 1 .. Len(fields') /\ fields'[v] = fields[v]
<1>1. /\ Parts(f) /\ SuperOf(f) \in 0 .. Len(classes) /\ Runs("load")
      /\ f = Top /\ h = f.hdl /\ d = DefOf(h) /\ d = DefOf(f.hdl)
  BY OwnLists DEF Making, Define
<1>a. PICK a : a = NewFields(f, "static", "staticSize")
  OBVIOUS
<1>b. PICK b : b = NewFields(f, "instance", "instanceSize")
  OBVIOUS
<1>w. PICK w : w = fields'
  OBVIOUS
<1>2. /\ \A v \in 1 .. Len(fields) : v \in 1 .. Len(w) /\ w[v] = fields[v]
      /\ \A i \in DOMAIN a : Len(fields) + i \in 1 .. Len(w) /\ w[Len(fields) + i] = a[i]
      /\ \A i \in DOMAIN b :
           (Len(fields) + Len(a)) + i \in 1 .. Len(w) /\ w[(Len(fields) + Len(a)) + i] = b[i]
      /\ Len(fields) \in Nat /\ Len(fields) + Len(a) \in Nat
  <2>1. Added(fields, a, b, w)
    BY <1>1, <1>a, <1>b, <1>w DEF Define, Added
  <2>2. IsList(fields) /\ IsList(a) /\ IsList(b)
    <3>1. IsList(OwnFields(f, "static")) /\ IsList(OwnFields(f, "instance"))
      BY <1>1 DEF Parts
    <3> QED BY <1>a, <1>b, <3>1, NewFieldsMade DEF HInv, VerticesInv
  <2> QED BY ONLY <2>1, <2>2, AddedAt
<1>k. PICK k : k = Len(fields) + Len(a)
  OBVIOUS
<1>2a. KeepsFields(w) /\ NewAt(w, Len(fields), a) /\ NewAt(w, k, b)
  BY <1>2, <1>k DEF KeepsFields, NewAt
<1>3. /\ c.static = Inherited(f, "static") \o OwnFields(f, "static")
      /\ c.instance = Inherited(f, "instance") \o OwnFields(f, "instance")
      /\ c.staticSize = OffsetAfter(f, "static", "staticSize", Len(d.static))
      /\ c.instanceSize = OffsetAfter(f, "instance", "instanceSize", Len(d.instance))
      /\ c.super = SuperOf(f) /\ c.hdl = h
  BY <1>1 DEF NewClass
<1>s. PICK e, o, s : /\ e = Inherited(f, "static") /\ o = OwnFields(f, "static") /\ s = c.static
  OBVIOUS
<1>i. PICK g, p, t : /\ g = Inherited(f, "instance") /\ p = OwnFields(f, "instance") /\ t = c.instance
  OBVIOUS
<1>4. Joined(e, o, s) /\ Joined(g, p, t) /\ IsList(e) /\ IsList(o) /\ IsList(g) /\ IsList(p)
  BY <1>1, <1>3, <1>s, <1>i DEF Joined, Parts, Tables
<1>5. Len(s) <= MostFields => Spread(w, s, c.staticSize)
  <2> SUFFICES ASSUME Len(s) <= MostFields PROVE Spread(w, s, c.staticSize)
    OBVIOUS
  <2>z. PICK z : z = d["static"]
    OBVIOUS
  <2>k. PICK tbl \in {"static", "instance"} : tbl = "static"
    OBVIOUS
  <2>x. PICK size : size = SizeOf(tbl)
    OBVIOUS
  <2>1. size = "staticSize"
    BY <2>k, <2>x DEF SizeOf
  <2>2. Spread(w, s, OffsetAfter(f, tbl, size, Len(z)))
    <3>1. FieldsOf(f, d, tbl, size, z, a, e, o)
      BY <1>a, <1>s, <2>k, <2>z, <2>1, <2>x DEF FieldsOf
    <3> QED BY <1>1, <1>2a, <1>4, <3>1, NewFieldsSpread
  <2> QED BY <1>3, <2>k, <2>1, <2>2, <2>z
<1>6. Len(t) <= MostFields => Spread(w, t, c.instanceSize)
  <2> SUFFICES ASSUME Len(t) <= MostFields PROVE Spread(w, t, c.instanceSize)
    OBVIOUS
  <2>z. PICK z : z = d["instance"]
    OBVIOUS
  <2>k. PICK tbl \in {"static", "instance"} : tbl = "instance"
    OBVIOUS
  <2>x. PICK size : size = SizeOf(tbl)
    OBVIOUS
  <2>1. size = "instanceSize"
    BY <2>k, <2>x DEF SizeOf
  <2>2. Spread(w, t, OffsetAfter(f, tbl, size, Len(z)))
    <3>1. FieldsOf(f, d, tbl, size, z, b, g, p)
      BY <1>b, <1>i, <2>k, <2>z, <2>1, <2>x DEF FieldsOf
    <3> QED BY <1>1, <1>2a, <1>4, <3>1, NewFieldsSpread
  <2> QED BY <1>3, <2>k, <2>1, <2>2, <2>z
<1>7. LaidOut(c, w)
  BY <1>5, <1>6, <1>s, <1>i DEF LaidOut
<1>8. ASSUME c.super # 0 PROVE TakesOver(c, d, classes[c.super])
  <2> SUFFICES ASSUME d.hasData
               PROVE  StartsWith(c.static, classes[c.super].static)
                      /\ StartsWith(c.instance, classes[c.super].instance)
    BY DEF TakesOver
  <2>1. Inherits(f)
    BY <1>1, <1>3, <1>8 DEF Inherits
  <2>2. e = classes[c.super].static /\ g = classes[c.super].instance
    BY <1>3, <1>s, <1>i, <2>1 DEF Inherited
  <2>3. SubSeq(s, 1, Len(e)) = e /\ SubSeq(t, 1, Len(g)) = g
    BY <1>4, SubSeqJoined
  <2> QED BY <1>s, <1>i, <2>2, <2>3 DEF StartsWith
<1> QED BY <1>1, <1>2, <1>3, <1>7, <1>8, <1>w

LEMMA DefineLayout ==
  ASSUME IInv, HInv, LayoutInv, Define
  PROVE  LayoutInv'
<1>f. PICK f : f = Top
  OBVIOUS
<1>h. PICK h : h = f.hdl
  OBVIOUS
<1>d. PICK d : d = DefOf(h)
  OBVIOUS
<1>c. PICK c : c = NewClass(f)
  OBVIOUS
<1>n. PICK n \in Nat : n = Len(classes)
  BY ListFacts DEF IInv, ClassInv
<1>1. Making(f, h, d)
  BY <1>f, <1>h, <1>d DEF Making, Define
<1>2. /\ LaidOut(c, fields') /\ c.super \in 0 .. n /\ c.hdl = h
      /\ c.super # 0 => TakesOver(c, d, classes[c.super])
      /\ \A v \in 1 .. Len(fields) : v \in 1 .. Len(fields') /\ fields'[v] = fields[v]
  BY <1>1, <1>c, <1>n, NewClassLaidOut
<1>3. classes' = Append(classes, c) /\ world' = world
  BY <1>f, <1>c DEF Define
<1>4. Len(classes') = n + 1 /\ classes'[n + 1] = c /\ \A v \in 1 .. n : classes'[v] = classes[v]
  <2>1. /\ Len(Append(classes, c)) = Len(classes) + 1 /\ DOMAIN classes = 1 .. Len(classes)
        /\ \A k \in DOMAIN classes : Append(classes, c)[k] = classes[k]
        /\ Append(classes, c)[Len(classes) + 1] = c
    BY ListAppend DEF IInv, ClassInv
  <2> QED BY <1>3, <1>n, <2>1
<1>5. \A g : DefOf(g)' = DefOf(g)
  BY <1>3 DEF DefOf
<1>6. ASSUME NEW v \in 1 .. n + 1
      PROVE  /\ LaidOut(classes'[v], fields')
             /\ classes'[v].super # 0 =>
                  TakesOver(classes'[v], world.file[classes'[v].hdl[1]][classes'[v].hdl[2]][classes'[v].hdl[3]],
                            classes'[classes'[v].super])
  <2>1. CASE v \in 1 .. n
    <3>u. PICK u : u = classes[v]
      OBVIOUS
    <3>1. /\ LaidOut(u, fields) /\ u.super \in 0 .. n
          /\ u.super # 0 => TakesOver(u, DefOf(u.hdl), classes[u.super])
      BY <1>n, <2>1, <3>u DEF LayoutInv, HInv, ClassesInv
    <3>2. LaidOut(u, fields')
      BY <1>2, <3>1, SpreadStays DEF LaidOut
    <3>3. u.super # 0 => classes'[u.super] = classes[u.super]
      BY <1>4, <3>1
    <3> QED BY <1>4, <2>1, <3>u, <3>1, <3>2, <3>3 DEF DefOf
  <2>2. CASE v \notin 1 .. n
    <3>1. v = n + 1
      BY <2>2
    <3>2. c.super # 0 => classes'[c.super] = classes[c.super]
      BY <1>2, <1>4
    <3> QED BY <1>2, <1>4, <1>d, <3>1, <3>2 DEF DefOf
  <2> QED BY <2>1, <2>2
<1>7. Len(classes') = n + 1 /\ world' = world
  BY <1>3, <1>4
<1> QED BY <1>6, <1>7 DEF LayoutInv, DefOf

LEMMA TameLayout ==
  ASSUME LayoutInv, Tame
  PROVE  LayoutInv'
<1>1. classes' = classes /\ fields' = fields /\ world'.file = world.file
  BY DEF Tame, graphs
<1> QED BY <1>1 DEF LayoutInv, DefOf

LEMMA LayoutInvariant == ISpec => []LayoutInv
<1>1. IInit => LayoutInv
  <2>1. \A v \in 1 .. Len(<<>>) : FALSE
    OBVIOUS
  <2> QED BY <2>1 DEF IInit, Init, LayoutInv
<1>2. IInv /\ HInv /\ LayoutInv /\ [INext]_ivars => LayoutInv'
  <2> SUFFICES ASSUME IInv, HInv, LayoutInv, [INext]_ivars PROVE LayoutInv'
    OBVIOUS
  <2>1. NothingMoves
    BY Step
  <2>2. Define \/ Tame
    BY <2>1, OtherStepsTame DEF HInv
  <2> QED BY <2>2, DefineLayout, TameLayout
<1> QED BY <1>1, <1>2, Invariant, HandlesInvariant, PTL DEF ISpec

FewFields ==
  \A v \in 1 .. Len(classes) :
    Len(classes[v].static) <= MostFields /\ Len(classes[v].instance) <= MostFields

LEMMA SpreadLaid ==
  ASSUME NEW s, NEW size, Spread(fields, s, size),
         \A v \in 1 .. Len(fields) : dex[<<"field", fields[v].hdl>>] = v
  PROVE  Laid(s, size)
<1>p. PICK p : Placed(fields, p, s, size)
  BY DEF Spread
<1>1. ASSUME NEW k \in DOMAIN s PROVE dex[<<"field", s[k]>>] = p[k]
  <2>1. p[k] \in 1 .. Len(fields) /\ fields[p[k]].hdl = s[k]
    BY <1>p DEF Placed
  <2> QED BY <2>1
<1>2. \A k \in DOMAIN s :
        /\ fields[p[k]].offset + fields[p[k]].size <= size
        /\ \A j \in DOMAIN s : j < k => fields[p[j]].offset + fields[p[j]].size <= fields[p[k]].offset
  BY <1>p DEF Placed
<1> QED BY <1>1, <1>2 DEF Laid

(* The fields of a class do not overlap, end before its size, and lie      *)
(* where its superclass has them, whatever was loaded in whatever order,   *)
(* as long as no class has more static or instance fields, with those it   *)
(* inherits, than 16 bits can address, and none hides an inherited member  *)
(* (dex_file.cpp, load_class).                                             *)
THEOREM FieldsApart == ISpec => [](NothingHidden /\ FewFields => FieldLayout)
<1>1. HInv /\ LayoutInv => (NothingHidden /\ FewFields => FieldLayout)
  <2> SUFFICES ASSUME HInv, LayoutInv, NothingHidden, FewFields, NEW v \in 1 .. Len(classes)
               PROVE  LET u == classes[v]
                      IN  /\ Laid(u.static, u.staticSize) /\ Laid(u.instance, u.instanceSize)
                          /\ u.super # 0 /\ DefOf(u.hdl).hasData =>
                               /\ SubSeq(u.static, 1, Len(classes[u.super].static))
                                    = classes[u.super].static
                               /\ SubSeq(u.instance, 1, Len(classes[u.super].instance))
                                    = classes[u.super].instance
    BY DEF FieldLayout
  <2>u. PICK u : u = classes[v]
    OBVIOUS
  <2>1. \A w \in 1 .. Len(fields) : dex[<<"field", fields[w].hdl>>] = w
    BY DEF HInv, MembersInv, OwnHandles
  <2>2. LaidOut(u, fields) /\ (u.super # 0 => TakesOver(u, DefOf(u.hdl), classes[u.super]))
    BY <2>u DEF LayoutInv
  <2>3. Spread(fields, u.static, u.staticSize) /\ Spread(fields, u.instance, u.instanceSize)
    BY <2>u, <2>2 DEF LaidOut, FewFields
  <2>4. Laid(u.static, u.staticSize) /\ Laid(u.instance, u.instanceSize)
    BY <2>1, <2>3, SpreadLaid
  <2> QED BY <2>u, <2>2, <2>4 DEF TakesOver, StartsWith
<1> QED BY <1>1, HandlesInvariant, LayoutInvariant, PTL
=============================================================================
