--------------------------- MODULE SequenceFacts ---------------------------
(***************************************************************************)
(* Facts about the natural numbers, finite sets and sequences that the     *)
(* other proofs need.  Induction over the naturals is stated for a set and *)
(* not for an operator, and follows from the pigeonhole principle.         *)
(***************************************************************************)
EXTENDS Integers, SequencesExt, FiniteSetTheorems, TLAPS

(* Induction: a set that holds zero and each of its members' successors
   holds every natural number.  Below a number it lacked, subtracting one
   would map the finite set of those it lacks into itself less a member. *)
LEMMA Induction ==
  ASSUME NEW S, 0 \in S, \A n \in Nat : n \in S => n + 1 \in S
  PROVE  Nat \subseteq S
<1> SUFFICES ASSUME NEW m \in Nat, m \notin S
             PROVE  FALSE
  OBVIOUS
<1> DEFINE T == {n \in 0..m : n \notin S}
           R == T \ {m}
           down == [n \in T |-> n - 1]
<1>1. IsFiniteSet(T) /\ Cardinality(T) \in Nat
  <2>1. IsFiniteSet(0..m)
    BY FS_Interval
  <2>2. QED
    BY <2>1, FS_Subset, FS_CardinalityType
<1>2. m \in T
  OBVIOUS
<1>3. IsFiniteSet(R) /\ Cardinality(R) = Cardinality(T) - 1
  BY <1>1, <1>2, FS_RemoveElement
<1>4. \A n \in T : n - 1 \in R
  <2> SUFFICES ASSUME NEW n \in T
               PROVE  n - 1 \in R
    OBVIOUS
  <2>1. n \in Nat /\ n <= m /\ n # 0 /\ n \notin S
    OBVIOUS
  <2>2. n - 1 \in Nat /\ n - 1 < m /\ (n - 1) + 1 = n
    BY <2>1
  <2>3. n - 1 \notin S
    BY <2>1, <2>2
  <2>4. QED
    BY <2>2, <2>3
<1>5. down \in [T -> R]
  BY <1>4
<1>6. PICK x \in T, y \in T : x # y /\ down[x] = down[y]
  <2> HIDE DEF down, T, R
  <2>1. Cardinality(R) < Cardinality(T)
    BY <1>1, <1>3
  <2>2. QED
    BY <1>1, <1>3, <1>5, <2>1, FS_PigeonHole
<1>7. QED
  BY <1>6

LEMMA LeastExists ==
  ASSUME NEW S, S \subseteq Nat, S # {}
  PROVE  \E m \in S : \A n \in S : m <= n
<1> SUFFICES ASSUME \A m \in S : \E n \in S : ~(m <= n)
             PROVE  FALSE
  OBVIOUS
<1> DEFINE T == {n \in Nat : \A k \in 0..n : k \notin S}
<1>1. 0 \in T
  OBVIOUS
<1>2. ASSUME NEW n \in Nat, n \in T
      PROVE  n + 1 \in T
  <2>1. n + 1 \notin S
    BY <1>2
  <2>2. QED
    BY <1>2, <2>1
<1>3. Nat \subseteq T
  <2> HIDE DEF T
  <2>1. QED
    BY <1>1, <1>2, Induction
<1>4. \A n \in Nat : n \notin S
  <2> SUFFICES ASSUME NEW n \in Nat
               PROVE  n \notin S
    OBVIOUS
  <2>1. n \in T
    BY <1>3
  <2>2. QED
    BY <2>1
<1>5. QED
  BY <1>4

(* The flattenings of the prefixes of ss, which FlattenSeq chooses. *)
Flattens(ss, f) ==
    f = [i \in 1..Len(ss) |-> IF i = 1 THEN ss[i] ELSE f[i - 1] \o ss[i]]

LEMMA FlattensExists ==
  ASSUME NEW U, NEW ss \in Seq(Seq(U))
  PROVE  \E f : Flattens(ss, f)
<1> DEFINE To(n, f) == f = [i \in 1..n |-> IF i = 1 THEN ss[i] ELSE f[i - 1] \o ss[i]]
           S == {n \in Nat : \E f : To(n, f)}
<1>1. 0 \in S
  <2>1. To(0, [i \in 1..0 |-> ss[i]])
    OBVIOUS
  <2>2. QED
    BY <2>1
<1>2. ASSUME NEW n \in Nat, n \in S
      PROVE  n + 1 \in S
  <2>1. PICK f : To(n, f)
    BY <1>2
  <2> DEFINE g == [i \in 1..n + 1 |->
                      IF i = n + 1 THEN (IF i = 1 THEN ss[i] ELSE f[i - 1] \o ss[i]) ELSE f[i]]
  <2>2. \A i \in 1..n : g[i] = f[i]
    OBVIOUS
  <2>3. \A i \in 1..n : f[i] = IF i = 1 THEN ss[i] ELSE f[i - 1] \o ss[i]
    BY <2>1
  <2>4. ASSUME NEW i \in 1..n + 1
        PROVE  g[i] = IF i = 1 THEN ss[i] ELSE g[i - 1] \o ss[i]
    <3>1. CASE i = 1
      <4>1. CASE n = 0
        BY <3>1, <4>1
      <4>2. CASE n # 0
        BY <3>1, <4>2, <2>2, <2>3
      <4>3. QED
        BY <4>1, <4>2
    <3>2. CASE i # 1
      <4>1. i - 1 \in 1..n
        BY <3>2
      <4>2. g[i - 1] = f[i - 1]
        BY <4>1, <2>2
      <4>3. CASE i = n + 1
        BY <3>2, <4>2, <4>3
      <4>4. CASE i # n + 1
        <5>1. i \in 1..n
          BY <4>4
        <5>2. QED
          BY <5>1, <3>2, <4>2, <2>2, <2>3
      <4>5. QED
        BY <4>3, <4>4
    <3>3. QED
      BY <3>1, <3>2
  <2>5. To(n + 1, g)
    <3> DEFINE h == [i \in 1..n + 1 |-> IF i = 1 THEN ss[i] ELSE g[i - 1] \o ss[i]]
    <3>1. \A i \in 1..n + 1 : h[i] = g[i]
      BY <2>4
    <3>2. g = h
      BY <3>1
    <3>3. QED
      BY <3>2
  <2>6. QED
    <3> HIDE DEF g, To
    <3>1. \E h : To(n + 1, h)
      BY <2>5
    <3>2. QED
      BY <3>1
<1>3. Nat \subseteq S
  <2> HIDE DEF S
  <2>1. QED
    BY <1>1, <1>2, Induction
<1>4. Len(ss) \in S
  <2> HIDE DEF S
  <2>1. Len(ss) \in Nat
    OBVIOUS
  <2>2. QED
    BY <2>1, <1>3
<1>5. QED
  BY <1>4 DEF Flattens

(* FlattenSeq: its elements are those of the sequences it is given. *)
LEMMA Flattening ==
  ASSUME NEW U, NEW ss \in Seq(Seq(U))
  PROVE  /\ FlattenSeq(ss) \in Seq(U)
         /\ \A x : (\E k \in DOMAIN FlattenSeq(ss) : FlattenSeq(ss)[k] = x) <=>
                   \E i \in DOMAIN ss : \E k \in DOMAIN ss[i] : ss[i][k] = x
<1>1. CASE Len(ss) = 0
  <2>1. ss = <<>> /\ FlattenSeq(ss) = <<>>
    BY <1>1 DEF FlattenSeq
  <2>2. DOMAIN ss = {} /\ DOMAIN FlattenSeq(ss) = {}
    BY <2>1
  <2>3. FlattenSeq(ss) \in Seq(U)
    <3>1. <<>> \in Seq(U)
      OBVIOUS
    <3>2. QED
      BY <2>1, <3>1, Zenon
  <2>4. QED
    BY <2>2, <2>3
<1>2. CASE Len(ss) # 0
  <2> DEFINE f == CHOOSE g : Flattens(ss, g)
             Has(s, x) == \E k \in DOMAIN s : s[k] = x
             Upto(n) == f[n] \in Seq(U) /\
                        \A x : Has(f[n], x) <=> \E i \in 1..n : Has(ss[i], x)
             S == {n \in Nat : n + 1 <= Len(ss) => Upto(n + 1)}
  <2>1. Flattens(ss, f)
    BY FlattensExists
  <2>2. FlattenSeq(ss) = f[Len(ss)]
    BY <1>2 DEF FlattenSeq, Flattens
  <2>3. \A i \in 1..Len(ss) : f[i] = IF i = 1 THEN ss[i] ELSE f[i - 1] \o ss[i]
    BY <2>1 DEF Flattens
  <2> HIDE DEF f
  <2>4. 0 \in S
    <3>1. f[1] = ss[1] /\ ss[1] \in Seq(U)
      BY <1>2, <2>3
    <3>2. QED
      BY <3>1
  <2>5. ASSUME NEW n \in Nat, n \in S
        PROVE  n + 1 \in S
    <3> SUFFICES ASSUME n + 2 <= Len(ss)
                 PROVE  Upto(n + 2)
      OBVIOUS
    <3>1. Upto(n + 1)
      BY <2>5
    <3>2. f[n + 2] = f[n + 1] \o ss[n + 2] /\ ss[n + 2] \in Seq(U)
      <4>1. n + 2 \in 1..Len(ss) /\ n + 2 # 1 /\ (n + 2) - 1 = n + 1
        OBVIOUS
      <4>2. f[n + 2] = f[(n + 2) - 1] \o ss[n + 2]
        BY <4>1, <2>3
      <4>3. QED
        BY <4>1, <4>2
    <3>3. \A x : Has(f[n + 2], x) <=> Has(f[n + 1], x) \/ Has(ss[n + 2], x)
      <4> DEFINE s == f[n + 1]
                 t == ss[n + 2]
      <4>1. s \in Seq(U) /\ t \in Seq(U) /\ f[n + 2] = s \o t
        BY <3>1, <3>2
      <4> HIDE DEF s, t
      <4>2. ASSUME NEW x, Has(s, x)
            PROVE  Has(s \o t, x)
        <5>1. PICK k \in DOMAIN s : s[k] = x
          BY <4>2
        <5>2. k \in DOMAIN (s \o t) /\ (s \o t)[k] = x
          BY <4>1, <5>1
        <5>3. QED
          BY <5>2
      <4>3. ASSUME NEW x, Has(t, x)
            PROVE  Has(s \o t, x)
        <5>1. PICK k \in DOMAIN t : t[k] = x
          BY <4>3
        <5>2. Len(s) + k \in DOMAIN (s \o t) /\ (s \o t)[Len(s) + k] = x
          BY <4>1, <5>1
        <5>3. QED
          BY <5>2
      <4>4. ASSUME NEW x, Has(s \o t, x)
            PROVE  Has(s, x) \/ Has(t, x)
        <5>1. PICK k \in DOMAIN (s \o t) : (s \o t)[k] = x
          BY <4>4
        <5>2. CASE k <= Len(s)
          BY <4>1, <5>1, <5>2
        <5>3. CASE ~(k <= Len(s))
          <6>1. k - Len(s) \in DOMAIN t /\ t[k - Len(s)] = x
            BY <4>1, <5>1, <5>3
          <6>2. QED
            BY <6>1
        <5>4. QED
          BY <5>2, <5>3
      <4>5. QED
        BY <4>1, <4>2, <4>3, <4>4 DEF s, t
    <3>4. f[n + 2] \in Seq(U)
      BY <3>1, <3>2
    <3> HIDE DEF Has
    <3>5. \A i : i \in 1..n + 2 <=> i \in 1..n + 1 \/ i = n + 2
      OBVIOUS
    <3>6. QED
      BY <3>1, <3>3, <3>4, <3>5
  <2>6. Nat \subseteq S
    <3> HIDE DEF S
    <3>1. QED
      BY <2>4, <2>5, Induction
  <2>7. Len(ss) - 1 \in Nat /\ (Len(ss) - 1) + 1 = Len(ss)
    BY <1>2
  <2>8. Upto(Len(ss))
    <3> DEFINE m == Len(ss) - 1
    <3>1. m \in S
      BY <2>6, <2>7
    <3>2. QED
      BY <2>7, <3>1
  <2>9. DOMAIN ss = 1..Len(ss)
    OBVIOUS
  <2>10. QED
    BY <2>2, <2>8, <2>9
<1>3. QED
  BY <1>1, <1>2

(* A sequence, of whatever its elements are. *)
IsSeq(s) == s \in Seq(ToSet(s))
Has(s, x) == \E k \in DOMAIN s : s[k] = x

LEMMA SequenceBasics ==
  ASSUME NEW s
  PROVE  /\ IsSeq(s) <=> \E U : s \in Seq(U)
         /\ \A x : x \in ToSet(s) <=> Has(s, x)
<1>1. \A x : x \in ToSet(s) <=> Has(s, x)
  BY DEF ToSet, Has
<1>2. ASSUME NEW U, s \in Seq(U)
      PROVE  IsSeq(s)
  <2>1. \A k \in 1..Len(s) : s[k] \in ToSet(s)
    BY <1>2 DEF ToSet
  <2>2. Len(s) \in Nat /\ s = [k \in 1..Len(s) |-> s[k]]
    BY <1>2
  <2>3. [k \in 1..Len(s) |-> s[k]] \in Seq(ToSet(s))
    BY <2>1, <2>2
  <2>4. QED
    BY <2>2, <2>3 DEF IsSeq
<1>3. QED
  BY <1>1, <1>2 DEF IsSeq

LEMMA Tabulated ==
  ASSUME NEW n \in Nat, NEW s, s = [i \in 1..n |-> s[i]]
  PROVE  IsSeq(s) /\ Len(s) = n
<1>1. \A k \in 1..n : s[k] \in ToSet(s)
  BY DEF ToSet
<1>2. [i \in 1..n |-> s[i]] \in Seq(ToSet(s))
  BY <1>1
<1>3. QED
  BY <1>2 DEF IsSeq

LEMMA Appending ==
  ASSUME NEW s, IsSeq(s), NEW e
  PROVE  /\ IsSeq(Append(s, e))
         /\ \A x : Has(Append(s, e), x) <=> Has(s, x) \/ x = e
         /\ \A i \in DOMAIN s : i \in DOMAIN Append(s, e) /\ Append(s, e)[i] = s[i]
         /\ \A i \in DOMAIN Append(s, e) :
               i \in DOMAIN s \/ (i = Len(s) + 1 /\ Append(s, e)[i] = e)
<1> DEFINE U == ToSet(s) \cup {e}
           t == Append(s, e)
<1>1. s \in Seq(U) /\ e \in U
  BY DEF IsSeq
<1>2. t \in Seq(U) /\ Len(t) = Len(s) + 1 /\ t[Len(s) + 1] = e
  BY <1>1
<1>3. \A i \in DOMAIN s : i \in DOMAIN t /\ t[i] = s[i]
  BY <1>1
<1>4. \A i \in DOMAIN t : i \in DOMAIN s \/ i = Len(s) + 1
  BY <1>1
<1>5. Len(s) + 1 \in DOMAIN t
  BY <1>1
<1> HIDE DEF t
<1>6. \A x : Has(t, x) <=> Has(s, x) \/ x = e
  BY <1>2, <1>3, <1>4, <1>5 DEF Has
<1>7. IsSeq(t)
  BY <1>2, SequenceBasics
<1>8. QED
  BY <1>2, <1>3, <1>4, <1>6, <1>7 DEF t

LEMMA Removing ==
  ASSUME NEW s, IsSeq(s), s # <<>>
  PROVE  /\ IsSeq(Tail(s))
         /\ Has(s, Head(s))
         /\ \A x : Has(Tail(s), x) => Has(s, x)
         /\ \A x : Has(s, x) => x = Head(s) \/ Has(Tail(s), x)
<1> DEFINE U == ToSet(s)
           t == Tail(s)
<1>1. s \in Seq(U) /\ Len(s) \in Nat /\ Len(s) # 0
  BY DEF IsSeq
<1>2. t \in Seq(U) /\ Len(t) = Len(s) - 1 /\ \A i \in 1..Len(s) - 1 : t[i] = s[i + 1]
  BY <1>1
<1>3. Head(s) = s[1] /\ 1 \in DOMAIN s
  BY <1>1
<1>4. DOMAIN t = 1..Len(s) - 1 /\ DOMAIN s = 1..Len(s)
  BY <1>1, <1>2
<1> HIDE DEF t, U
<1>5. ASSUME NEW x, Has(t, x)
      PROVE  Has(s, x)
  <2>1. PICK i \in DOMAIN t : t[i] = x
    BY <1>5 DEF Has
  <2>2. i + 1 \in DOMAIN s /\ s[i + 1] = x
    BY <1>1, <1>2, <1>4, <2>1
  <2>3. QED
    BY <2>2 DEF Has
<1>6. ASSUME NEW x, Has(s, x)
      PROVE  x = Head(s) \/ Has(t, x)
  <2>1. PICK i \in DOMAIN s : s[i] = x
    BY <1>6 DEF Has
  <2>2. CASE i = 1
    BY <1>3, <2>1, <2>2
  <2>3. CASE i # 1
    <3>1. i - 1 \in DOMAIN t /\ t[i - 1] = x
      BY <1>1, <1>2, <1>4, <2>1, <2>3
    <3>2. QED
      BY <3>1 DEF Has
  <2>4. QED
    BY <2>2, <2>3
<1>7. IsSeq(t)
  BY <1>2, SequenceBasics
<1>8. Has(s, Head(s))
  BY <1>3 DEF Has
<1>9. QED
  BY <1>5, <1>6, <1>7, <1>8 DEF t

LEMMA Joining ==
  ASSUME NEW s, IsSeq(s), NEW t, IsSeq(t)
  PROVE  /\ IsSeq(s \o t)
         /\ \A x : Has(s \o t, x) <=> Has(s, x) \/ Has(t, x)
<1> DEFINE U == ToSet(s) \cup ToSet(t)
           r == s \o t
<1>1. s \in Seq(U) /\ t \in Seq(U)
  BY DEF IsSeq
<1>2. r \in Seq(U) /\ Len(r) = Len(s) + Len(t) /\ Len(s) \in Nat /\ Len(t) \in Nat
  BY <1>1
<1>3. \A i \in 1..Len(s) : r[i] = s[i]
  BY <1>1
<1>4. \A i \in 1..Len(t) : r[Len(s) + i] = t[i]
  BY <1>1
<1>5. DOMAIN r = 1..Len(s) + Len(t) /\ DOMAIN s = 1..Len(s) /\ DOMAIN t = 1..Len(t)
  BY <1>1, <1>2
<1> HIDE DEF r, U
<1>6. ASSUME NEW x, Has(s, x)
      PROVE  Has(r, x)
  BY <1>2, <1>3, <1>5, <1>6 DEF Has
<1>7. ASSUME NEW x, Has(t, x)
      PROVE  Has(r, x)
  <2>1. PICK i \in DOMAIN t : t[i] = x
    BY <1>7 DEF Has
  <2>2. Len(s) + i \in DOMAIN r /\ r[Len(s) + i] = x
    BY <1>2, <1>4, <1>5, <2>1
  <2>3. QED
    BY <2>2 DEF Has
<1>8. ASSUME NEW x, Has(r, x)
      PROVE  Has(s, x) \/ Has(t, x)
  <2>1. PICK i \in DOMAIN r : r[i] = x
    BY <1>8 DEF Has
  <2>2. CASE i <= Len(s)
    <3>1. i \in DOMAIN s /\ s[i] = x
      BY <1>2, <1>3, <1>5, <2>1, <2>2
    <3>2. QED
      BY <3>1 DEF Has
  <2>3. CASE ~(i <= Len(s))
    <3> DEFINE j == i - Len(s)
    <3>1. j \in 1..Len(t) /\ Len(s) + j = i
      BY <1>2, <1>5, <2>1, <2>3
    <3>2. t[j] = x
      BY <1>4, <2>1, <3>1
    <3>3. QED
      BY <1>5, <3>1, <3>2 DEF Has
  <2>4. QED
    BY <2>2, <2>3
<1>9. IsSeq(r)
  BY <1>2, SequenceBasics
<1>10. QED
  BY <1>6, <1>7, <1>8, <1>9 DEF r

(* Flattening, of whatever the elements are. *)
LEMMA FlatteningAny ==
  ASSUME NEW ss, IsSeq(ss), \A i \in DOMAIN ss : IsSeq(ss[i])
  PROVE  /\ IsSeq(FlattenSeq(ss))
         /\ \A x : Has(FlattenSeq(ss), x) <=> \E i \in DOMAIN ss : Has(ss[i], x)
<1> DEFINE U == UNION {ToSet(ss[i]) : i \in DOMAIN ss}
<1>1. \A i \in DOMAIN ss : ss[i] \in Seq(U)
  <2> SUFFICES ASSUME NEW i \in DOMAIN ss
               PROVE  ss[i] \in Seq(U)
    OBVIOUS
  <2>1. ToSet(ss[i]) \subseteq U
    OBVIOUS
  <2> HIDE DEF U
  <2>2. QED
    BY <2>1 DEF IsSeq
<1> HIDE DEF U
<1>2. ss \in Seq(Seq(U))
  <2>1. Len(ss) \in Nat /\ DOMAIN ss = 1..Len(ss) /\ ss = [i \in 1..Len(ss) |-> ss[i]]
    BY DEF IsSeq
  <2>2. [i \in 1..Len(ss) |-> ss[i]] \in Seq(Seq(U))
    BY <1>1, <2>1
  <2>3. QED
    BY <2>1, <2>2
<1>3. FlattenSeq(ss) \in Seq(U)
  BY <1>2, Flattening
<1>4. \A x : Has(FlattenSeq(ss), x) <=> \E i \in DOMAIN ss : Has(ss[i], x)
  BY <1>2, Flattening DEF Has
<1>5. IsSeq(FlattenSeq(ss))
  BY <1>3, SequenceBasics
<1>6. QED
  BY <1>4, <1>5

-----------------------------------------------------------------------------
(* The places of the elements of a finite set in a total order. *)
PlaceIn(S, order, x) == Cardinality({y \in S : <<y, x>> \in order})

IsOrder(S, order) ==
    /\ \A x, y \in S : <<x, y>> \in order \/ <<y, x>> \in order
    /\ \A x, y \in S : <<x, y>> \in order /\ <<y, x>> \in order => x = y
    /\ \A x, y, z \in S : <<x, y>> \in order /\ <<y, z>> \in order => <<x, z>> \in order

(* They are the numbers from one to the size of the set, each once. *)
LEMMA Places ==
  ASSUME NEW S, IsFiniteSet(S), NEW order, IsOrder(S, order)
  PROVE  /\ Cardinality(S) \in Nat
         /\ \A x \in S : PlaceIn(S, order, x) \in 1..Cardinality(S)
         /\ \A x, y \in S : PlaceIn(S, order, x) = PlaceIn(S, order, y) => x = y
         /\ \A n \in 1..Cardinality(S) : \E x \in S : PlaceIn(S, order, x) = n
<1> DEFINE Below(x) == {y \in S : <<y, x>> \in order}
           place == [x \in S |-> PlaceIn(S, order, x)]
<1>1. Cardinality(S) \in Nat
  BY FS_CardinalityType
<1>2. ASSUME NEW x \in S
      PROVE  IsFiniteSet(Below(x)) /\ Cardinality(Below(x)) \in 1..Cardinality(S)
  <2>1. IsFiniteSet(Below(x)) /\ Cardinality(Below(x)) <= Cardinality(S)
    BY FS_Subset
  <2>2. x \in Below(x)
    BY DEF IsOrder
  <2> HIDE DEF Below
  <2>3. Cardinality(Below(x)) \in Nat /\ Cardinality(Below(x)) # 0
    BY <2>1, <2>2, FS_CardinalityType, FS_EmptySet
  <2>4. QED
    BY <1>1, <2>1, <2>3
<1>3. ASSUME NEW x \in S, NEW y \in S, <<x, y>> \in order, x # y
      PROVE  Cardinality(Below(x)) # Cardinality(Below(y))
  <2>1. Below(x) \in SUBSET Below(y)
    BY <1>3 DEF IsOrder
  <2>2. y \in Below(y) /\ y \notin Below(x)
    BY <1>3 DEF IsOrder
  <2>3. IsFiniteSet(Below(y))
    BY <1>2
  <2> HIDE DEF Below
  <2>4. QED
    BY <2>1, <2>2, <2>3, FS_Subset
<1>4. \A x, y \in S : PlaceIn(S, order, x) = PlaceIn(S, order, y) => x = y
  <2> SUFFICES ASSUME NEW x \in S, NEW y \in S, x # y
               PROVE  Cardinality(Below(x)) # Cardinality(Below(y))
    BY DEF PlaceIn
  <2>1. <<x, y>> \in order \/ <<y, x>> \in order
    BY DEF IsOrder
  <2> HIDE DEF Below
  <2>2. QED
    BY <1>3, <2>1
<1>5. \A x \in S : PlaceIn(S, order, x) \in 1..Cardinality(S)
  BY <1>2 DEF PlaceIn
<1>6. ASSUME NEW n \in 1..Cardinality(S), \A x \in S : PlaceIn(S, order, x) # n
      PROVE  FALSE
  <2> DEFINE N == 1..Cardinality(S)
             T == N \ {n}
  <2>1. IsFiniteSet(N) /\ Cardinality(N) = Cardinality(S)
    <3>1. IsFiniteSet(1..Cardinality(S)) /\ Cardinality(1..Cardinality(S)) =
              IF 1 > Cardinality(S) THEN 0 ELSE Cardinality(S) - 1 + 1
      BY <1>1, FS_Interval
    <3>2. QED
      BY <1>1, <3>1
  <2>2. IsFiniteSet(T) /\ Cardinality(T) = Cardinality(S) - 1
    <3> HIDE DEF N
    <3>1. n \in N
      BY DEF N
    <3>2. QED
      BY <2>1, <3>1, FS_RemoveElement
  <2>3. place \in [S -> T]
    BY <1>5, <1>6
  <2> HIDE DEF T
  <2>4. Cardinality(T) < Cardinality(S)
    BY <1>1, <2>2
  <2>5. PICK x \in S, y \in S : x # y /\ place[x] = place[y]
    <3> HIDE DEF place
    <3>1. QED
      BY <2>2, <2>3, <2>4, FS_PigeonHole
  <2>6. QED
    BY <1>4, <2>5
<1>7. QED
  BY <1>1, <1>4, <1>5, <1>6

-----------------------------------------------------------------------------
(* Sequences by the sets of their elements. *)

LEMMA Elements ==
  ASSUME NEW s, IsSeq(s)
  PROVE  /\ \A U : ToSet(s) \subseteq U => s \in Seq(U)
         /\ \A x : x \in ToSet(s) <=> Has(s, x)
         /\ s = <<>> <=> ToSet(s) = {}
<1>1. \A x : x \in ToSet(s) <=> Has(s, x)
  BY SequenceBasics
<1>2. ASSUME NEW U, ToSet(s) \subseteq U
      PROVE  s \in Seq(U)
  <2>1. Len(s) \in Nat /\ s = [i \in 1..Len(s) |-> s[i]] /\ \A i \in 1..Len(s) : s[i] \in ToSet(s)
    BY DEF IsSeq
  <2>2. [i \in 1..Len(s) |-> s[i]] \in Seq(U)
    BY <1>2, <2>1
  <2>3. QED
    BY <2>1, <2>2
<1>3. s = <<>> <=> ToSet(s) = {}
  <2>1. ASSUME s # <<>>
        PROVE  ToSet(s) # {}
    BY <1>1, <2>1, Removing
  <2>2. ToSet(<<>>) = {}
    BY DEF ToSet
  <2>3. QED
    BY <2>1, <2>2
<1>4. QED
  BY <1>1, <1>2, <1>3

LEMMA TailElements ==
  ASSUME NEW s, IsSeq(s), s # <<>>
  PROVE  /\ IsSeq(Tail(s)) /\ Head(s) \in ToSet(s)
         /\ ToSet(s) = {Head(s)} \cup ToSet(Tail(s))
<1>1. IsSeq(Tail(s))
  BY Removing
<1>2. QED
  BY <1>1, Removing, Elements

LEMMA JoinElements ==
  ASSUME NEW s, IsSeq(s), NEW t, IsSeq(t)
  PROVE  IsSeq(s \o t) /\ ToSet(s \o t) = ToSet(s) \cup ToSet(t)
<1>1. IsSeq(s \o t)
  BY Joining
<1>2. QED
  BY <1>1, Joining, Elements

LEMMA TabulatedElements ==
  ASSUME NEW n \in Nat, NEW s, s = [i \in 1..n |-> s[i]]
  PROVE  IsSeq(s) /\ DOMAIN s = 1..n /\ ToSet(s) = {s[i] : i \in 1..n}
<1>1. IsSeq(s)
  BY Tabulated
<1>2. DOMAIN s = 1..n
  OBVIOUS
<1>3. QED
  BY <1>1, <1>2 DEF ToSet

(* The image of a finite set and the elements of a sequence are finite. *)
LEMMA ImageFinite ==
  ASSUME NEW S, IsFiniteSet(S), NEW f, DOMAIN f = S
  PROVE  IsFiniteSet({f[x] : x \in S})
<1> DEFINE T == {f[x] : x \in S}
           g == [x \in S |-> f[x]]
<1>1. g \in Surjection(S, T)
  BY DEF Surjection
<1> HIDE DEF g, T
<1>2. IsFiniteSet(T)
  BY <1>1, FS_Surjection
<1>3. QED
  BY <1>2 DEF T

LEMMA SequenceFinite ==
  ASSUME NEW s, IsSeq(s)
  PROVE  IsFiniteSet(ToSet(s))
<1>1. Len(s) \in Nat /\ DOMAIN s = 1..Len(s) /\ ToSet(s) = {s[i] : i \in DOMAIN s}
  BY DEF IsSeq, ToSet
<1>2. IsFiniteSet(DOMAIN s)
  BY <1>1, FS_Interval
<1>3. QED
  BY <1>1, <1>2, ImageFinite

(* A function that keeps its arguments apart has as many values. *)
LEMMA SameSize ==
  ASSUME NEW S, IsFiniteSet(S), NEW f, DOMAIN f = S, \A x, y \in S : f[x] = f[y] => x = y
  PROVE  /\ IsFiniteSet({f[x] : x \in S})
         /\ Cardinality({f[x] : x \in S}) = Cardinality(S)
<1> DEFINE T == {f[x] : x \in S}
           g == [x \in S |-> f[x]]
<1>1. g \in Surjection(S, T) /\ g \in Injection(S, T)
  <2>1. \A x \in S : g[x] = f[x] /\ f[x] \in T
    OBVIOUS
  <2>2. \A y \in T : \E x \in S : g[x] = y
    BY <2>1
  <2>3. g \in [S -> T]
    BY <2>1
  <2>4. \A x, y \in S : g[x] = g[y] => x = y
    BY <2>1
  <2> HIDE DEF g, T
  <2>5. QED
    BY <2>2, <2>3, <2>4 DEF Surjection, Injection, IsInjective
<1> HIDE DEF g, T
<1>2. IsFiniteSet(T) /\ Cardinality(T) = Cardinality(S)
  BY <1>1, FS_Surjection
<1>3. QED
  BY <1>2 DEF T

-----------------------------------------------------------------------------
(* Sequences that hold nothing twice. *)
Once(s) == \A i, j \in DOMAIN s : s[i] = s[j] => i = j

LEMMA JoiningOnce ==
  ASSUME NEW s, IsSeq(s), Once(s), NEW t, IsSeq(t), Once(t), \A x : ~(Has(s, x) /\ Has(t, x))
  PROVE  Once(s \o t)
<1> DEFINE U == ToSet(s) \cup ToSet(t)
           r == s \o t
<1>1. s \in Seq(U) /\ t \in Seq(U)
  BY DEF IsSeq
<1>2. Len(s) \in Nat /\ Len(t) \in Nat
      /\ DOMAIN s = 1..Len(s) /\ DOMAIN t = 1..Len(t) /\ DOMAIN r = 1..Len(s) + Len(t)
  BY <1>1
<1>3. \A i \in 1..Len(s) : r[i] = s[i] /\ Has(s, r[i])
  BY <1>1 DEF Has
<1>4. ASSUME NEW i \in DOMAIN r, ~(i <= Len(s))
      PROVE  i - Len(s) \in DOMAIN t /\ r[i] = t[i - Len(s)] /\ Has(t, r[i])
  <2>1. i - Len(s) \in 1..Len(t)
    BY <1>2, <1>4
  <2>2. r[i] = t[i - Len(s)]
    BY <1>1, <1>2, <1>4
  <2>3. QED
    BY <1>2, <2>1, <2>2 DEF Has
<1> HIDE DEF r, U
<1> SUFFICES ASSUME NEW i \in DOMAIN r, NEW j \in DOMAIN r, r[i] = r[j]
             PROVE  i = j
  BY DEF Once, r
<1>5. CASE i <= Len(s) /\ j <= Len(s)
  BY <1>2, <1>3, <1>5 DEF Once
<1>6. CASE ~(i <= Len(s)) /\ ~(j <= Len(s))
  <2>1. i - Len(s) = j - Len(s)
    BY <1>4, <1>6 DEF Once
  <2>2. QED
    BY <1>2, <2>1
<1>7. CASE i <= Len(s) /\ ~(j <= Len(s))
  BY <1>2, <1>3, <1>4, <1>7
<1>8. CASE ~(i <= Len(s)) /\ j <= Len(s)
  BY <1>2, <1>3, <1>4, <1>8
<1>9. QED
  BY <1>5, <1>6, <1>7, <1>8

(* Flattening sequences with nothing twice and nothing in common. *)
LEMMA FlatteningOnce ==
  ASSUME NEW ss, IsSeq(ss), \A i \in DOMAIN ss : IsSeq(ss[i]) /\ Once(ss[i]),
         \A i, j \in DOMAIN ss : i # j => \A x : ~(Has(ss[i], x) /\ Has(ss[j], x))
  PROVE  Once(FlattenSeq(ss))
<1>1. Len(ss) \in Nat /\ DOMAIN ss = 1..Len(ss)
  BY DEF IsSeq
<1>2. CASE Len(ss) = 0
  <2>1. FlattenSeq(ss) = <<>> /\ DOMAIN <<>> = {}
    BY <1>2 DEF FlattenSeq
  <2>2. QED
    BY <2>1 DEF Once
<1>3. CASE Len(ss) # 0
  <2> DEFINE f == CHOOSE g : Flattens(ss, g)
             Upto(n) == /\ IsSeq(f[n]) /\ Once(f[n])
                        /\ \A x : Has(f[n], x) <=> \E i \in 1..n : Has(ss[i], x)
             S == {n \in Nat : n + 1 <= Len(ss) => Upto(n + 1)}
             U == UNION {ToSet(ss[i]) : i \in DOMAIN ss}
  <2>1. Flattens(ss, f)
    <3>1. \A i \in DOMAIN ss : ss[i] \in Seq(U)
      <4> SUFFICES ASSUME NEW i \in DOMAIN ss
                   PROVE  ss[i] \in Seq(U)
        OBVIOUS
      <4>1. ToSet(ss[i]) \subseteq U
        OBVIOUS
      <4> HIDE DEF U
      <4>2. QED
        BY <4>1, Elements
    <3> HIDE DEF U
    <3>2. ss = [i \in 1..Len(ss) |-> ss[i]]
      BY DEF IsSeq
    <3>3. [i \in 1..Len(ss) |-> ss[i]] \in Seq(Seq(U))
      BY <1>1, <3>1
    <3>4. ss \in Seq(Seq(U))
      BY <3>2, <3>3
    <3>5. QED
      BY <3>4, FlattensExists
  <2>2. FlattenSeq(ss) = f[Len(ss)]
    BY <1>3 DEF FlattenSeq, Flattens
  <2>3. \A i \in 1..Len(ss) : f[i] = IF i = 1 THEN ss[i] ELSE f[i - 1] \o ss[i]
    BY <2>1 DEF Flattens
  <2> HIDE DEF f
  <2>4. 0 \in S
    <3>1. f[1] = ss[1] /\ 1 \in DOMAIN ss
      BY <1>1, <1>3, <2>3
    <3>2. 1..1 = {1}
      OBVIOUS
    <3>3. Upto(1)
      BY <3>1, <3>2
    <3>4. QED
      BY <3>3
  <2>5. ASSUME NEW n \in Nat, n \in S
        PROVE  n + 1 \in S
    <3> SUFFICES ASSUME n + 2 <= Len(ss)
                 PROVE  Upto(n + 2)
      OBVIOUS
    <3> DEFINE s == f[n + 1]
               t == ss[n + 2]
    <3>1. Upto(n + 1)
      BY <1>1, <2>5
    <3>2. n + 2 \in DOMAIN ss /\ \A i \in 1..n + 1 : i \in DOMAIN ss /\ i # n + 2
      BY <1>1
    <3>3. f[n + 2] = s \o t
      <4>1. n + 2 \in 1..Len(ss) /\ n + 2 # 1 /\ (n + 2) - 1 = n + 1
        BY <1>1
      <4>2. QED
        BY <4>1, <2>3
    <3>4. IsSeq(s) /\ Once(s) /\ IsSeq(t) /\ Once(t) /\ \A x : Has(s, x) <=> \E i \in 1..n + 1 : Has(ss[i], x)
      BY <3>1, <3>2
    <3>5. \A x : ~(Has(s, x) /\ Has(t, x))
      BY <3>2, <3>4
    <3>6. \A i : i \in 1..n + 2 <=> i \in 1..n + 1 \/ i = n + 2
      OBVIOUS
    <3> HIDE DEF s
    <3>7. Once(s \o t) /\ IsSeq(s \o t) /\ \A x : Has(s \o t, x) <=> Has(s, x) \/ Has(t, x)
      BY <3>4, <3>5, Joining, JoiningOnce
    <3>8. QED
      BY <3>3, <3>4, <3>6, <3>7
  <2>6. Nat \subseteq S
    <3> HIDE DEF S
    <3>1. QED
      BY <2>4, <2>5, Induction
  <2>7. Len(ss) - 1 \in Nat /\ (Len(ss) - 1) + 1 = Len(ss)
    BY <1>1, <1>3
  <2>8. Upto(Len(ss))
    <3> DEFINE m == Len(ss) - 1
    <3>1. m \in S
      BY <2>6, <2>7
    <3>2. QED
      BY <1>1, <2>7, <3>1
  <2>9. QED
    BY <2>2, <2>8
<1>4. QED
  BY <1>2, <1>3

Share(A, part, j) == {a \in A : part[a] = j}

(* A finite set shared out among places is as large as the shares are together. *)
LEMMA SharedOut ==
  ASSUME NEW A, IsFiniteSet(A), NEW order, IsOrder(A, order), NEW J, NEW part, NEW n,
         \A a \in A : part[a] \in J,
         \A j \in J : n[j] = Cardinality(Share(A, part, j))
  PROVE  Cardinality(UNION {{j} \X (1..n[j]) : j \in J}) = Cardinality(A)
<1> DEFINE S(j) == Share(A, part, j)
           W == UNION {{j} \X (1..n[j]) : j \in J}
           g == [a \in A |-> <<part[a], PlaceIn(S(part[a]), order, a)>>]
<1>1. \A j : IsFiniteSet(S(j)) /\ S(j) \subseteq A
  <2>1. \A j : S(j) \subseteq A
    BY DEF Share
  <2> HIDE DEF S
  <2>2. QED
    BY <2>1, FS_Subset
<1>2. \A j : IsOrder(S(j), order)
  BY DEF IsOrder, Share
<1>3. ASSUME NEW j \in J
      PROVE  /\ n[j] \in Nat
             /\ \A x \in S(j) : PlaceIn(S(j), order, x) \in 1..n[j]
             /\ \A x, y \in S(j) : PlaceIn(S(j), order, x) = PlaceIn(S(j), order, y) => x = y
             /\ \A k \in 1..n[j] : \E x \in S(j) : PlaceIn(S(j), order, x) = k
  <2>1. n[j] = Cardinality(S(j))
    OBVIOUS
  <2> HIDE DEF S
  <2>2. QED
    BY <1>1, <1>2, <2>1, Places
<1>4. \A a \in A : a \in S(part[a]) /\ part[a] \in J
  BY DEF Share
<1>5. \A x, y \in A : g[x] = g[y] => x = y
  <2> SUFFICES ASSUME NEW x \in A, NEW y \in A, g[x] = g[y]
               PROVE  x = y
    OBVIOUS
  <2>1. part[x] = part[y] /\ PlaceIn(S(part[x]), order, x) = PlaceIn(S(part[y]), order, y)
    OBVIOUS
  <2> HIDE DEF S, g
  <2>2. QED
    BY <1>3, <1>4, <2>1
<1>6. W = {g[a] : a \in A}
  <2>1. ASSUME NEW a \in A
        PROVE  g[a] \in W
    <3>1. PlaceIn(S(part[a]), order, a) \in 1..n[part[a]]
      BY <1>3, <1>4
    <3> HIDE DEF S
    <3>2. QED
      BY <1>4, <3>1
  <2>2. ASSUME NEW w \in W
        PROVE  \E a \in A : g[a] = w
    <3>1. PICK j \in J : w \in {j} \X (1..n[j])
      OBVIOUS
    <3>2. w = <<j, w[2]>> /\ w[2] \in 1..n[j]
      BY <3>1
    <3>3. PICK a \in S(j) : PlaceIn(S(j), order, a) = w[2]
      BY <1>3, <3>2
    <3>4. a \in A /\ part[a] = j
      BY DEF Share
    <3>5. g[a] = <<j, PlaceIn(S(j), order, a)>>
      BY <3>4
    <3>6. QED
      BY <3>2, <3>3, <3>4, <3>5
  <2> HIDE DEF W, g
  <2>3. QED
    BY <2>1, <2>2
<1>7. DOMAIN g = A
  OBVIOUS
<1> HIDE DEF g, W
<1>8. Cardinality(W) = Cardinality(A)
  <2> HIDE DEF S
  <2>1. Cardinality({g[a] : a \in A}) = Cardinality(A)
    BY <1>5, <1>7, SameSize
  <2>2. QED
    BY <1>6, <2>1
<1>9. QED
  BY <1>8 DEF W
=============================================================================
