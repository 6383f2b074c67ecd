---------------------------- MODULE BurstProofs ----------------------------
(***************************************************************************)
(* What holds of Burst for any connections, results and caps: the lines of *)
(* a burst name configured connections and hold every connection's         *)
(* verdict, so that an INFO line repeats a window warned of, and an exit   *)
(* of 0 is a burst logged whole; and each row of the results is one line,  *)
(* so that a complete line counts its rows and a table has its first ones. *)
(***************************************************************************)
EXTENDS Burst, SequenceFacts

-----------------------------------------------------------------------------
(* The rows of a burst, ranked: each place is one row's. *)

LEMMA ConnsFinite ==
  /\ IsSeq(Conns) /\ Len(Conns) \in Nat /\ DOMAIN Conns = 1..Len(Conns)
  /\ conns # {} /\ IsFiniteSet(conns)
  /\ \A c \in conns : \E i \in DOMAIN Conns : Conns[i] = c
  /\ \A c \in conns : Place(c) \in Nat /\ ByName[Place(c)] = c
  /\ \A i \in DOMAIN Conns : Conns[i] \in conns
  /\ \A i, j \in DOMAIN Conns : Conns[i] = Conns[j] => i = j
<1>1. Conns \in Seq(conns) /\ Len(Conns) \in Nat /\ DOMAIN Conns = 1..Len(Conns) /\ Len(Conns) # 0
  BY ConnsAssumption DEF conns
<1>2. \A i \in DOMAIN Conns : Conns[i] \in conns
  BY DEF conns, ToSet
<1>3. ASSUME NEW c \in conns
      PROVE  /\ \E i \in DOMAIN Conns : Conns[i] = c
             /\ Place(c) \in Nat /\ ByName[Place(c)] = c
  <2>1. \E i \in DOMAIN Conns : Conns[i] = c
    BY DEF conns, ToSet
  <2>2. \E i \in DOMAIN ByName : ByName[i] = c
    BY ByNameAssumption DEF conns, ToSet
  <2>3. DOMAIN ByName \subseteq Nat
    BY ByNameAssumption
  <2>4. QED
    BY <2>1, <2>2, <2>3 DEF Place
<1>4. IsFiniteSet(conns)
  <2>1. IsFiniteSet(1..Len(Conns))
    BY <1>1, FS_Interval
  <2>2. IsFiniteSet({Conns[i] : i \in DOMAIN Conns})
    BY <1>1, <2>1, ImageFinite
  <2>3. QED
    BY <2>2 DEF conns, ToSet
<1>5. IsSeq(Conns)
  BY <1>1, SequenceBasics
<1>6. 1 \in DOMAIN Conns
  BY <1>1
<1>7. \A i, j \in DOMAIN Conns : Conns[i] = Conns[j] => i = j
  BY ConnsAssumption
<1>8. QED
  BY <1>1, <1>2, <1>3, <1>4, <1>5, <1>6, <1>7

(* The keys of a family's rows are finitely many numbers. *)
LEMMA KeysType ==
  ASSUME NEW r, Result(r), NEW f \in ToSet(Families)
  PROVE  IsFiniteSet(RowsOf(r, f)) /\ RowsOf(r, f) \subseteq Nat
<1>1. CASE f # "days"
  BY <1>1 DEF Result, RowsOf
<1>2. CASE f = "days"
  <2> DEFINE E == {e \in r.rows["days"] : e[2] \in r.listed}
             day == [d \in E |-> d[1]]
  <2>1. IsFiniteSet(r.rows["days"]) /\ r.rows["days"] \subseteq Nat \X STRING
    BY <1>2 DEF Result
  <2>2. IsFiniteSet(E)
    BY <2>1, FS_Subset
  <2>3. IsFiniteSet({day[d] : d \in E})
    <3> HIDE DEF E
    <3>1. DOMAIN day = E
      OBVIOUS
    <3> HIDE DEF day
    <3>2. QED
      BY <2>2, <3>1, ImageFinite
  <2>4. {day[d] : d \in E} = ListedDays(r)
    BY DEF ListedDays
  <2>5. ListedDays(r) \subseteq Nat
    BY <2>1 DEF ListedDays
  <2>6. QED
    BY <1>2, <2>3, <2>4, <2>5 DEF RowsOf
<1>3. QED
  BY <1>1, <1>2

(* Rows that have a rank each. *)
Ranked(rows) ==
    /\ IsFiniteSet(rows)
    /\ \A a \in rows : a.rank \in Nat
    /\ \A a, b \in rows : a.rank = b.rank => a = b

(* InOrder lists them all, and nothing else. *)
LEMMA OrderIsWhole ==
  ASSUME NEW rows, Ranked(rows)
  PROVE  /\ IsSeq(InOrder(rows)) /\ Once(InOrder(rows))
         /\ \A x : Has(InOrder(rows), x) <=> x \in rows
<1> DEFINE order == {ab \in rows \X rows : ab[1].rank <= ab[2].rank}
           N == Cardinality(rows)
           Upto(x) == {a \in rows : a.rank <= x.rank}
           s == InOrder(rows)
<1>1. IsOrder(rows, order)
  BY DEF IsOrder, Ranked
<1>2. \A x \in rows : PlaceIn(rows, order, x) = Cardinality(Upto(x))
  <2> SUFFICES ASSUME NEW x \in rows
               PROVE  {y \in rows : <<y, x>> \in order} = Upto(x)
    BY DEF PlaceIn
  <2>1. QED
    OBVIOUS
<1> HIDE DEF order
<1>3. /\ N \in Nat
      /\ \A x \in rows : Cardinality(Upto(x)) \in 1..N
      /\ \A x, y \in rows : Cardinality(Upto(x)) = Cardinality(Upto(y)) => x = y
      /\ \A n \in 1..N : \E x \in rows : Cardinality(Upto(x)) = n
  <2>1. IsFiniteSet(rows)
    BY DEF Ranked
  <2> HIDE DEF Upto
  <2>2. QED
    BY <1>1, <1>2, <2>1, Places
<1>4. s = [n \in 1..N |-> CHOOSE row \in rows : Cardinality(Upto(row)) = n]
  BY DEF InOrder
<1> HIDE DEF s, Upto, N
<1>5. \A n \in 1..N : s[n] \in rows /\ Cardinality(Upto(s[n])) = n
  BY <1>3, <1>4
<1>6. DOMAIN s = 1..N /\ IsSeq(s)
  <2>1. s = [n \in 1..N |-> s[n]]
    BY <1>4
  <2>2. QED
    BY <1>3, <1>4, <2>1, Tabulated
<1>7. ASSUME NEW x \in rows
      PROVE  Has(s, x)
  <2>1. Cardinality(Upto(x)) \in 1..N
    BY <1>3
  <2>2. s[Cardinality(Upto(x))] = x
    BY <1>3, <1>5, <2>1
  <2>3. QED
    BY <1>6, <2>1, <2>2 DEF Has
<1>8. \A x : Has(s, x) => x \in rows
  BY <1>5, <1>6 DEF Has
<1>9. Once(s)
  <2>1. \A i, j \in 1..N : s[i] = s[j] => i = j
    BY <1>5
  <2>2. QED
    BY <1>6, <2>1 DEF Once
<1>10. QED
  BY <1>6, <1>7, <1>8, <1>9 DEF s

(* The connections a scan read, those of one product, and the keys of their
   rows of f. *)
Live(rs) == {d \in conns : rs[d].stop = "none"}
OfProduct(cs, p) == {c \in cs : Product[c] = p}
Keys(rs, f, cs) == UNION {{<<k, c>> : k \in RowsOf(rs[c], f)} : c \in cs}

(* The order of the rows, a key's place among some of them, and its row. *)
First(a, b) == a[1] < b[1] \/ (a[1] = b[1] /\ Place(a[2]) <= Place(b[2]))
PlaceAmong(x, among) == Cardinality({y \in among : First(y, x)})
RowAt(rs, f, x) ==
    [kind |-> f, key |-> x[1], conn |-> x[2], rank |-> PlaceAmong(x, Keys(rs, f, Live(rs))),
     forgeRank |-> PlaceAmong(x, Keys(rs, f, OfProduct(Live(rs), Product[x[2]])))]

(* Among the rows of some connections each place is one row's. *)
LEMMA KeysPlaced ==
  ASSUME NEW rs \in Scans, NEW f \in ToSet(Families), NEW cs, cs \subseteq conns
  PROVE  LET K == Keys(rs, f, cs)
         IN  /\ IsFiniteSet(K) /\ Cardinality(K) \in Nat
             /\ \A x \in K : x = <<x[1], x[2]>> /\ x[2] \in cs /\ x[1] \in RowsOf(rs[x[2]], f)
             /\ \A c \in cs : \A k \in RowsOf(rs[c], f) : <<k, c>> \in K
             /\ \A x \in K : PlaceAmong(x, K) \in 1..Cardinality(K)
             /\ \A x, y \in K : PlaceAmong(x, K) = PlaceAmong(y, K) => x = y
             /\ \A n \in 1..Cardinality(K) : \E x \in K : PlaceAmong(x, K) = n
<1> DEFINE of == [c \in cs |-> {<<k, c>> : k \in RowsOf(rs[c], f)}]
           K == Keys(rs, f, cs)
           order == {ab \in K \X K : First(ab[1], ab[2])}
<1>1. \A c \in conns : IsFiniteSet(RowsOf(rs[c], f)) /\ RowsOf(rs[c], f) \subseteq Nat
  BY KeysType, ScansAssumption DEF conns
<1>2. IsFiniteSet(K)
  <2>1. ASSUME NEW c \in cs
        PROVE  IsFiniteSet(of[c])
    <3> DEFINE pair == [k \in RowsOf(rs[c], f) |-> <<k, c>>]
    <3>1. DOMAIN pair = RowsOf(rs[c], f) /\ IsFiniteSet(RowsOf(rs[c], f))
      BY <1>1
    <3>2. of[c] = {pair[k] : k \in RowsOf(rs[c], f)}
      OBVIOUS
    <3> HIDE DEF of, pair
    <3>3. IsFiniteSet({pair[k] : k \in RowsOf(rs[c], f)})
      BY <3>1, ImageFinite
    <3>4. QED
      BY <3>2, <3>3
  <2>2. IsFiniteSet(cs)
    BY ConnsFinite, FS_Subset
  <2>3. DOMAIN of = cs
    OBVIOUS
  <2>4. K = UNION {of[c] : c \in cs}
    BY DEF Keys
  <2> HIDE DEF of, K
  <2>5. IsFiniteSet({of[c] : c \in cs})
    BY <2>2, <2>3, ImageFinite
  <2>6. QED
    BY <2>1, <2>4, <2>5, FS_UNION
<1>3. /\ \A x \in K : x = <<x[1], x[2]>> /\ x[2] \in cs /\ x[1] \in RowsOf(rs[x[2]], f)
      /\ \A c \in cs : \A k \in RowsOf(rs[c], f) : <<k, c>> \in K
  BY DEF Keys
<1>4. \A x \in K : x = <<x[1], x[2]>> /\ x[1] \in Nat /\ x[2] \in conns /\ Place(x[2]) \in Int
  BY <1>1, <1>3, ConnsFinite
<1> HIDE DEF K
<1>5. IsOrder(K, order)
  <2>1. \A x, y \in K : First(x, y) \/ First(y, x)
    BY <1>4 DEF First
  <2>2. \A x, y \in K : First(x, y) /\ First(y, x) => x = y
    <3> SUFFICES ASSUME NEW x \in K, NEW y \in K, First(x, y), First(y, x)
                 PROVE  x = y
      OBVIOUS
    <3>1. x[1] = y[1] /\ Place(x[2]) = Place(y[2])
      BY <1>4 DEF First
    <3>2. x[2] = y[2]
      BY <1>4, <3>1, ConnsFinite
    <3>3. QED
      BY <1>4, <3>1, <3>2
  <2>3. \A x, y, z \in K : First(x, y) /\ First(y, z) => First(x, z)
    BY <1>4 DEF First
  <2>4. QED
    BY <2>1, <2>2, <2>3 DEF IsOrder
<1>6. \A x \in K : PlaceIn(K, order, x) = PlaceAmong(x, K)
  <2> SUFFICES ASSUME NEW x \in K
               PROVE  {y \in K : <<y, x>> \in order} = {y \in K : First(y, x)}
    BY DEF PlaceIn, PlaceAmong
  <2>1. QED
    OBVIOUS
<1> HIDE DEF order
<1>7. QED
  BY <1>2, <1>3, <1>5, <1>6, Places DEF K

(* What rank makes of a family. *)
LEMMA RankRows ==
  ASSUME NEW rs \in Scans, NEW f \in ToSet(Families)
  PROVE  LET K == Keys(rs, f, Live(rs))
         IN  /\ Rank(rs, f) = {RowAt(rs, f, x) : x \in K}
             /\ \A x, y \in K : RowAt(rs, f, x) = RowAt(rs, f, y) => x = y
<1> DEFINE K == Keys(rs, f, Live(rs))
<1>1. \A x \in K : {y \in K : Product[y[2]] = Product[x[2]]} = Keys(rs, f, OfProduct(Live(rs), Product[x[2]]))
  BY DEF Keys, OfProduct
<1>2. Rank(rs, f) = {RowAt(rs, f, x) : x \in K}
  <2> DEFINE row(x) == [kind |-> f, key |-> x[1], conn |-> x[2], rank |-> PlaceAmong(x, K),
                        forgeRank |-> PlaceAmong(x, {y \in K : Product[y[2]] = Product[x[2]]})]
  <2>1. Rank(rs, f) = {row(x) : x \in K}
    BY DEF Rank, PlaceAmong, First, Keys, Live
  <2>2. \A x \in K : row(x) = RowAt(rs, f, x)
    BY <1>1 DEF RowAt
  <2> HIDE DEF row, K
  <2>3. QED
    BY <2>1, <2>2
<1>3. \A x \in K : x = <<x[1], x[2]>>
  BY KeysPlaced DEF Live
<1>4. \A x, y \in K : RowAt(rs, f, x) = RowAt(rs, f, y) => x = y
  <2> HIDE DEF K
  <2> SUFFICES ASSUME NEW x \in K, NEW y \in K, RowAt(rs, f, x) = RowAt(rs, f, y)
               PROVE  x = y
    OBVIOUS
  <2>1. x[1] = y[1] /\ x[2] = y[2]
    BY DEF RowAt
  <2>2. QED
    BY <1>3, <2>1
<1>5. QED
  BY <1>2, <1>4

LEMMA RankOrders ==
  ASSUME NEW rs \in Scans, NEW f \in ToSet(Families)
  PROVE  /\ Ranked(Rank(rs, f))
         /\ \A row \in Rank(rs, f) :
               /\ row.kind = f /\ row.conn \in Live(rs)
               /\ DOMAIN row = {"kind", "key", "conn", "rank", "forgeRank"}
<1> DEFINE K == Keys(rs, f, Live(rs))
           row == [x \in K |-> RowAt(rs, f, x)]
<1>1. /\ IsFiniteSet(K) /\ Cardinality(K) \in Nat
      /\ \A x \in K : x[2] \in Live(rs) /\ PlaceAmong(x, K) \in 1..Cardinality(K)
      /\ \A x, y \in K : PlaceAmong(x, K) = PlaceAmong(y, K) => x = y
  BY KeysPlaced DEF Live
<1>2. Rank(rs, f) = {row[x] : x \in K} /\ DOMAIN row = K
  BY RankRows
<1>3. \A x \in K : row[x].rank = PlaceAmong(x, K) /\ row[x].kind = f /\ row[x].conn = x[2]
                   /\ DOMAIN row[x] = {"kind", "key", "conn", "rank", "forgeRank"}
  BY DEF RowAt
<1> HIDE DEF row, K
<1>4. IsFiniteSet({row[x] : x \in K})
  BY <1>1, <1>2, ImageFinite
<1>5. Ranked({row[x] : x \in K})
  BY <1>1, <1>3, <1>4 DEF Ranked
<1>6. QED
  BY <1>1, <1>2, <1>3, <1>5

LEMMA FewerRanked ==
  ASSUME NEW rows, Ranked(rows), NEW few, few \subseteq rows
  PROVE  Ranked(few)
<1>1. IsFiniteSet(few)
  BY FS_Subset DEF Ranked
<1>2. QED
  BY <1>1 DEF Ranked

LEMMA ListedRanked ==
  ASSUME NEW rs \in Scans
  PROVE  /\ \A f \in ToSet(Families) :
               Ranked(Listed(rs, f)) /\ \A row \in Listed(rs, f) : row.kind = f /\ row.conn \in Live(rs)
         /\ Ranked(Top(rs)) /\ \A row \in Top(rs) : row.kind = "top" /\ row.conn \in Live(rs)
<1>1. ASSUME NEW f \in ToSet(Families)
      PROVE  Ranked(Listed(rs, f)) /\ \A row \in Listed(rs, f) : row.kind = f /\ row.conn \in Live(rs)
  <2>1. Listed(rs, f) \subseteq Rank(rs, f)
    BY DEF Listed, Cap
  <2>2. QED
    BY <2>1, RankOrders, FewerRanked
<1>2. Ranked(Top(rs)) /\ \A row \in Top(rs) : row.kind = "top" /\ row.conn \in Live(rs)
  <2> DEFINE S == Cap(Rank(rs, "alerts"))
             top == [row \in S |-> [row EXCEPT !.kind = "top"]]
  <2>1. "alerts" \in ToSet(Families)
    <3>1. 7 \in DOMAIN Families /\ Families[7] = "alerts"
      BY DEF Families
    <3>2. QED
      BY <3>1 DEF ToSet
  <2>2. S \subseteq Rank(rs, "alerts")
    BY DEF Cap
  <2>3. Ranked(S) /\ \A row \in S : DOMAIN row = {"kind", "key", "conn", "rank", "forgeRank"}
    BY <2>1, <2>2, RankOrders, FewerRanked
  <2>4. Top(rs) = {top[row] : row \in S} /\ DOMAIN top = S
    BY DEF Top
  <2> HIDE DEF S
  <2>5. \A row \in S : top[row].rank = row.rank /\ top[row].kind = "top" /\ top[row].conn = row.conn
    BY <2>3
  <2> HIDE DEF top
  <2>6. IsFiniteSet({top[row] : row \in S})
    BY <2>3, <2>4, ImageFinite DEF Ranked
  <2>7. Ranked({top[row] : row \in S})
    BY <2>3, <2>5, <2>6 DEF Ranked
  <2>8. \A row \in S : row.conn \in Live(rs)
    BY <2>1, <2>2, RankOrders
  <2>9. QED
    BY <2>4, <2>5, <2>7, <2>8
<1>3. QED
  BY <1>1, <1>2

LEMMA LeastIsOne ==
  ASSUME NEW a \in Nat, NEW b \in Nat
  PROVE  Min({a, b}) \in {a, b} /\ Min({a, b}) <= a /\ Min({a, b}) <= b
<1>1. \E x \in {a, b} : \A y \in {a, b} : x <= y
  OBVIOUS
<1>2. QED
  BY <1>1 DEF Min

LEMMA KindsAre ==
  /\ ToSet(Families) = {"prs", "issues", "failing", "slow", "disabled", "days", "alerts"}
  /\ DOMAIN Families = 1..7
  /\ \A i \in 1..7 : Families[i] \in ToSet(Families)
  /\ \A f \in ToSet(Families) : \E i \in 1..7 : Families[i] = f
  /\ \A i, j \in 1..7 : Families[i] = Families[j] => i = j
<1>1. DOMAIN Families = 1..7 /\ \A i, j \in 1..7 : Families[i] = Families[j] => i = j
  BY DEF Families
<1>2. 1..7 = {1, 2, 3, 4, 5, 6, 7}
  OBVIOUS
<1>3. ToSet(Families) = {Families[i] : i \in {1, 2, 3, 4, 5, 6, 7}}
  BY <1>1, <1>2 DEF ToSet
<1>4. /\ Families[1] = "prs" /\ Families[2] = "issues" /\ Families[3] = "failing" /\ Families[4] = "slow"
      /\ Families[5] = "disabled" /\ Families[6] = "days" /\ Families[7] = "alerts"
  BY DEF Families
<1>5. ToSet(Families) = {"prs", "issues", "failing", "slow", "disabled", "days", "alerts"}
  BY <1>3, <1>4
<1>6. \A f \in ToSet(Families) : \E i \in 1..7 : Families[i] = f
  BY <1>2, <1>3
<1>7. \A i \in 1..7 : Families[i] \in ToSet(Families)
  BY <1>2, <1>3
<1>8. QED
  BY <1>1, <1>5, <1>6, <1>7

(* The tools of a connection have places among them. *)
LEMMA ToolsPlaced ==
  ASSUME NEW r, Result(r)
  PROVE  /\ IsFiniteSet(r.rows["alerts"]) /\ r.rows["alerts"] \subseteq Nat
         /\ Cardinality(ToolsOf(r)) \in Nat
         /\ \A a \in r.rows["alerts"] : ToolPlace(r, r.tool[a]) \in 1..Cardinality(ToolsOf(r))
<1> DEFINE A == r.rows["alerts"]
           tool == [a \in A |-> r.tool[a]]
           T == ToolsOf(r)
           count(u) == Cardinality({a \in r.rows["alerts"] : r.tool[a] = u})
           Upto(t) == {u \in T : count(u) > count(t) \/ (count(u) = count(t) /\ u <= t)}
<1>1. IsFiniteSet(A) /\ A \subseteq Nat /\ \A a \in A : r.tool[a] \in Nat
  BY KindsAre DEF Result
<1>2. T = {tool[a] : a \in A} /\ DOMAIN tool = A
  BY DEF ToolsOf
<1>3. \A a \in A : r.tool[a] \in T
  BY DEF ToolsOf
<1>4. \A t : ToolPlace(r, t) = Cardinality(Upto(t))
  BY DEF ToolPlace
<1> HIDE DEF tool, T, A
<1>5. IsFiniteSet(T) /\ Cardinality(T) \in Nat
  BY <1>1, <1>2, ImageFinite, FS_CardinalityType
<1>6. ASSUME NEW a \in A
      PROVE  Cardinality(Upto(r.tool[a])) \in 1..Cardinality(T)
  <2>1. r.tool[a] \in Upto(r.tool[a]) /\ \A t : Upto(t) \subseteq T
    BY <1>1, <1>3
  <2> HIDE DEF Upto
  <2>2. IsFiniteSet(Upto(r.tool[a])) /\ Cardinality(Upto(r.tool[a])) <= Cardinality(T)
    BY <1>5, <2>1, FS_Subset
  <2>3. Cardinality(Upto(r.tool[a])) \in Nat /\ Cardinality(Upto(r.tool[a])) # 0
    BY <2>1, <2>2, FS_CardinalityType, FS_EmptySet
  <2>4. QED
    BY <1>5, <2>2, <2>3
<1>7. QED
  BY <1>1, <1>4, <1>5, <1>6 DEF A, T

(* The line of a tool's place, and the alerts of each line. *)
LineAt(n) == IF n <= MaxTools THEN n ELSE MaxTools + 1
AlertLine(r) == [a \in r.rows["alerts"] |-> LineAt(ToolPlace(r, r.tool[a]))]

(* Each alert has one line of those of its connection's tools, which counts it. *)
LEMMA ToolsCount ==
  ASSUME NEW r, Result(r)
  PROVE  /\ IsSeq(Tools(r))
         /\ \A a \in r.rows["alerts"] : AlertLine(r)[a] \in DOMAIN Tools(r)
         /\ \A i \in DOMAIN Tools(r) : Tools(r)[i] = Cardinality(Share(r.rows["alerts"], AlertLine(r), i))
<1> DEFINE A == r.rows["alerts"]
           N == Cardinality(ToolsOf(r))
           M == Min({N, MaxTools + 1})
           place(a) == ToolPlace(r, r.tool[a])
           alerts(ns) == Cardinality({a \in A : place(a) \in ns})
<1>1. N \in Nat /\ MaxTools + 1 \in Nat /\ MaxTools \in Nat
  BY ToolsPlaced, CapsAssumption
<1>2. \A a \in A : place(a) \in 1..N
  BY ToolsPlaced
<1>3. Tools(r) = [i \in 1..M |-> alerts(IF i <= MaxTools THEN {i} ELSE i..N)]
  BY DEF Tools
<1>4. \A a \in A : AlertLine(r)[a] = LineAt(place(a))
  BY DEF AlertLine
<1> HIDE DEF N, A
<1>5. M \in Nat /\ M <= N /\ M <= MaxTools + 1 /\ (M = N \/ M = MaxTools + 1)
  BY <1>1, LeastIsOne
<1> HIDE DEF M, place
<1>6. \A a \in A : LineAt(place(a)) \in 1..M
  BY <1>1, <1>2, <1>5 DEF LineAt
<1>7. ASSUME NEW i \in 1..M
      PROVE  Share(A, AlertLine(r), i) = {a \in A : place(a) \in (IF i <= MaxTools THEN {i} ELSE i..N)}
  <2>1. \A a \in A : LineAt(place(a)) = i <=> place(a) \in (IF i <= MaxTools THEN {i} ELSE i..N)
    BY <1>1, <1>2, <1>5 DEF LineAt
  <2>2. QED
    BY <1>4, <2>1 DEF Share
<1>8. IsSeq(Tools(r)) /\ DOMAIN Tools(r) = 1..M
  <2> DEFINE s == Tools(r)
  <2>1. DOMAIN s = 1..M /\ s = [i \in 1..M |-> s[i]]
    BY <1>3
  <2> HIDE DEF s
  <2>2. IsSeq(s)
    BY <1>5, <2>1, Tabulated
  <2>3. QED
    BY <2>1, <2>2 DEF s
<1>9. \A i \in 1..M : Tools(r)[i] = Cardinality(Share(A, AlertLine(r), i))
  BY <1>3, <1>7
<1>10. QED
  BY <1>4, <1>6, <1>8, <1>9 DEF A

(* A connection's tool lines, each once; a stopped one has none. *)
LEMMA ToolsList ==
  ASSUME NEW rs \in Scans, NEW c \in conns
  PROVE  /\ IsSeq(ToolLines(rs, c)) /\ Once(ToolLines(rs, c))
         /\ \A x : Has(ToolLines(rs, c), x) => x.kind = "tool" /\ x.conn = c /\ c \in Live(rs)
         /\ c \in Live(rs) => ToolLines(rs, c) =
               [i \in DOMAIN Tools(rs[c]) |->
                   [kind |-> "tool", conn |-> c, rank |-> i, alerts |-> Tools(rs[c])[i]]]
<1>1. CASE rs[c].stop # "none"
  <2>1. ToolLines(rs, c) = <<>> /\ DOMAIN <<>> = {} /\ c \notin Live(rs)
    BY <1>1 DEF ToolLines, Live
  <2>2. <<>> \in Seq({})
    OBVIOUS
  <2>3. IsSeq(<<>>)
    BY <2>2, SequenceBasics
  <2>4. (\A x : ~Has(<<>>, x)) /\ Once(<<>>)
    BY <2>1 DEF Has, Once
  <2>5. QED
    BY <2>1, <2>3, <2>4
<1>2. CASE rs[c].stop = "none"
  <2> DEFINE ts == Tools(rs[c])
             s == ToolLines(rs, c)
  <2>1. IsSeq(ts)
    BY ToolsCount, ScansAssumption DEF conns
  <2>2. s = [i \in DOMAIN ts |-> [kind |-> "tool", conn |-> c, rank |-> i, alerts |-> ts[i]]] /\ c \in Live(rs)
    BY <1>2 DEF ToolLines, Live
  <2> HIDE DEF ts
  <2>3. Len(ts) \in Nat /\ DOMAIN ts = 1..Len(ts)
    BY <2>1 DEF IsSeq
  <2>4. \A i \in DOMAIN s : s[i].kind = "tool" /\ s[i].conn = c /\ s[i].rank = i
    BY <2>2
  <2> HIDE DEF s
  <2>5. s = [i \in 1..Len(ts) |-> s[i]]
    BY <2>2, <2>3
  <2>6. IsSeq(s) /\ Once(s)
    BY <2>3, <2>4, <2>5, Tabulated DEF Once
  <2>7. \A x : Has(s, x) => x.kind = "tool" /\ x.conn = c
    BY <2>4 DEF Has
  <2>8. QED
    BY <2>2, <2>6, <2>7 DEF s, ts
<1>3. QED
  BY <1>1, <1>2

(* The verdicts of a connection: what emitVerdict logs of it. *)
VerdictOf(rs, c, x) ==
    /\ x.conn = c
    /\ \/ x.kind \in {"degraded", "stopped"}
       \/ x.kind = "complete" /\ rs[c].stop = "none" /\ x = CompleteLine(rs, c)

LEMMA VerdictsList ==
  ASSUME NEW rs \in Scans, NEW c \in conns
  PROVE  /\ IsSeq(Verdict(rs, c))
         /\ \A x : Has(Verdict(rs, c), x) => VerdictOf(rs, c, x)
         /\ rs[c].stop = "none" => Has(Verdict(rs, c), CompleteLine(rs, c))
<1> DEFINE degraded == [kind |-> "degraded", conn |-> c]
           stopped == [kind |-> "stopped", conn |-> c]
           complete == CompleteLine(rs, c)
<1>1. \A e : IsSeq(<<e>>) /\ \A x : Has(<<e>>, x) <=> x = e
  <2> SUFFICES ASSUME NEW e
               PROVE  IsSeq(<<e>>) /\ \A x : Has(<<e>>, x) <=> x = e
    OBVIOUS
  <2>1. <<e>> \in Seq({e})
    OBVIOUS
  <2>2. IsSeq(<<e>>)
    BY <2>1, SequenceBasics
  <2>3. DOMAIN <<e>> = {1} /\ <<e>>[1] = e
    OBVIOUS
  <2>4. QED
    BY <2>2, <2>3 DEF Has
<1>2. IsSeq(<<>>) /\ \A x : ~Has(<<>>, x)
  <2>1. <<>> \in Seq({}) /\ DOMAIN <<>> = {}
    OBVIOUS
  <2>2. QED
    BY <2>1, SequenceBasics DEF Has
<1>3. /\ VerdictOf(rs, c, degraded) /\ VerdictOf(rs, c, stopped)
      /\ rs[c].stop = "none" => VerdictOf(rs, c, complete)
  <2>1. complete.kind = "complete" /\ complete.conn = c
    BY DEF CompleteLine
  <2> HIDE DEF complete
  <2>2. QED
    BY <2>1 DEF VerdictOf, complete
<1> HIDE DEF complete, degraded, stopped
<1>4. CASE rs[c].stop = "none"
  <2> DEFINE s == IF rs[c].escalates THEN <<degraded>> ELSE <<>>
  <2>1. Verdict(rs, c) = s \o <<complete>>
    BY <1>4 DEF Verdict, complete, degraded
  <2>2. IsSeq(s) /\ \A x : Has(s, x) => x = degraded
    BY <1>1, <1>2
  <2> HIDE DEF s
  <2>3. IsSeq(s \o <<complete>>) /\ \A x : Has(s \o <<complete>>, x) <=> Has(s, x) \/ x = complete
    BY <1>1, <2>2, Joining
  <2>4. QED
    BY <1>3, <1>4, <2>1, <2>2, <2>3 DEF complete
<1>5. CASE rs[c].stop # "none"
  <2> DEFINE s == IF rs[c].stop # "read_reserve" \/ rs[c].escalates THEN <<degraded>> ELSE <<>>
  <2>1. Verdict(rs, c) = <<stopped>> \o s
    BY <1>5 DEF Verdict, stopped, degraded
  <2>2. IsSeq(s) /\ \A x : Has(s, x) => x = degraded
    BY <1>1, <1>2
  <2> HIDE DEF s
  <2>3. IsSeq(<<stopped>> \o s) /\ \A x : Has(<<stopped>> \o s, x) <=> x = stopped \/ Has(s, x)
    BY <1>1, <2>2, Joining
  <2>4. QED
    BY <1>3, <1>5, <2>1, <2>2, <2>3
<1>6. QED
  BY <1>4, <1>5

-----------------------------------------------------------------------------
(* The lines of a burst. *)

(* The kinds of the rows, a tool's line among them, and the rows of each. *)
Kinds == ToSet(Families) \cup {"top", "tool"}
ToolRows(rs) == UNION {ToSet(ToolLines(rs, c)) : c \in conns}
RowsIn(rs, f) == CASE f = "top" -> Top(rs) [] f = "tool" -> ToolRows(rs) [] OTHER -> Listed(rs, f)

(* A line is a row of its kind or a connection's verdict. *)
LineOf(rs, x) ==
    \/ x.kind \in Kinds /\ x \in RowsIn(rs, x.kind)
    \/ x.conn \in conns /\ VerdictOf(rs, x.conn, x)

(* No row is there twice, and none after a scan complete. *)
RowsOnce(s) == \A i, j \in DOMAIN s : s[i] = s[j] /\ s[i].kind \in Kinds => i = j
RowsFirst(s) == \A i, j \in DOMAIN s : i < j /\ s[i].kind = "complete" => s[j].kind \notin Kinds

LEMMA JoiningRows ==
  ASSUME NEW s, IsSeq(s), RowsOnce(s), RowsFirst(s),
         NEW t, IsSeq(t), \A x : Has(t, x) => x.kind \notin Kinds
  PROVE  RowsOnce(s \o t) /\ RowsFirst(s \o t)
<1> DEFINE U == ToSet(s) \cup ToSet(t)
           r == s \o t
<1>1. s \in Seq(U) /\ t \in Seq(U)
  BY DEF IsSeq
<1>2. Len(s) \in Nat /\ Len(t) \in Nat
      /\ DOMAIN s = 1..Len(s) /\ DOMAIN t = 1..Len(t) /\ DOMAIN r = 1..Len(s) + Len(t)
  BY <1>1
<1>3. \A i \in DOMAIN r : i <= Len(s) => i \in DOMAIN s /\ r[i] = s[i]
  BY <1>1, <1>2
<1>4. ASSUME NEW i \in DOMAIN r, ~(i <= Len(s))
      PROVE  r[i].kind \notin Kinds
  <2>1. i - Len(s) \in 1..Len(t)
    BY <1>2, <1>4
  <2>2. r[i] = t[i - Len(s)]
    BY <1>1, <1>2, <1>4
  <2>3. Has(t, r[i])
    BY <1>2, <2>1, <2>2 DEF Has
  <2>4. QED
    BY <2>3
<1> HIDE DEF r, U
<1>5. RowsOnce(r)
  <2> SUFFICES ASSUME NEW i \in DOMAIN r, NEW j \in DOMAIN r, r[i] = r[j], r[i].kind \in Kinds
               PROVE  i = j
    BY DEF RowsOnce
  <2>1. i <= Len(s) /\ j <= Len(s)
    BY <1>4
  <2>2. QED
    BY <1>3, <2>1 DEF RowsOnce
<1>6. RowsFirst(r)
  <2> SUFFICES ASSUME NEW i \in DOMAIN r, NEW j \in DOMAIN r, i < j, r[i].kind = "complete", r[j].kind \in Kinds
               PROVE  FALSE
    BY DEF RowsFirst
  <2>1. j <= Len(s)
    BY <1>4
  <2>2. i <= Len(s)
    BY <1>2, <2>1
  <2>3. QED
    BY <1>3, <2>1, <2>2 DEF RowsFirst
<1>7. QED
  BY <1>5, <1>6 DEF r

(* A burst is the rows, each once, and after them what is said of each
   connection, the scan complete line of every connection not stopped among it. *)
LEMMA LinesHold ==
  ASSUME NEW rs \in Scans
  PROVE  /\ IsSeq(Lines(rs)) /\ RowsOnce(Lines(rs)) /\ RowsFirst(Lines(rs))
         /\ \A x : Has(Lines(rs), x) => LineOf(rs, x)
         /\ \A f \in Kinds : \A x \in RowsIn(rs, f) : Has(Lines(rs), x)
         /\ \A c \in conns : rs[c].stop = "none" => Has(Lines(rs), CompleteLine(rs, c))
<1> DEFINE A == [i \in DOMAIN Families |-> InOrder(Listed(rs, Families[i]))]
           B == InOrder(Top(rs))
           C == [i \in DOMAIN Conns |-> ToolLines(rs, Conns[i])]
           D == [i \in DOMAIN Conns |-> Verdict(rs, Conns[i])]
           T == FlattenSeq(C)
           F == FlattenSeq(A) \o B
           R == F \o T
           V == FlattenSeq(D)
<1>1. Lines(rs) = R \o V
  BY DEF Lines
<1>2. /\ IsSeq(FlattenSeq(A)) /\ Once(FlattenSeq(A))
      /\ \A x : Has(FlattenSeq(A), x) <=> \E f \in ToSet(Families) : x \in Listed(rs, f)
  <2>1. A = [i \in 1..7 |-> A[i]] /\ DOMAIN A = 1..7
    BY KindsAre
  <2>2. ASSUME NEW i \in 1..7
        PROVE  /\ IsSeq(A[i]) /\ Once(A[i])
               /\ \A x : Has(A[i], x) <=> x \in Listed(rs, Families[i])
               /\ \A x : Has(A[i], x) => x.kind = Families[i]
    <3>1. A[i] = InOrder(Listed(rs, Families[i])) /\ Families[i] \in ToSet(Families)
      BY KindsAre
    <3> HIDE DEF A
    <3>2. QED
      BY <3>1, ListedRanked, OrderIsWhole
  <2> HIDE DEF A
  <2>3. IsSeq(A)
    BY <2>1, Tabulated
  <2>4. \A i, j \in DOMAIN A : i # j => \A x : ~(Has(A[i], x) /\ Has(A[j], x))
    BY <2>1, <2>2, KindsAre
  <2>5. IsSeq(FlattenSeq(A)) /\ \A x : Has(FlattenSeq(A), x) <=> \E i \in DOMAIN A : Has(A[i], x)
    BY <2>1, <2>2, <2>3, FlatteningAny
  <2>6. Once(FlattenSeq(A))
    BY <2>1, <2>2, <2>3, <2>4, FlatteningOnce
  <2>7. \A x : Has(FlattenSeq(A), x) <=> \E f \in ToSet(Families) : x \in Listed(rs, f)
    BY <2>1, <2>2, <2>5, KindsAre
  <2>8. QED
    BY <2>5, <2>6, <2>7
<1>3. IsSeq(B) /\ Once(B) /\ \A x : Has(B, x) <=> x \in Top(rs)
  BY ListedRanked, OrderIsWhole
<1> HIDE DEF A, B
<1>4. IsSeq(T) /\ Once(T) /\ \A x : Has(T, x) <=> x \in ToolRows(rs)
  <2>1. C = [i \in 1..Len(Conns) |-> C[i]] /\ DOMAIN C = 1..Len(Conns)
    BY ConnsFinite
  <2>2. ASSUME NEW i \in DOMAIN C
        PROVE  /\ IsSeq(C[i]) /\ Once(C[i]) /\ C[i] = ToolLines(rs, Conns[i])
               /\ \A x : Has(C[i], x) => x.conn = Conns[i]
    BY ConnsFinite, ToolsList
  <2> HIDE DEF C
  <2>3. IsSeq(C)
    BY <2>1, ConnsFinite, Tabulated
  <2>4. \A i, j \in DOMAIN C : i # j => \A x : ~(Has(C[i], x) /\ Has(C[j], x))
    BY <2>1, <2>2, ConnsFinite
  <2>5. IsSeq(T) /\ Once(T) /\ \A x : Has(T, x) <=> \E i \in DOMAIN C : Has(C[i], x)
    BY <2>2, <2>3, <2>4, FlatteningAny, FlatteningOnce
  <2> HIDE DEF T
  <2>6. \A x : x \in ToolRows(rs) <=> \E i \in DOMAIN C : Has(C[i], x)
    <3>1. \A x : x \in ToolRows(rs) <=> \E c \in conns : Has(ToolLines(rs, c), x)
      BY SequenceBasics DEF ToolRows
    <3>2. QED
      BY <2>1, <2>2, <3>1, ConnsFinite
  <2>7. QED
    BY <2>5, <2>6
<1> HIDE DEF T
<1>5. /\ IsSeq(R) /\ Once(R)
      /\ \A x : Has(R, x) => x.kind \in Kinds /\ x \in RowsIn(rs, x.kind)
      /\ \A f \in Kinds : \A x \in RowsIn(rs, f) : Has(R, x)
  <2>1. "top" \notin ToSet(Families) /\ "tool" \notin ToSet(Families) \cup {"top"}
    BY KindsAre
  <2>2. /\ \A f \in ToSet(Families) : \A x \in Listed(rs, f) : x.kind = f
        /\ \A x \in Top(rs) : x.kind = "top"
        /\ \A x \in ToolRows(rs) : x.kind = "tool"
    <3>1. \A x : x \in ToolRows(rs) <=> \E c \in conns : Has(ToolLines(rs, c), x)
      BY SequenceBasics DEF ToolRows
    <3>2. QED
      BY <3>1, ListedRanked, ToolsList
  <2>3. \A x : ~(Has(FlattenSeq(A), x) /\ Has(B, x))
    BY <1>2, <1>3, <2>1, <2>2
  <2>4. IsSeq(F) /\ Once(F) /\ \A x : Has(F, x) <=> Has(FlattenSeq(A), x) \/ Has(B, x)
    BY <1>2, <1>3, <2>3, Joining, JoiningOnce
  <2> HIDE DEF F
  <2>5. \A x : ~(Has(F, x) /\ Has(T, x))
    BY <1>2, <1>3, <1>4, <2>1, <2>2, <2>4
  <2>6. IsSeq(R) /\ Once(R) /\ \A x : Has(R, x) <=> Has(F, x) \/ Has(T, x)
    BY <1>4, <2>4, <2>5, Joining, JoiningOnce
  <2> HIDE DEF R
  <2>7. \A x : Has(R, x) => x.kind \in Kinds /\ x \in RowsIn(rs, x.kind)
    BY <1>2, <1>3, <1>4, <2>1, <2>2, <2>4, <2>6 DEF Kinds, RowsIn
  <2>8. \A f \in Kinds : \A x \in RowsIn(rs, f) : Has(R, x)
    BY <1>2, <1>3, <1>4, <2>1, <2>4, <2>6 DEF Kinds, RowsIn
  <2>9. QED
    BY <2>6, <2>7, <2>8
<1> HIDE DEF F
<1>6. /\ IsSeq(V) /\ \A x : Has(V, x) => x.conn \in conns /\ VerdictOf(rs, x.conn, x)
      /\ \A c \in conns : rs[c].stop = "none" => Has(V, CompleteLine(rs, c))
  <2>1. D = [i \in 1..Len(Conns) |-> D[i]] /\ DOMAIN D = 1..Len(Conns)
    BY ConnsFinite
  <2>2. \A i \in DOMAIN D : D[i] = Verdict(rs, Conns[i])
    OBVIOUS
  <2> HIDE DEF D
  <2>3. \A i \in DOMAIN D : IsSeq(D[i]) /\ \A x : Has(D[i], x) => x.conn \in conns /\ VerdictOf(rs, x.conn, x)
    <3> SUFFICES ASSUME NEW i \in DOMAIN D
                 PROVE  IsSeq(D[i]) /\ \A x : Has(D[i], x) => x.conn \in conns /\ VerdictOf(rs, x.conn, x)
      OBVIOUS
    <3>1. Conns[i] \in conns /\ D[i] = Verdict(rs, Conns[i])
      BY <2>1, <2>2, ConnsFinite
    <3>2. \A x : VerdictOf(rs, Conns[i], x) => x.conn = Conns[i]
      BY DEF VerdictOf
    <3>3. QED
      BY <3>1, <3>2, VerdictsList
  <2>4. IsSeq(D)
    BY <2>1, ConnsFinite, Tabulated
  <2>5. IsSeq(V) /\ \A x : Has(V, x) <=> \E i \in DOMAIN D : Has(D[i], x)
    BY <2>3, <2>4, FlatteningAny
  <2>6. ASSUME NEW c \in conns, rs[c].stop = "none"
        PROVE  Has(V, CompleteLine(rs, c))
    <3>1. PICK i \in DOMAIN D : D[i] = Verdict(rs, c)
      BY <2>1, <2>2, <2>6, ConnsFinite
    <3>2. Has(Verdict(rs, c), CompleteLine(rs, c))
      BY <2>6, VerdictsList
    <3>3. QED
      BY <2>5, <3>1, <3>2
  <2>7. QED
    BY <2>3, <2>5, <2>6
<1> HIDE DEF R, V
<1>7. Kinds \cap {"degraded", "stopped", "complete"} = {}
  BY KindsAre DEF Kinds
<1>8. RowsOnce(R) /\ RowsFirst(R)
  <2>1. \A i \in DOMAIN R : Has(R, R[i])
    BY DEF Has
  <2>2. \A i \in DOMAIN R : R[i].kind # "complete"
    BY <1>5, <1>7, <2>1
  <2>3. QED
    BY <1>5, <2>2 DEF Once, RowsOnce, RowsFirst
<1>9. /\ IsSeq(R \o V) /\ RowsOnce(R \o V) /\ RowsFirst(R \o V)
      /\ \A x : Has(R \o V, x) <=> Has(R, x) \/ Has(V, x)
  <2>1. \A x : Has(V, x) => x.kind \notin Kinds
    BY <1>6, <1>7 DEF VerdictOf
  <2>2. QED
    BY <1>5, <1>6, <1>8, <2>1, Joining, JoiningRows
<1>10. QED
  BY <1>1, <1>5, <1>6, <1>9 DEF LineOf

-----------------------------------------------------------------------------
(* The shape of the burst under way. *)
BurstShape ==
    /\ results = <<>> \/ results \in Scans
    /\ results = <<>> => log = <<>>
    /\ results = <<>> \/ outcome # "none" => todo = <<>>
    /\ outcome # "none" => results \in Scans
    /\ IsSeq(todo) /\ RowsOnce(todo) /\ RowsFirst(todo)
    /\ \A x : Has(todo, x) => LineOf(results, x)
    /\ IsSeq(log)

(* Inductive strengthening of InfoHasWarn: a connection's last budget stop
   was logged WARN, whichever scan logged it. *)
LastHasWarn ==
    /\ DOMAIN lastStops = conns
    /\ \A c \in conns : lastStops[c] # Never => <<c, lastStops[c]>> \in warned

(* Inductive strengthening of ExitZeroIsWhole: until the process is told to
   stop, each connection that read has its scan complete in the log or still
   in the burst. *)
VerdictsComing ==
    results \in Scans /\ ~cut =>
        \A c \in conns : results[c].stop = "none" =>
            Has(log, CompleteLine(results, c)) \/ Has(todo, CompleteLine(results, c))

(* Inductive strengthening of CompleteCommitsBurst: a row is in the log or
   still in the burst, never in both and never twice, until the process is told
   to stop; and with a scan complete in the log, or the scan returned
   uninterrupted, every row is in the log. *)
RowsLogged == \A f \in Kinds : \A x \in RowsIn(results, f) : Has(log, x)
RowsComing == results \in Scans =>
    /\ RowsOnce(log)
    /\ \A x : Has(log, x) /\ x.kind # "stopped" => LineOf(results, x)
    /\ \A x : x.kind \in Kinds => ~(Has(log, x) /\ Has(todo, x))
    /\ ~cut => \A f \in Kinds : \A x \in RowsIn(results, f) : Has(log, x) \/ Has(todo, x)
    /\ outcome \in {"complete", "incomplete"} \/ (\E x : Has(log, x) /\ x.kind = "complete") => RowsLogged

BurstInv ==
    BurstShape /\ LastHasWarn /\ InfoHasWarn /\ VerdictsComing /\ ExitZeroIsWhole /\ RowsComing

(* Taking the first line of a burst, and logging one. *)
LEMMA TakingRows ==
  ASSUME NEW s, IsSeq(s), s # <<>>, RowsOnce(s), RowsFirst(s)
  PROVE  /\ RowsOnce(Tail(s)) /\ RowsFirst(Tail(s))
         /\ Head(s).kind \in Kinds => ~Has(Tail(s), Head(s))
         /\ Head(s).kind = "complete" => \A x : Has(Tail(s), x) => x.kind \notin Kinds
<1> DEFINE t == Tail(s)
<1>1. Len(s) \in Nat /\ Len(s) # 0 /\ DOMAIN s = 1..Len(s) /\ Head(s) = s[1]
      /\ DOMAIN t = 1..Len(s) - 1 /\ \A i \in DOMAIN t : t[i] = s[i + 1]
  BY DEF IsSeq
<1> HIDE DEF t
<1>2. \A i \in DOMAIN t : i \in Int /\ i + 1 \in DOMAIN s /\ 1 < i + 1 /\ t[i] = s[i + 1]
  BY <1>1
<1>3. RowsOnce(t)
  <2> SUFFICES ASSUME NEW i \in DOMAIN t, NEW j \in DOMAIN t, t[i] = t[j], t[i].kind \in Kinds
               PROVE  i = j
    BY DEF RowsOnce
  <2>1. i + 1 = j + 1
    BY <1>2 DEF RowsOnce
  <2>2. QED
    BY <1>2, <2>1
<1>4. RowsFirst(t)
  <2> SUFFICES ASSUME NEW i \in DOMAIN t, NEW j \in DOMAIN t, i < j, t[i].kind = "complete"
               PROVE  t[j].kind \notin Kinds
    BY DEF RowsFirst
  <2>1. i + 1 < j + 1
    BY <1>2
  <2>2. QED
    BY <1>2, <2>1 DEF RowsFirst
<1>5. 1 \in DOMAIN s
  BY <1>1
<1>6. ASSUME s[1].kind \in Kinds, Has(t, s[1])
      PROVE  FALSE
  <2>1. PICK i \in DOMAIN t : t[i] = s[1]
    BY <1>6 DEF Has
  <2>2. i + 1 = 1
    BY <1>2, <1>5, <1>6, <2>1 DEF RowsOnce
  <2>3. QED
    BY <1>2, <2>2
<1>7. ASSUME s[1].kind = "complete", NEW x, Has(t, x)
      PROVE  x.kind \notin Kinds
  <2>1. PICK i \in DOMAIN t : t[i] = x
    BY <1>7 DEF Has
  <2>2. QED
    BY <1>2, <1>5, <1>7, <2>1 DEF RowsFirst
<1>8. QED
  BY <1>1, <1>3, <1>4, <1>6, <1>7 DEF t

LEMMA LoggingRows ==
  ASSUME NEW s, IsSeq(s), RowsOnce(s), NEW e, e.kind \in Kinds => ~Has(s, e)
  PROVE  RowsOnce(Append(s, e))
<1> DEFINE t == Append(s, e)
<1>1. \A i \in DOMAIN t : (i \in DOMAIN s /\ t[i] = s[i]) \/ (i = Len(s) + 1 /\ t[i] = e)
  BY Appending
<1> HIDE DEF t
<1> SUFFICES ASSUME NEW i \in DOMAIN t, NEW j \in DOMAIN t, t[i] = t[j], t[i].kind \in Kinds
             PROVE  i = j
  BY DEF RowsOnce, t
<1>2. CASE i \in DOMAIN s /\ t[i] = s[i] /\ j \in DOMAIN s /\ t[j] = s[j]
  BY <1>2 DEF RowsOnce
<1>3. CASE i = Len(s) + 1 /\ j = Len(s) + 1
  BY <1>3
<1>4. CASE (i \in DOMAIN s /\ t[i] = s[i] /\ t[j] = e) \/ (j \in DOMAIN s /\ t[j] = s[j] /\ t[i] = e)
  BY <1>4 DEF Has
<1>5. QED
  BY <1>1, <1>2, <1>3, <1>4

(* A line is of its kind. *)
LEMMA LineKinds ==
  ASSUME NEW rs \in Scans
  PROVE  /\ Kinds \cap {"degraded", "stopped", "complete"} = {}
         /\ \A f \in Kinds : \A x \in RowsIn(rs, f) : x.kind = f /\ x.conn \in Live(rs)
         /\ \A x : LineOf(rs, x) /\ x.kind \in {"degraded", "stopped", "complete"} =>
               x.conn \in conns /\ VerdictOf(rs, x.conn, x)
<1>1. /\ Kinds \cap {"degraded", "stopped", "complete"} = {}
      /\ "top" \notin ToSet(Families) /\ "tool" \notin ToSet(Families)
  BY KindsAre DEF Kinds
<1>2. \A x \in ToolRows(rs) : x.kind = "tool" /\ x.conn \in Live(rs)
  <2>1. \A x : x \in ToolRows(rs) <=> \E c \in conns : Has(ToolLines(rs, c), x)
    BY SequenceBasics DEF ToolRows
  <2>2. QED
    BY <2>1, ToolsList
<1>3. \A f \in Kinds : \A x \in RowsIn(rs, f) : x.kind = f /\ x.conn \in Live(rs)
  BY <1>1, <1>2, ListedRanked DEF Kinds, RowsIn
<1>4. QED
  BY <1>1, <1>3 DEF LineOf

LEMMA NotEmpty ==
  ASSUME NEW rs \in Scans
  PROVE  rs # <<>>
<1>1. DOMAIN rs = conns
  BY ScansAssumption DEF conns
<1>2. DOMAIN <<>> = {}
  OBVIOUS
<1>3. QED
  BY <1>1, <1>2, ConnsFinite

LEMMA EmptyBasics == IsSeq(<<>>) /\ \A x : ~Has(<<>>, x)
<1>1. <<>> \in Seq({}) /\ DOMAIN <<>> = {}
  OBVIOUS
<1>2. QED
  BY <1>1, SequenceBasics DEF Has

LEMMA BurstsHold == Spec => []BurstInv
<1>1. Init => BurstInv
  <2> SUFFICES ASSUME Init
               PROVE  BurstInv
    OBVIOUS
  <2>1. BurstShape
    BY EmptyBasics DEF BurstShape, Init, RowsOnce, RowsFirst
  <2>2. LastHasWarn
    BY DEF LastHasWarn, Init
  <2>3. InfoHasWarn
    <3>1. log = <<>> /\ DOMAIN <<>> = {}
      BY DEF Init
    <3>2. QED
      BY <3>1 DEF InfoHasWarn
  <2>4. VerdictsComing
    <3>1. results \notin Scans
      BY NotEmpty DEF Init
    <3>2. QED
      BY <3>1 DEF VerdictsComing
  <2>5. ExitZeroIsWhole
    BY DEF ExitZeroIsWhole, Init
  <2>6. RowsComing
    <3>1. results \notin Scans
      BY NotEmpty DEF Init
    <3>2. QED
      BY <3>1 DEF RowsComing
  <2>7. QED
    BY <2>1, <2>2, <2>3, <2>4, <2>5, <2>6 DEF BurstInv
<1>2. BurstInv /\ [Next]_vars => BurstInv'
  <2> SUFFICES ASSUME BurstInv, [Next]_vars
               PROVE  BurstInv'
    OBVIOUS
  <2> USE DEF BurstInv
  <2>1. ASSUME NEW rs \in Scans, Scan(rs)
        PROVE  BurstInv'
    <3>1. results = <<>> /\ ~cut /\ results' = rs /\ todo' = Lines(rs) /\ log' = <<>>
          /\ cut' = cut /\ lastStops' = lastStops /\ outcome' = outcome /\ warned' = warned
      BY <2>1 DEF Scan
    <3>2. outcome = "none"
      BY <3>1, NotEmpty DEF BurstShape
    <3>3. BurstShape'
      BY <3>1, <3>2, LinesHold, EmptyBasics, NotEmpty DEF BurstShape
    <3>4. LastHasWarn'
      BY <3>1 DEF LastHasWarn
    <3>5. InfoHasWarn'
      <4>1. DOMAIN <<>> = {}
        OBVIOUS
      <4>2. QED
        BY <3>1, <4>1 DEF InfoHasWarn
    <3>6. VerdictsComing'
      <4>1. \A c \in conns : rs[c].stop = "none" => Has(todo', CompleteLine(rs, c))
        BY <3>1, LinesHold
      <4>2. QED
        BY <3>1, <4>1 DEF VerdictsComing
    <3>7. ExitZeroIsWhole'
      BY <3>1, <3>2 DEF ExitZeroIsWhole
    <3>8. RowsComing'
      <4>1. /\ IsSeq(log') /\ \A x : ~Has(log', x)
            /\ outcome' \notin {"complete", "incomplete"}
        BY <3>1, <3>2, EmptyBasics
      <4>2. RowsOnce(log')
        BY <4>1 DEF RowsOnce, Has
      <4>3. \A f \in Kinds : \A x \in RowsIn(results', f) : Has(todo', x)
        BY <3>1, LinesHold
      <4>4. QED
        BY <4>1, <4>2, <4>3 DEF RowsComing
    <3>9. QED
      BY <3>3, <3>4, <3>5, <3>6, <3>7, <3>8
  <2>2. CASE Emit
    <3> DEFINE h == Head(todo)
    <3>1. /\ todo # <<>> /\ h.kind # "stopped" /\ todo' = Tail(todo)
          /\ log' = (IF ~cut THEN Append(log, h) ELSE log)
          /\ results' = results /\ cut' = cut /\ lastStops' = lastStops
          /\ outcome' = outcome /\ warned' = warned
      BY <2>2 DEF Emit, Emitted
    <3>2. results \in Scans /\ outcome = "none"
      BY <3>1 DEF BurstShape
    <3>3. /\ IsSeq(todo') /\ RowsOnce(todo') /\ RowsFirst(todo')
          /\ \A x : Has(todo', x) => Has(todo, x)
          /\ \A x : Has(todo, x) => x = h \/ Has(todo', x)
          /\ Has(todo, h)
          /\ h.kind \in Kinds => ~Has(todo', h)
          /\ h.kind = "complete" => \A x : Has(todo', x) => x.kind \notin Kinds
      BY <3>1, Removing, TakingRows DEF BurstShape
    <3>4. /\ IsSeq(log') /\ \A x : Has(log, x) => Has(log', x)
          /\ ~cut => Has(log', h) /\ \A x : Has(log', x) => Has(log, x) \/ x = h
          /\ cut => log' = log
          /\ \A i \in DOMAIN log' : (i \in DOMAIN log /\ log'[i] = log[i]) \/ log'[i] = h
      <4> HIDE DEF h
      <4>1. CASE cut
        BY <3>1, <4>1 DEF BurstShape
      <4>2. CASE ~cut
        BY <3>1, <4>2, Appending DEF BurstShape
      <4>3. QED
        BY <4>1, <4>2
    <3> HIDE DEF h
    <3>5. BurstShape'
      BY <3>1, <3>2, <3>3, <3>4, NotEmpty DEF BurstShape
    <3>6. LastHasWarn'
      BY <3>1 DEF LastHasWarn
    <3>7. InfoHasWarn'
      BY <3>1, <3>4 DEF InfoHasWarn
    <3>8. VerdictsComing'
      BY <3>1, <3>3, <3>4 DEF VerdictsComing
    <3>9. ExitZeroIsWhole'
      BY <3>1, <3>2 DEF ExitZeroIsWhole
    <3>10. LineOf(results, h)
      BY <3>3 DEF BurstShape
    <3>11. RowsComing'
      <4> USE <3>1, <3>2
      <4>1. CASE cut
        <5>1. log' = log
          BY <3>4, <4>1
        <5>2. QED
          BY <3>3, <4>1, <5>1 DEF RowsComing, RowsLogged
      <4>2. CASE ~cut
        <5>1. RowsOnce(log')
          <6>1. log' = Append(log, h) /\ (h.kind \in Kinds => ~Has(log, h))
            BY <3>3, <4>2 DEF h, RowsComing
          <6>2. QED
            BY <6>1, LoggingRows DEF BurstShape, RowsComing
        <5>2. \A x : Has(log', x) /\ x.kind # "stopped" => LineOf(results, x)
          BY <3>4, <3>10, <4>2 DEF RowsComing
        <5>3. \A x : x.kind \in Kinds => ~(Has(log', x) /\ Has(todo', x))
          BY <3>3, <3>4, <4>2 DEF RowsComing
        <5>4. \A f \in Kinds : \A x \in RowsIn(results, f) : Has(log', x) \/ Has(todo', x)
          BY <3>3, <3>4, <4>2 DEF RowsComing
        <5>5. ASSUME NEW y, Has(log', y), y.kind = "complete"
              PROVE  RowsLogged'
          <6>1. CASE Has(log, y)
            BY <3>4, <5>5, <6>1 DEF RowsComing, RowsLogged
          <6>2. CASE y = h
            BY <3>3, <5>4, <5>5, <6>2, LineKinds DEF RowsLogged
          <6>3. QED
            BY <3>4, <4>2, <5>5, <6>1, <6>2
        <5>6. QED
          BY <5>1, <5>2, <5>3, <5>4, <5>5 DEF RowsComing
      <4>3. QED
        BY <4>1, <4>2
    <3>12. QED
      BY <3>5, <3>6, <3>7, <3>8, <3>9, <3>11
  <2>3. CASE EmitStopped
    <3> DEFINE h == Head(todo)
               c == h.conn
               r == results[c]
               budgetStop == r.stop # "scan_timeout"
               level == IF budgetStop /\ r.reset # Unknown /\ lastStops[c] = r.reset
                        THEN "INFO" ELSE "WARN"
               line == [kind |-> "stopped", conn |-> c, level |-> level]
    <3>1. /\ todo # <<>> /\ h.kind = "stopped" /\ todo' = Tail(todo)
          /\ log' = (IF ~cut THEN Append(log, line) ELSE log)
          /\ lastStops' = (IF ~cut /\ budgetStop THEN [lastStops EXCEPT ![c] = r.reset] ELSE lastStops)
          /\ warned' = (IF ~cut /\ level = "WARN" /\ budgetStop
                        THEN warned \cup {<<c, r.reset>>} ELSE warned)
          /\ results' = results /\ cut' = cut /\ outcome' = outcome
      BY <2>3 DEF EmitStopped, Emitted, Remembers
    <3>2. results \in Scans /\ outcome = "none"
      BY <3>1 DEF BurstShape
    <3>3. /\ IsSeq(todo') /\ RowsOnce(todo') /\ RowsFirst(todo')
          /\ \A x : Has(todo', x) => Has(todo, x)
          /\ \A x : Has(todo, x) => x = h \/ Has(todo', x)
          /\ Has(todo, h)
      BY <3>1, Removing, TakingRows DEF BurstShape
    <3>4. c \in conns /\ r.reset \in Nat
      <4>1. c \in conns
        BY <3>1, <3>2, <3>3, LineKinds DEF BurstShape
      <4>2. Result(r)
        BY <3>2, <4>1, ScansAssumption DEF conns
      <4>3. QED
        BY <4>1, <4>2 DEF Result
    <3>5. /\ line.kind = "stopped" /\ line.conn = c /\ line.level = level
          /\ level \in {"INFO", "WARN"}
          /\ level = "INFO" => lastStops[c] = r.reset
      OBVIOUS
    <3> HIDE DEF h, r, level, line
    <3>6. /\ IsSeq(log') /\ \A x : Has(log, x) => Has(log', x)
          /\ \A x : Has(log', x) => Has(log, x) \/ x = line
          /\ \A i \in DOMAIN log' : (i \in DOMAIN log /\ log'[i] = log[i]) \/ log'[i] = line
      <4>1. CASE cut
        BY <3>1, <4>1 DEF BurstShape
      <4>2. CASE ~cut
        BY <3>1, <4>2, Appending DEF BurstShape
      <4>3. QED
        BY <4>1, <4>2
    <3>7. BurstShape'
      BY <3>1, <3>2, <3>3, <3>6, NotEmpty DEF BurstShape
    <3>8. lastStops[c] # Never => <<c, lastStops[c]>> \in warned
      BY <3>4 DEF LastHasWarn
    <3>9. level = "INFO" => <<c, r.reset>> \in warned
      <4>1. r.reset # Never
        BY <3>4 DEF Never
      <4>2. QED
        BY <3>5, <3>8, <4>1
    <3>10. LastHasWarn'
      <4> SUFFICES ASSUME ~cut, budgetStop
                   PROVE  LastHasWarn'
        BY <3>1 DEF LastHasWarn
      <4>1. lastStops' = [lastStops EXCEPT ![c] = r.reset]
        BY <3>1
      <4>2. <<c, r.reset>> \in warned'
        BY <3>1, <3>5, <3>9
      <4>3. warned \subseteq warned'
        BY <3>1
      <4> HIDE DEF budgetStop, c
      <4>4. ASSUME NEW d \in conns, lastStops'[d] # Never
            PROVE  <<d, lastStops'[d]>> \in warned'
        <5>1. CASE d = c
          BY <4>1, <4>2, <5>1 DEF LastHasWarn
        <5>2. CASE d # c
          BY <4>1, <4>3, <4>4, <5>2 DEF LastHasWarn
        <5>3. QED
          BY <5>1, <5>2
      <4>5. DOMAIN lastStops' = conns
        BY <4>1 DEF LastHasWarn
      <4>6. QED
        BY <4>4, <4>5 DEF LastHasWarn
    <3>11. InfoHasWarn'
      <4>1. warned \subseteq warned'
        BY <3>1
      <4> HIDE DEF budgetStop
      <4> SUFFICES ASSUME NEW i \in DOMAIN log', log'[i].kind = "stopped", log'[i].level = "INFO"
                   PROVE  <<log'[i].conn, results[log'[i].conn].reset>> \in warned
        BY <3>1, <4>1 DEF InfoHasWarn
      <4>2. CASE i \in DOMAIN log /\ log'[i] = log[i]
        BY <4>2 DEF InfoHasWarn
      <4>3. CASE log'[i] = line
        BY <3>5, <3>9, <4>3 DEF r
      <4>4. QED
        BY <3>6, <4>2, <4>3
    <3>12. VerdictsComing'
      <4>1. \A d \in conns : CompleteLine(results, d).kind = "complete"
        BY DEF CompleteLine
      <4>2. \A d \in conns : CompleteLine(results, d) # h
        BY <3>1, <4>1
      <4>3. QED
        BY <3>1, <3>3, <3>6, <4>2 DEF VerdictsComing
    <3>13. ExitZeroIsWhole'
      BY <3>1, <3>2 DEF ExitZeroIsWhole
    <3>14. RowsComing'
      <4>1. "stopped" \notin Kinds
        BY <3>2, LineKinds
      <4>2. RowsOnce(log')
        <5>1. CASE cut
          BY <3>1, <3>2, <5>1 DEF RowsComing
        <5>2. CASE ~cut
          <6>1. log' = Append(log, line) /\ line.kind \notin Kinds
            BY <3>1, <3>5, <4>1, <5>2
          <6>2. QED
            BY <3>2, <6>1, LoggingRows DEF BurstShape, RowsComing
        <5>3. QED
          BY <5>1, <5>2
      <4>3. \A x : x.kind # "stopped" => (Has(log', x) <=> Has(log, x))
        BY <3>5, <3>6
      <4>4. \A x : x.kind # "stopped" => (Has(todo', x) <=> Has(todo, x))
        BY <3>1, <3>3
      <4>5. \A f \in Kinds : \A x \in RowsIn(results, f) : x.kind # "stopped"
        BY <3>2, <4>1, LineKinds
      <4>6. RowsLogged => RowsLogged'
        BY <3>1, <3>6 DEF RowsLogged
      <4>7. \A x : x.kind = "complete" => x.kind # "stopped"
        OBVIOUS
      <4> HIDE DEF budgetStop
      <4>8. QED
        BY <3>1, <3>2, <4>1, <4>2, <4>3, <4>4, <4>5, <4>6, <4>7 DEF RowsComing
    <3>15. QED
      BY <3>7, <3>10, <3>11, <3>12, <3>13, <3>14
  <2>4. CASE Return
    <3>1. /\ results # <<>> /\ todo = <<>> /\ outcome' = OutcomeOf(results)
          /\ results' = results /\ todo' = todo /\ log' = log /\ cut' = cut
          /\ lastStops' = lastStops /\ warned' = warned
      BY <2>4 DEF Return
    <3>2. results \in Scans
      BY <3>1 DEF BurstShape
    <3>3. BurstShape' /\ LastHasWarn' /\ InfoHasWarn' /\ VerdictsComing'
      BY <3>1, <3>2 DEF BurstShape, LastHasWarn, InfoHasWarn, VerdictsComing
    <3>4. ExitZeroIsWhole'
      <4> SUFFICES ASSUME outcome' = "complete", NEW c \in conns
                   PROVE  \E i \in Logged("complete", c) : ~log[i].degraded
        BY <3>1 DEF ExitZeroIsWhole, Logged
      <4>1. ~cut /\ results[c].stop = "none" /\ ~results[c].degraded
        BY <3>1 DEF OutcomeOf
      <4>2. Has(log, CompleteLine(results, c))
        BY <3>1, <3>2, <4>1, EmptyBasics DEF VerdictsComing
      <4>3. PICK i \in DOMAIN log : log[i] = CompleteLine(results, c)
        BY <4>2 DEF Has
      <4>4. log[i].kind = "complete" /\ log[i].conn = c /\ log[i].degraded = results[c].degraded
        BY <4>3 DEF CompleteLine
      <4>5. QED
        BY <4>1, <4>3, <4>4 DEF Logged
    <3>5. RowsComing'
      <4>1. outcome' \in {"complete", "incomplete"} => ~cut
        BY <3>1 DEF OutcomeOf
      <4>2. ~cut => RowsLogged
        BY <3>1, <3>2, EmptyBasics DEF RowsComing, RowsLogged
      <4>3. RowsLogged => RowsLogged'
        BY <3>1 DEF RowsLogged
      <4>4. QED
        BY <3>1, <3>2, <4>1, <4>2, <4>3 DEF RowsComing
    <3>6. QED
      BY <3>3, <3>4, <3>5
  <2>5. CASE NextScan \/ Restart
    <3>1. results' = <<>> /\ log' = <<>> /\ outcome' = "none" /\ todo' = todo /\ todo = <<>>
      BY <2>5 DEF NextScan, Restart, BurstShape
    <3>2. BurstShape' /\ VerdictsComing' /\ ExitZeroIsWhole' /\ RowsComing'
      <4>1. results' \notin Scans
        BY <3>1, NotEmpty
      <4>2. \A x : ~Has(todo, x)
        BY <3>1, EmptyBasics
      <4>3. QED
        BY <3>1, <4>1, <4>2, EmptyBasics DEF BurstShape, VerdictsComing, ExitZeroIsWhole, RowsComing
    <3>3. LastHasWarn'
      BY <2>5 DEF NextScan, Restart, LastHasWarn
    <3>4. InfoHasWarn'
      <4>1. DOMAIN <<>> = {}
        OBVIOUS
      <4>2. QED
        BY <3>1, <4>1 DEF InfoHasWarn
    <3>5. QED
      BY <3>2, <3>3, <3>4
  <2>6. CASE Cut
    <3>1. /\ cut' = TRUE /\ results' = results /\ todo' = todo /\ log' = log
          /\ lastStops' = lastStops /\ outcome' = outcome /\ warned' = warned
      BY <2>6 DEF Cut
    <3>2. QED
      BY <3>1 DEF BurstShape, LastHasWarn, InfoHasWarn, VerdictsComing, ExitZeroIsWhole, Logged,
                   RowsComing, RowsLogged
  <2>7. CASE UNCHANGED vars
    BY <2>7 DEF vars, BurstShape, LastHasWarn, InfoHasWarn, VerdictsComing, ExitZeroIsWhole, Logged,
                RowsComing, RowsLogged
  <2>8. QED
    BY <2>1, <2>2, <2>3, <2>4, <2>5, <2>6, <2>7 DEF Next
<1>3. QED
  BY <1>1, <1>2, PTL DEF Spec

(* The first budget stop logged of a budget window is WARN: what a process
   remembers as logged it logged WARN, across scans, as a stop at the time
   limit is never remembered and a line refused leaves no memory
   (emitStopped, lastStops). *)
THEOREM WindowsAreWarned == Spec => []InfoHasWarn
<1>1. BurstInv => InfoHasWarn
  BY DEF BurstInv
<1>2. QED
  BY <1>1, BurstsHold, PTL

(* A scan that returns complete has logged the undegraded scan complete of
   every connection: none is lost in the burst, whenever the process is told
   to stop (emitBurst, emitter.log, Scan). *)
THEOREM CompleteScansAreWhole == Spec => []ExitZeroIsWhole
<1>1. BurstInv => ExitZeroIsWhole
  BY DEF BurstInv
<1>2. QED
  BY <1>1, BurstsHold, PTL

-----------------------------------------------------------------------------
(* The log, counted. *)

(* As many lines of the log are rows of a set as the set has, once every row
   is in the log. *)
LEMMA LoggedRows ==
  ASSUME BurstInv, results \in Scans, RowsLogged, NEW f \in Kinds, NEW P, P \subseteq RowsIn(results, f)
  PROVE  LET S == {i \in DOMAIN log : log[i] \in P}
         IN  IsFiniteSet(S) /\ IsFiniteSet(P) /\ Cardinality(S) = Cardinality(P)
<1> DEFINE S == {i \in DOMAIN log : log[i] \in P}
           at == [i \in S |-> log[i]]
<1>1. IsFiniteSet(S)
  <2>1. Len(log) \in Nat /\ DOMAIN log = 1..Len(log)
    BY DEF BurstInv, BurstShape, IsSeq
  <2>2. IsFiniteSet(1..Len(log))
    BY <2>1, FS_Interval
  <2>3. QED
    BY <2>1, <2>2, FS_Subset
<1>2. \A i \in S : at[i] = log[i] /\ i \in DOMAIN log /\ log[i] \in P /\ log[i].kind \in Kinds
  BY LineKinds
<1>3. \A i, j \in S : at[i] = at[j] => i = j
  <2>1. RowsOnce(log)
    BY DEF BurstInv, RowsComing
  <2>2. QED
    BY <1>2, <2>1 DEF RowsOnce
<1>4. ASSUME NEW x \in P
      PROVE  \E i \in S : at[i] = x
  <2>1. Has(log, x)
    BY DEF RowsLogged
  <2>2. PICK i \in DOMAIN log : log[i] = x
    BY <2>1 DEF Has
  <2>3. i \in S
    BY <2>2
  <2>4. QED
    BY <1>2, <2>2, <2>3
<1>5. DOMAIN at = S
  OBVIOUS
<1> HIDE DEF at, S
<1>6. P = {at[i] : i \in S}
  BY <1>2, <1>4
<1>7. IsFiniteSet({at[i] : i \in S}) /\ Cardinality({at[i] : i \in S}) = Cardinality(S)
  BY <1>1, <1>3, <1>5, SameSize
<1>8. QED
  BY <1>1, <1>6, <1>7 DEF S

(* A connection's rows of a family are those of its keys. *)
LEMMA RowsOfConn ==
  ASSUME NEW rs \in Scans, NEW f \in ToSet(Families), NEW c \in Live(rs)
  PROVE  Cardinality({row \in Rank(rs, f) : row.conn = c}) = Cardinality(RowsOf(rs[c], f))
<1> DEFINE R == RowsOf(rs[c], f)
           K == Keys(rs, f, Live(rs))
           at == [k \in R |-> RowAt(rs, f, <<k, c>>)]
           P == {row \in Rank(rs, f) : row.conn = c}
<1>1. c \in conns /\ IsFiniteSet(R)
  BY KeysType, ScansAssumption DEF conns, Live
<1>2. /\ \A x \in K : x = <<x[1], x[2]>> /\ x[1] \in RowsOf(rs[x[2]], f)
      /\ \A k \in R : <<k, c>> \in K
  BY KeysPlaced DEF Live
<1>3. /\ Rank(rs, f) = {RowAt(rs, f, x) : x \in K}
      /\ \A x, y \in K : RowAt(rs, f, x) = RowAt(rs, f, y) => x = y
  BY RankRows
<1>4. \A x \in K : RowAt(rs, f, x).conn = x[2]
  BY DEF RowAt
<1> HIDE DEF K
<1>5. \A k, l \in R : at[k] = at[l] => k = l
  <2> SUFFICES ASSUME NEW k \in R, NEW l \in R, at[k] = at[l]
               PROVE  k = l
    OBVIOUS
  <2>1. <<k, c>> = <<l, c>>
    BY <1>2, <1>3
  <2>2. QED
    BY <2>1
<1>6. P = {at[k] : k \in R}
  <2>1. ASSUME NEW k \in R
        PROVE  at[k] \in P
    <3>1. <<k, c>> \in K /\ at[k] = RowAt(rs, f, <<k, c>>)
      BY <1>2
    <3>2. QED
      BY <1>3, <1>4, <3>1
  <2>2. ASSUME NEW row \in P
        PROVE  \E k \in R : at[k] = row
    <3>1. PICK x \in K : row = RowAt(rs, f, x)
      BY <1>3
    <3>2. x[2] = c /\ x = <<x[1], c>> /\ x[1] \in R
      BY <1>2, <1>4, <3>1
    <3>3. at[x[1]] = row
      BY <3>1, <3>2
    <3>4. QED
      BY <3>2, <3>3
  <2> HIDE DEF at, P
  <2>3. QED
    BY <2>1, <2>2
<1>7. DOMAIN at = R
  OBVIOUS
<1> HIDE DEF at, R, P
<1>8. QED
  BY <1>1, <1>5, <1>6, <1>7, SameSize DEF P, R

(* Of a scan complete line: what the connection has in the log. *)
LEMMA CommittedRows ==
  ASSUME BurstInv, NEW i \in DOMAIN log, log[i].kind = "complete"
  PROVE  /\ results \in Scans /\ RowsLogged
         /\ log[i].conn \in Live(results) /\ log[i] = CompleteLine(results, log[i].conn)
<1>1. Has(log, log[i])
  BY DEF Has
<1>2. results \in Scans
  BY <1>1, EmptyBasics DEF BurstInv, BurstShape
<1>3. RowsLogged /\ LineOf(results, log[i])
  BY <1>1, <1>2 DEF BurstInv, RowsComing
<1>4. log[i].conn \in conns /\ VerdictOf(results, log[i].conn, log[i])
  BY <1>2, <1>3, LineKinds
<1>5. QED
  BY <1>2, <1>3, <1>4 DEF VerdictOf, Live

(* A scan complete line commits its connection's rows: as many lines of each
   family are in the log as it counts, or of a capped one as it lists, each row
   once, wherever the process was told to stop; the days it listed are there
   too; and the connection's tool lines, the rollup among them, share out its
   alerts (emitBurst, tools, completeAttrs). *)
THEOREM CompletesCommit == Spec => []CompleteCommitsBurst
<1>1. ASSUME BurstInv
      PROVE  CompleteCommitsBurst
  <2> SUFFICES ASSUME NEW i \in DOMAIN log, log[i].kind = "complete"
               PROVE  LET c == log[i].conn
                      IN  /\ \A f \in ToSet(Families) \ (Capped \cup {"days"}) :
                                Cardinality(Logged(f, c)) = log[i].counts[f]
                          /\ Cardinality(Logged("days", c)) = Cardinality(ListedDays(results[c]))
                          /\ \A f \in Capped : Cardinality(Logged(f, c)) = log[i].listed[f]
                          /\ log[i].counts["alerts"] =
                                Cardinality(UNION {{j} \X (1..log[j].alerts) : j \in Logged("tool", c)})
    BY DEF CompleteCommitsBurst
  <2> DEFINE c == log[i].conn
             P(f) == {row \in RowsIn(results, f) : row.conn = c}
  <2>1. results \in Scans /\ RowsLogged /\ c \in Live(results) /\ log[i] = CompleteLine(results, c)
    BY <1>1, CommittedRows
  <2>2. /\ ToSet(Families) \subseteq Kinds /\ Capped \subseteq Kinds /\ "tool" \in Kinds
        /\ \A f \in ToSet(Families) \cup Capped : f # "tool"
        /\ \A f \in ToSet(Families) : f # "top"
    BY KindsAre DEF Kinds, Capped
  <2>3. ASSUME NEW f \in Kinds
        PROVE  /\ Logged(f, c) = {j \in DOMAIN log : log[j] \in P(f)}
               /\ Cardinality(Logged(f, c)) = Cardinality(P(f))
    <3>1. \A j \in DOMAIN log : log[j].kind = f => log[j] \in RowsIn(results, f)
      <4> SUFFICES ASSUME NEW j \in DOMAIN log, log[j].kind = f
                   PROVE  log[j] \in RowsIn(results, f)
        OBVIOUS
      <4>1. Has(log, log[j]) /\ log[j].kind # "stopped"
        BY <2>1, <2>3, LineKinds DEF Has
      <4>2. LineOf(results, log[j])
        BY <1>1, <2>1, <4>1 DEF BurstInv, RowsComing
      <4>3. QED
        BY <2>1, <2>3, <4>2, LineKinds DEF LineOf, VerdictOf
    <3>2. Logged(f, c) = {j \in DOMAIN log : log[j] \in P(f)}
      BY <2>1, <2>3, <3>1, LineKinds DEF Logged
    <3>3. P(f) \subseteq RowsIn(results, f)
      OBVIOUS
    <3> HIDE DEF P
    <3>4. Cardinality(Logged(f, c)) = Cardinality(P(f))
      BY <1>1, <2>1, <2>3, <3>2, <3>3, LoggedRows
    <3>5. QED
      BY <3>2, <3>4 DEF P
  <2>4. ASSUME NEW f \in ToSet(Families) \ Capped
        PROVE  /\ Cardinality(Logged(f, c)) = Cardinality(RowsOf(results[c], f))
               /\ f # "days" => Cardinality(Logged(f, c)) = log[i].counts[f]
    <3>1. RowsIn(results, f) = Rank(results, f) /\ f \in Kinds
      BY <2>2, <2>4 DEF RowsIn, Listed
    <3>2. Cardinality(P(f)) = Cardinality(RowsOf(results[c], f))
      BY <2>1, <2>4, <3>1, RowsOfConn
    <3>3. f # "days" => log[i].counts[f] = Cardinality(RowsOf(results[c], f))
      BY <2>1, <2>4 DEF CompleteLine, Capped
    <3> HIDE DEF P
    <3>4. QED
      BY <2>3, <3>1, <3>2, <3>3
  <2>5. ASSUME NEW f \in Capped
        PROVE  Cardinality(Logged(f, c)) = log[i].listed[f]
    <3>1. log[i].listed[f] = Cardinality(P(f))
      BY <2>1, <2>2, <2>5 DEF CompleteLine, RowsIn
    <3> HIDE DEF P
    <3>2. QED
      BY <2>2, <2>3, <2>5, <3>1
  <2>6. log[i].counts["alerts"] =
            Cardinality(UNION {{j} \X (1..log[j].alerts) : j \in Logged("tool", c)})
    <3> DEFINE r == results[c]
               A == r.rows["alerts"]
               order == {ab \in Nat \X Nat : ab[1] <= ab[2]}
               J == Logged("tool", c)
               tools == ToolLines(results, c)
               at(k) == CHOOSE j \in J : log[j] = tools[k]
               part == [a \in A |-> at(AlertLine(r)[a])]
               n == [j \in J |-> log[j].alerts]
    <3>1. c \in conns /\ Result(r) /\ IsFiniteSet(A)
      BY <2>1, ScansAssumption, ToolsPlaced DEF Live, conns
    <3>2. IsOrder(A, order)
      <4>1. A \subseteq Nat /\ \A x, y : <<x, y>> \in order <=> x \in Nat /\ y \in Nat /\ x <= y
        BY <3>1, ToolsPlaced
      <4> HIDE DEF A, order
      <4>2. QED
        BY <4>1 DEF IsOrder
    <3>3. tools = [k \in DOMAIN Tools(r) |->
                      [kind |-> "tool", conn |-> c, rank |-> k, alerts |-> Tools(r)[k]]]
      BY <2>1, <3>1, ToolsList
    <3>4. /\ \A a \in A : AlertLine(r)[a] \in DOMAIN tools
          /\ \A k \in DOMAIN tools :
                tools[k].rank = k /\ tools[k].alerts = Cardinality(Share(A, AlertLine(r), k))
      BY <3>1, <3>3, ToolsCount
    <3> HIDE DEF A, order, tools, r
    <3>5. \A j \in J : j \in DOMAIN log /\ \E k \in DOMAIN tools : log[j] = tools[k]
      <4>1. P("tool") = {x \in ToolRows(results) : x.conn = c}
        BY DEF RowsIn
      <4>2. \A x \in P("tool") : \E k \in DOMAIN tools : x = tools[k]
        <5>1. \A x : x \in ToolRows(results) <=> \E d \in conns : Has(ToolLines(results, d), x)
          BY SequenceBasics DEF ToolRows
        <5>2. \A x \in P("tool") : Has(tools, x)
          BY <2>1, <4>1, <5>1, ToolsList DEF tools
        <5>3. QED
          BY <5>2 DEF Has
      <4>3. J = {j \in DOMAIN log : log[j] \in P("tool")}
        BY <2>2, <2>3
      <4> HIDE DEF P, J
      <4>4. QED
        BY <4>2, <4>3
    <3>6. \A k \in DOMAIN tools : \E j \in J : log[j] = tools[k]
      <4> SUFFICES ASSUME NEW k \in DOMAIN tools
                   PROVE  \E j \in J : log[j] = tools[k]
        OBVIOUS
      <4>1. Has(tools, tools[k])
        BY DEF Has
      <4>2. tools[k].kind = "tool" /\ tools[k].conn = c /\ tools[k] \in ToolRows(results)
        <5>1. tools[k] \in ToSet(ToolLines(results, c))
          BY <4>1, SequenceBasics DEF tools
        <5>2. QED
          BY <2>1, <3>1, <4>1, <5>1, ToolsList DEF tools, ToolRows
      <4>3. Has(log, tools[k])
        BY <2>1, <2>2, <4>2 DEF RowsLogged, RowsIn
      <4>4. QED
        BY <4>2, <4>3 DEF Has, Logged
    <3>7. \A k \in DOMAIN tools : at(k) \in J /\ log[at(k)] = tools[k]
      BY <3>6
    <3>8. \A j, l \in J : log[j] = log[l] => j = l
      <4>1. RowsOnce(log) /\ "tool" \in Kinds
        BY <1>1, <2>1, <2>2 DEF BurstInv, RowsComing
      <4>2. QED
        BY <4>1 DEF RowsOnce, Logged
    <3> HIDE DEF at, J, P
    <3>9. \A a \in A : part[a] \in J
      BY <3>4, <3>7
    <3>10. ASSUME NEW j \in J
           PROVE  n[j] = Cardinality(Share(A, part, j))
      <4>1. PICK k \in DOMAIN tools : log[j] = tools[k]
        BY <3>5
      <4>2. at(k) = j
        BY <3>7, <3>8, <4>1
      <4>3. \A a \in A : part[a] = j <=> AlertLine(r)[a] = k
        <5>1. \A a \in A : part[a] = j => AlertLine(r)[a] = k
          <6> SUFFICES ASSUME NEW a \in A, at(AlertLine(r)[a]) = j
                       PROVE  AlertLine(r)[a] = k
            OBVIOUS
          <6>1. tools[AlertLine(r)[a]] = tools[k] /\ AlertLine(r)[a] \in DOMAIN tools
            BY <3>4, <3>7, <4>1
          <6>2. tools[AlertLine(r)[a]].rank = tools[k].rank
            BY <6>1
          <6>3. QED
            BY <3>4, <6>1, <6>2
        <5>2. QED
          BY <4>2, <5>1
      <4>4. Share(A, part, j) = Share(A, AlertLine(r), k)
        BY <4>3 DEF Share
      <4>5. QED
        BY <3>4, <4>1, <4>4
    <3> HIDE DEF part, n
    <3>11. Cardinality(UNION {{j} \X (1..n[j]) : j \in J}) = Cardinality(A)
      BY <3>1, <3>2, <3>9, <3>10, SharedOut
    <3>12. UNION {{j} \X (1..n[j]) : j \in J} = UNION {{j} \X (1..log[j].alerts) : j \in J}
      BY DEF n
    <3>13. log[i].counts["alerts"] = Cardinality(A)
      <4>1. "alerts" \in ToSet(Families) /\ "alerts" # "days"
        BY KindsAre
      <4>2. QED
        BY <2>1, <4>1 DEF CompleteLine, RowsOf, A, r
    <3>14. QED
      BY <3>11, <3>12, <3>13 DEF J
  <2>7. Cardinality(Logged("days", c)) = Cardinality(ListedDays(results[c]))
    <3>1. "days" \in ToSet(Families) \ Capped
      BY KindsAre DEF Capped
    <3>2. RowsOf(results[c], "days") = ListedDays(results[c])
      BY DEF RowsOf
    <3>3. QED
      BY <2>4, <3>1, <3>2
  <2>8. \A f \in ToSet(Families) \ (Capped \cup {"days"}) : Cardinality(Logged(f, c)) = log[i].counts[f]
    BY <2>4
  <2>9. QED
    BY <2>5, <2>6, <2>7, <2>8
<1>2. QED
  BY <1>1, BurstsHold, PTL

(* A capped table of a scan logged to its end holds the scan's first rows, and
   of each product that product's first rows, every rank once: the cap by
   forge_rank keeps one product's rows from crowding out another's (rank,
   within, emitBurst). *)
THEOREM FirstRowsOfEachForge == Spec => []EachForgeFirstRows
<1>1. ASSUME BurstInv, outcome \in {"complete", "incomplete"}, NEW f \in Capped \ {"top"}
      PROVE  LET rows == {i \in DOMAIN log : log[i].kind = f}
                 live == {c \in conns : results[c].stop = "none"}
                 there(cs) == Cardinality(UNION {{<<k, c>> : k \in results[c].rows[f]} : c \in cs})
                 first(cs) == 1..Min({MaxRows, there(cs)})
             IN  /\ \A n \in first(live) : Cardinality({i \in rows : log[i].rank = n}) = 1
                 /\ \A p \in {Product[c] : c \in conns} :
                     LET of == {c \in live : Product[c] = p}
                     IN  \A n \in first(of) :
                             Cardinality({i \in rows : log[i].conn \in of /\ log[i].forgeRank = n}) = 1
  <2> DEFINE rows == {i \in DOMAIN log : log[i].kind = f}
             live == Live(results)
             K(cs) == Keys(results, f, cs)
  <2>1. results \in Scans
    BY <1>1 DEF BurstInv, BurstShape
  <2>2. RowsLogged
    BY <1>1, <2>1 DEF BurstInv, RowsComing
  <2>3. f \in ToSet(Families) /\ f # "days" /\ f \in Kinds /\ f \notin {"top", "tool"} /\ f \in Capped
    BY <1>1, KindsAre DEF Capped, Kinds
  <2>4. \A cs : UNION {{<<k, c>> : k \in results[c].rows[f]} : c \in cs} = K(cs)
    BY <2>3 DEF Keys, RowsOf
  <2>5. live \subseteq conns /\ \A p : OfProduct(live, p) \subseteq live
    BY DEF Live, OfProduct
  <2>6. /\ Rank(results, f) = {RowAt(results, f, x) : x \in K(live)}
        /\ RowsIn(results, f) = {row \in Rank(results, f) : row.rank <= MaxRows \/ row.forgeRank <= MaxRows}
    BY <2>1, <2>3, RankRows DEF RowsIn, Listed, Cap, Within
  <2>7. \A i \in rows : log[i] \in RowsIn(results, f)
    <3> SUFFICES ASSUME NEW i \in DOMAIN log, log[i].kind = f
                 PROVE  log[i] \in RowsIn(results, f)
      OBVIOUS
    <3>1. Has(log, log[i]) /\ log[i].kind # "stopped"
      BY <2>1, <2>3, LineKinds DEF Has
    <3>2. LineOf(results, log[i])
      BY <1>1, <2>1, <3>1 DEF BurstInv, RowsComing
    <3>3. QED
      BY <2>1, <2>3, <3>2, LineKinds DEF LineOf, VerdictOf
  <2>8. ASSUME NEW row \in RowsIn(results, f)
        PROVE  Cardinality({i \in DOMAIN log : log[i] \in {row}}) = 1 /\ row.kind = f
    <3>1. {row} \subseteq RowsIn(results, f)
      BY <2>8
    <3>2. Cardinality({i \in DOMAIN log : log[i] \in {row}}) = Cardinality({row})
      BY <1>1, <2>1, <2>2, <2>3, <3>1, LoggedRows
    <3>3. QED
      BY <2>1, <2>3, <2>8, <3>2, FS_Singleton, LineKinds
  <2>9. \A cs : cs \subseteq conns =>
          /\ Cardinality(K(cs)) \in Nat
          /\ \A x \in K(cs) : x[2] \in cs
          /\ \A x, y \in K(cs) : PlaceAmong(x, K(cs)) = PlaceAmong(y, K(cs)) => x = y
          /\ \A n \in 1..Cardinality(K(cs)) : \E x \in K(cs) : PlaceAmong(x, K(cs)) = n
    BY <2>1, <2>3, KeysPlaced
  <2>10. ASSUME NEW n \in 1..Min({MaxRows, Cardinality(K(live))})
         PROVE  Cardinality({i \in rows : log[i].rank = n}) = 1
    <3>1. n <= MaxRows /\ n \in 1..Cardinality(K(live))
      BY <2>5, <2>9, CapsAssumption, LeastIsOne
    <3>2. PICK x \in K(live) : PlaceAmong(x, K(live)) = n
      BY <2>5, <2>9, <3>1
    <3> DEFINE row == RowAt(results, f, x)
    <3>3. row.rank = n
      BY <3>2 DEF RowAt
    <3>4. row \in RowsIn(results, f)
      BY <2>6, <3>1, <3>2, <3>3
    <3>5. ASSUME NEW i \in rows, log[i].rank = n
          PROVE  log[i] = row
      <4>1. PICK y \in K(live) : log[i] = RowAt(results, f, y)
        BY <2>6, <2>7
      <4>2. PlaceAmong(y, K(live)) = n
        BY <3>5, <4>1 DEF RowAt
      <4>3. x = y
        BY <2>5, <2>9, <3>2, <4>2
      <4>4. QED
        BY <4>1, <4>3
    <3> HIDE DEF row
    <3>6. {i \in rows : log[i].rank = n} = {i \in DOMAIN log : log[i] \in {row}}
      BY <2>8, <3>3, <3>4, <3>5
    <3>7. QED
      BY <2>8, <3>4, <3>6
  <2>11. ASSUME NEW p, NEW n \in 1..Min({MaxRows, Cardinality(K(OfProduct(live, p)))})
         PROVE  Cardinality({i \in rows : log[i].conn \in OfProduct(live, p) /\ log[i].forgeRank = n}) = 1
    <3> DEFINE of == OfProduct(live, p)
    <3>0. of \subseteq conns /\ of \subseteq live /\ \A c \in of : Product[c] = p
      BY <2>5 DEF OfProduct
    <3>1. n <= MaxRows /\ n \in 1..Cardinality(K(of))
      BY <2>9, <3>0, CapsAssumption, LeastIsOne
    <3>2. PICK x \in K(of) : PlaceAmong(x, K(of)) = n
      BY <2>9, <3>0, <3>1
    <3> DEFINE row == RowAt(results, f, x)
    <3>3. x[2] \in of /\ x \in K(live)
      BY <2>9, <3>0, <3>2 DEF Keys
    <3>4. row.forgeRank = n /\ row.conn \in of
      BY <3>0, <3>2, <3>3 DEF RowAt
    <3>5. row \in RowsIn(results, f)
      BY <2>6, <3>1, <3>3, <3>4
    <3>6. ASSUME NEW i \in rows, log[i].conn \in of, log[i].forgeRank = n
          PROVE  log[i] = row
      <4>1. PICK y \in K(live) : log[i] = RowAt(results, f, y)
        BY <2>6, <2>7
      <4>2. y[2] \in of
        BY <3>6, <4>1 DEF RowAt
      <4>3. y \in K(of)
        BY <4>2 DEF Keys
      <4>4. PlaceAmong(y, K(of)) = n
        BY <3>0, <3>6, <4>1, <4>2 DEF RowAt
      <4>5. x = y
        BY <2>9, <3>0, <3>2, <4>3, <4>4
      <4>6. QED
        BY <4>1, <4>5
    <3> HIDE DEF row
    <3>7. {i \in rows : log[i].conn \in of /\ log[i].forgeRank = n} = {i \in DOMAIN log : log[i] \in {row}}
      BY <2>8, <3>4, <3>5, <3>6
    <3>8. QED
      BY <2>8, <3>5, <3>7
  <2> HIDE DEF K, live
  <2>12. {c \in conns : results[c].stop = "none"} = live
    BY DEF Live, live
  <2>13. \A p : {c \in live : Product[c] = p} = OfProduct(live, p)
    BY DEF OfProduct
  <2> DEFINE there(cs) == Cardinality(UNION {{<<k, c>> : k \in results[c].rows[f]} : c \in cs})
  <2>14. \A cs : there(cs) = Cardinality(K(cs))
    BY <2>4
  <2>15. \A n \in 1..Min({MaxRows, there(live)}) : Cardinality({i \in rows : log[i].rank = n}) = 1
    BY <2>10, <2>14
  <2>16. ASSUME NEW p
         PROVE  LET of == {c \in live : Product[c] = p}
                IN  \A n \in 1..Min({MaxRows, there(of)}) :
                        Cardinality({i \in rows : log[i].conn \in of /\ log[i].forgeRank = n}) = 1
    <3>1. {c \in live : Product[c] = p} = OfProduct(live, p)
      BY <2>13
    <3>2. ASSUME NEW n \in 1..Min({MaxRows, there(OfProduct(live, p))})
          PROVE  Cardinality({i \in rows : log[i].conn \in OfProduct(live, p) /\ log[i].forgeRank = n}) = 1
      <4>1. there(OfProduct(live, p)) = Cardinality(K(OfProduct(live, p)))
        BY <2>14
      <4>2. n \in 1..Min({MaxRows, Cardinality(K(OfProduct(live, p)))})
        BY <4>1
      <4>3. QED
        BY <2>11, <4>2
    <3> HIDE DEF there, rows
    <3>3. QED
      BY <3>1, <3>2
  <2> HIDE DEF there
  <2>17. /\ \A n \in 1..Min({MaxRows, there(live)}) : Cardinality({i \in rows : log[i].rank = n}) = 1
         /\ \A p \in {Product[c] : c \in conns} :
              LET of == {c \in live : Product[c] = p}
              IN  \A n \in 1..Min({MaxRows, there(of)}) :
                      Cardinality({i \in rows : log[i].conn \in of /\ log[i].forgeRank = n}) = 1
    <3> HIDE DEF rows
    <3>1. \A n \in 1..Min({MaxRows, there(live)}) : Cardinality({i \in rows : log[i].rank = n}) = 1
      BY <2>15
    <3>2. SUFFICES ASSUME NEW p, NEW n \in 1..Min({MaxRows, there({c \in live : Product[c] = p})})
                   PROVE  Cardinality({i \in rows : log[i].conn \in {c \in live : Product[c] = p}
                                                     /\ log[i].forgeRank = n}) = 1
      BY <3>1
    <3>3. QED
      BY <2>16
  <2>18. QED
    BY <2>17, <2>12 DEF there
<1>2. BurstInv => EachForgeFirstRows
  BY <1>1 DEF EachForgeFirstRows
<1>3. QED
  BY <1>2, BurstsHold, PTL
=============================================================================
