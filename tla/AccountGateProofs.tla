------------------------- MODULE AccountGateProofs -------------------------
(***************************************************************************)
(* What holds of AccountGate for any connections, forges, accounts and     *)
(* logins: its types, that the gate opens exactly when all have arrived,   *)
(* that only the earliest connection of a login reads, and that one        *)
(* refused was refused for one that reads.                                 *)
(***************************************************************************)
EXTENDS AccountGate, FiniteSetTheorems, WellFoundedInduction, TLAPS

Holding == {"waiting", "reading", "read", "cut"}

(* Where a goroutine is says what its connection holds and what the gate    *)
(* knows of it.                                                             *)
PlaceInv ==
    /\ scan # "running" => \A c \in Conns : pc[c] \in Ends
    /\ scan = "running" => \A c \in Conns :
          /\ pc[c] # "idle"
          /\ pc[c] \in {"failed", "unopened", "refused"} => conn[c] = NotOpen
          /\ pc[c] = "opened" => conn[c] # NotOpen
          /\ pc[c] \in Holding => conn[c] # NotOpen /\ logins[c] = conn[c]
          /\ pc[c] = "unopened" => logins[c] = NotOpen

(* Strengthening of TypeOK and GateCounts: left falls by one for each       *)
(* arrival only because each goroutine arrives once.                        *)
GateInv == TypeOK /\ PlaceInv /\ GateCounts

(* The earliest connection of its forge on c's login, as the gate knows it. *)
FirstOn(j, c) ==
    /\ j \in ConnsOf(ForgeOf[c])
    /\ j < c
    /\ logins[j] = logins[c]
    /\ \A i \in ConnsOf(ForgeOf[c]) : i < j => logins[i] # logins[c]

(* Strengthening of EarliestReads and RefusedForAReader: what first         *)
(* answered stays true, as no login changes once the gate is open.          *)
OrderInv == \A c \in Conns :
    /\ pc[c] = "reading" => ready[ForgeOf[c]] /\ Earlier(c) = {}
    /\ pc[c] = "refused" =>
          /\ ready[ForgeOf[c]]
          /\ logins[c] # NotOpen
          /\ \E j \in Conns : FirstOn(j, c) /\ pc[j] \in Holding

(* Without a rename an open connection's login is its account's.            *)
LoginInv == \A c \in Conns : conn[c] \in {NotOpen, name[AccountOf[c]]}

-----------------------------------------------------------------------------
(* The configuration. *)

LEMMA ForgeType ==
  ASSUME NEW c \in Conns
  PROVE  /\ ForgeOf[c] \in Forges
         /\ AccountOf[c] \in Accounts
         /\ c \in ConnsOf(ForgeOf[c])
  BY DEF Forges, Accounts, ConnsOf

LEMMA ArrivingFinite ==
  ASSUME NEW f
  PROVE  IsFiniteSet(ConnsOf(f)) /\ IsFiniteSet(Arriving(f))
  <1>1. ConnsOf(f) \in SUBSET Conns /\ Arriving(f) \in SUBSET Conns
    BY DEF ConnsOf, Arriving
  <1>2. QED
    BY <1>1, ConnsAssumption, FS_Subset

(* A set of connections that is not empty has an earliest one: the sets of  *)
(* connections before each are finite, so one has none strictly inside it.  *)
LEMMA EarliestExists ==
  ASSUME NEW S, S \subseteq Conns, S # {}
  PROVE  \E m \in S : \A i \in S : m <= i
  <1> DEFINE Before(x) == {i \in S : i < x}
             Cuts == {Before(x) : x \in S}
  <1>1. S \subseteq Nat /\ IsFiniteSet(S)
    BY ConnsAssumption, FS_Subset
  <1>2. \A x \in S : Before(x) \in SUBSET S /\ IsFiniteSet(Before(x))
    <2>1. ASSUME NEW x \in S
          PROVE  Before(x) \in SUBSET S
      OBVIOUS
    <2>2. ASSUME NEW x \in S
          PROVE  IsFiniteSet(Before(x))
      BY <1>1, <2>1, FS_Subset
    <2>3. QED
      BY <2>1, <2>2
  <1>3. Cuts \subseteq FiniteSubsetsOf(S) /\ Cuts # {}
    BY <1>2 DEF FiniteSubsetsOf
  <1>4. IsWellFoundedOn(StrictSubsetOrdering(S), FiniteSubsetsOf(S))
    BY FS_StrictSubsetOrderingWellFounded
  <1>5. PICK C \in Cuts : \A D \in Cuts : ~ (<<D, C>> \in StrictSubsetOrdering(S))
    BY <1>3, <1>4, WFMin
  <1>6. PICK m \in S : C = Before(m)
    BY <1>5
  <1>7. ASSUME NEW i \in S
        PROVE  m <= i
    <2>1. SUFFICES ASSUME i < m PROVE FALSE
      BY <1>1, <1>6
    <2>2. Before(i) \in SUBSET S /\ Before(m) \in SUBSET S
      BY <1>2, <1>6
    <2>3. Before(i) \subseteq Before(m) /\ i \in Before(m) /\ i \notin Before(i)
      <3>1. \A x \in S : x \in Nat
        BY <1>1
      <3>2. ASSUME NEW x \in S, x < i
            PROVE  x < m
        <4>1. x \in Nat /\ i \in Nat /\ m \in Nat
          BY <3>1
        <4>2. QED
          BY <2>1, <3>2, <4>1
      <3>3. ~ (i < i)
        BY <3>1
      <3>4. Before(i) \subseteq Before(m)
        BY <3>2
      <3>5. QED
        BY <2>1, <3>3, <3>4
    <2>4. <<Before(i), Before(m)>> \in StrictSubsetOrdering(S)
      BY <2>2, <2>3 DEF StrictSubsetOrdering
    <2>5. QED
      BY <1>5, <1>6, <2>4
  <1>8. QED
    BY <1>7

-----------------------------------------------------------------------------
(* The gate. *)

(* The steps that leave the gate alone and everyone's having arrived so. *)
LEMMA GateKept ==
  ASSUME GateCounts, UNCHANGED <<scan, gate>>,
         \A f \in Forges : Arriving(f)' = Arriving(f)
  PROVE  GateCounts'
  BY DEF GateCounts, gate

LEMMA ArriveCounts ==
  ASSUME GateInv, NEW c \in Conns, pc[c] \in {"failed", "opened"},
         NEW p \in {"waiting", "unopened"}, pc' = [pc EXCEPT ![c] = p],
         NEW login \in Names \cup {NotOpen}, Arrive(c, login), UNCHANGED <<scan, conn, name>>
  PROVE  /\ scan = "running"
         /\ ~ ready[ForgeOf[c]]
         /\ left' \in [Forges -> Nat]
         /\ ready' \in [Forges -> BOOLEAN]
         /\ GateCounts'
  <1> DEFINE f == ForgeOf[c]
  <1>1. f \in Forges
    BY ForgeType
  <1>2. scan = "running" /\ c \in Arriving(f)
    BY ForgeType DEF GateInv, PlaceInv, Ends, Arriving
  <1>3. left[f] = Cardinality(Arriving(f)) /\ left[f] \in Nat /\ ~ ready[f]
    BY <1>1, <1>2 DEF GateInv, GateCounts, TypeOK
  <1>4. Arriving(f)' = Arriving(f) \ {c}
    BY DEF Arriving, ConnsOf, GateInv, TypeOK
  <1>5. ASSUME NEW g \in Forges, g # f
        PROVE  Arriving(g)' = Arriving(g)
    BY <1>5 DEF Arriving, ConnsOf, GateInv, TypeOK
  <1>6. /\ Cardinality(Arriving(f)') = left[f] - 1
        /\ IsFiniteSet(Arriving(f)')
        /\ left[f] - 1 \in Nat
    <2>1. IsFiniteSet(Arriving(f))
      BY ArrivingFinite
    <2>2. Cardinality(Arriving(f) \ {c}) = left[f] - 1 /\ IsFiniteSet(Arriving(f) \ {c})
      BY <1>2, <1>3, <2>1, FS_RemoveElement
    <2>3. Cardinality(Arriving(f) \ {c}) \in Nat
      BY <2>2, FS_CardinalityType
    <2>4. QED
      BY <1>4, <2>2, <2>3
  <1>7. left[f] - 1 = 0 <=> Arriving(f)' = {}
    BY <1>6, FS_EmptySet
  <1>8. /\ left' = [left EXCEPT ![f] = left[f] - 1]
        /\ ready' = [ready EXCEPT ![f] = left[f] - 1 = 0 \/ ready[f]]
    BY DEF Arrive
  <1>9. left' \in [Forges -> Nat] /\ ready' \in [Forges -> BOOLEAN]
    BY <1>1, <1>6, <1>8 DEF GateInv, TypeOK
  <1>10. ASSUME NEW g \in Forges
         PROVE  left'[g] = Cardinality(Arriving(g)') /\ (ready'[g] <=> Arriving(g)' = {})
    <2>1. CASE g = f
      BY <1>1, <1>3, <1>6, <1>7, <1>8, <2>1 DEF GateInv, TypeOK
    <2>2. CASE g # f
      BY <1>2, <1>5, <1>8, <2>2 DEF GateInv, TypeOK, GateCounts
    <2>3. QED
      BY <2>1, <2>2
  <1>11. QED
    BY <1>2, <1>3, <1>9, <1>10 DEF GateCounts

LEMMA GateInit == Init => GateInv
  <1> SUFFICES ASSUME Init PROVE GateInv
    OBVIOUS
  <1>1. TypeOK
    BY DEF Init, TypeOK, Ends
  <1>2. PlaceInv
    BY DEF Init, PlaceInv, Ends
  <1>3. GateCounts
    BY DEF Init, GateCounts
  <1>4. QED
    BY <1>1, <1>2, <1>3 DEF GateInv

LEMMA StartGate ==
  ASSUME GateInv, StartScan
  PROVE  GateInv'
  <1>1. \A f \in Forges : Cardinality(ConnsOf(f)) \in Nat
    BY ArrivingFinite, FS_CardinalityType
  <1>2. TypeOK'
    BY <1>1 DEF GateInv, TypeOK, StartScan, Steps
  <1>3. PlaceInv'
    BY DEF StartScan, PlaceInv, Holding
  <1>4. \A f : Arriving(f)' = ConnsOf(f)
    BY DEF StartScan, Arriving, ConnsOf
  <1>5. \A f \in Forges : ConnsOf(f) # {}
    BY DEF Forges, ConnsOf
  <1>6. GateCounts'
    BY <1>4, <1>5 DEF StartScan, GateCounts
  <1>7. QED
    BY <1>2, <1>3, <1>6 DEF GateInv

LEMMA ScansGate ==
  ASSUME GateInv, NEW c \in Conns, Scans(c) \/ GiveUp(c)
  PROVE  GateInv'
  <1>0. AccountOf[c] \in Accounts
    BY ForgeType
  <1>1. CASE Reuse(c) \/ Opens(c) \/ OpenFails(c)
    <2>1. pc[c] = "start" /\ pc' = [pc EXCEPT ![c] = pc'[c]] /\ pc'[c] \in {"opened", "failed"}
      BY <1>1 DEF Reuse, Opens, OpenFails, GateInv, TypeOK
    <2>2. TypeOK'
      BY <1>0, <1>1 DEF GateInv, TypeOK, Reuse, Opens, OpenFails, Steps, gate
    <2>3. PlaceInv'
      BY <1>0, <1>1, NotOpenAssumption
      DEF GateInv, TypeOK, PlaceInv, Reuse, Opens, OpenFails, Ends, Holding, gate
    <2>4. \A f \in Forges : Arriving(f)' = Arriving(f)
      BY <2>1 DEF Arriving, ConnsOf, GateInv, TypeOK
    <2>5. UNCHANGED <<scan, gate>>
      BY <1>1 DEF Reuse, Opens, OpenFails
    <2>6. QED
      BY <2>2, <2>3, <2>4, <2>5, GateKept DEF GateInv
  <1>2. CASE ArriveOpen(c)
    <2>1. conn[c] \in Names \cup {NotOpen}
      BY DEF GateInv, TypeOK
    <2>2. /\ left' \in [Forges -> Nat]
          /\ ready' \in [Forges -> BOOLEAN]
          /\ GateCounts'
      BY <1>2, <2>1, ArriveCounts DEF ArriveOpen
    <2>3. TypeOK'
      BY <1>2, <2>1, <2>2 DEF GateInv, TypeOK, ArriveOpen, Arrive, Steps
    <2>4. PlaceInv'
      BY <1>2 DEF GateInv, TypeOK, PlaceInv, ArriveOpen, Arrive, Ends, Holding
    <2>5. QED
      BY <2>2, <2>3, <2>4 DEF GateInv
  <1>3. CASE ArriveUnopened(c)
    <2>1. /\ left' \in [Forges -> Nat]
          /\ ready' \in [Forges -> BOOLEAN]
          /\ GateCounts'
      BY <1>3, ArriveCounts DEF ArriveUnopened
    <2>2. TypeOK'
      BY <1>3, <2>1 DEF GateInv, TypeOK, ArriveUnopened, Arrive, Ends
    <2>3. PlaceInv'
      BY <1>3 DEF GateInv, TypeOK, PlaceInv, ArriveUnopened, Arrive, Ends, Holding
    <2>4. QED
      BY <2>1, <2>2, <2>3 DEF GateInv
  <1>4. CASE Proceed(c) \/ Refuse(c) \/ Finish(c) \/ GiveUp(c)
    <2>1. /\ pc[c] \in {"waiting", "reading"}
          /\ pc' = [pc EXCEPT ![c] = pc'[c]]
          /\ pc'[c] \in {"reading", "refused", "read", "cut"}
      BY <1>4 DEF Proceed, Refuse, Finish, GiveUp, GateInv, TypeOK
    <2>2. TypeOK'
      BY <1>4 DEF GateInv, TypeOK, Proceed, Refuse, Finish, GiveUp, Steps, Ends, gate
    <2>3. PlaceInv'
      BY <1>4 DEF GateInv, TypeOK, PlaceInv, Proceed, Refuse, Finish, GiveUp, Ends, Holding, gate
    <2>4. \A f \in Forges : Arriving(f)' = Arriving(f)
      BY <2>1 DEF Arriving, ConnsOf, GateInv, TypeOK
    <2>5. UNCHANGED <<scan, gate>>
      BY <1>4 DEF Proceed, Refuse, Finish, GiveUp
    <2>6. QED
      BY <2>2, <2>3, <2>4, <2>5, GateKept DEF GateInv
  <1>5. QED
    BY <1>1, <1>2, <1>3, <1>4 DEF Scans

LEMMA CollectorGate ==
  ASSUME GateInv, EndScan \/ Close \/ New \/ Rename \/ UNCHANGED vars
  PROVE  GateInv'
  <1>1. TypeOK'
    BY DEF GateInv, TypeOK, EndScan, Close, New, Rename, vars, gate
  <1>2. PlaceInv'
    BY DEF GateInv, PlaceInv, EndScan, Close, New, Rename, vars, gate
  <1>3. GateCounts'
    <2>1. \A f : Arriving(f)' = Arriving(f)
      BY DEF Arriving, ConnsOf, EndScan, Close, New, Rename, vars
    <2>2. QED
      BY <2>1 DEF GateInv, GateCounts, EndScan, Close, New, Rename, vars, gate
  <1>4. QED
    BY <1>1, <1>2, <1>3 DEF GateInv

LEMMA GateStep == GateInv /\ [Next]_vars => GateInv'
  BY StartGate, ScansGate, CollectorGate DEF Next

(* A gate's count, its ready channel and the logins it knows are of their   *)
(* types, and the gate opens exactly when every connection of the forge has *)
(* arrived: arrive (collect.go) is called once on each path of readConn.    *)
THEOREM GateOpensOnce == Spec => [](TypeOK /\ GateCounts)
  <1>1. GateInv => TypeOK /\ GateCounts
    BY DEF GateInv
  <1>2. QED
    BY <1>1, GateInit, GateStep, PTL DEF Spec

-----------------------------------------------------------------------------
(* The order. *)

(* Once a gate is open no login it knows changes. *)
LEMMA OpenGateFixed ==
  ASSUME GateInv, NEW c \in Conns, Scans(c) \/ GiveUp(c)
  PROVE  /\ \A f \in Forges : ready[f] => ready'[f]
         /\ \A d \in Conns : ready[ForgeOf[d]] => logins'[d] = logins[d]
  <1>1. CASE ArriveOpen(c) \/ ArriveUnopened(c)
    <2>1. PICK login \in Names \cup {NotOpen} :
             /\ Arrive(c, login)
             /\ pc[c] \in {"failed", "opened"}
      BY <1>1 DEF ArriveOpen, ArriveUnopened, GateInv, TypeOK
    <2>2. c \in Arriving(ForgeOf[c]) /\ scan = "running"
      BY <2>1, ForgeType DEF Arriving, GateInv, PlaceInv, Ends
    <2>3. ~ ready[ForgeOf[c]]
      BY <2>2, ForgeType DEF GateInv, GateCounts
    <2>4. QED
      BY <2>1, <2>3 DEF Arrive, GateInv, TypeOK
  <1>2. CASE UNCHANGED gate
    BY <1>2 DEF gate
  <1>3. QED
    BY <1>1, <1>2 DEF Scans, Reuse, Opens, OpenFails, Proceed, Refuse, Finish, GiveUp

(* A refusal is for the earliest connection on the login, and that one      *)
(* reads, has read, or will unless its context ends.                        *)
LEMMA RefusedForFirst ==
  ASSUME GateInv, OrderInv, NEW c \in Conns, Refuse(c)
  PROVE  /\ logins[c] # NotOpen
         /\ \E j \in Conns : FirstOn(j, c) /\ pc[j] \in Holding
  <1>1. /\ scan = "running"
        /\ ready[ForgeOf[c]]
        /\ logins[c] = conn[c] /\ conn[c] # NotOpen
    BY DEF Refuse, GateInv, PlaceInv, Ends, Holding
  <1>2. Earlier(c) \subseteq Conns /\ Earlier(c) # {}
    BY DEF Refuse, Earlier, ConnsOf
  <1>3. PICK j \in Earlier(c) : \A i \in Earlier(c) : j <= i
    BY <1>2, EarliestExists
  <1>4. /\ j \in Conns /\ j \in ConnsOf(ForgeOf[c]) /\ ForgeOf[j] = ForgeOf[c]
        /\ j < c /\ logins[j] = logins[c]
    BY <1>1, <1>3 DEF Earlier, ConnsOf
  <1>5. ASSUME NEW i \in ConnsOf(ForgeOf[c]), i < j
        PROVE  logins[i] # logins[c]
    <2>1. i \in Nat /\ j \in Nat /\ c \in Nat
      BY <1>4, ConnsAssumption DEF ConnsOf
    <2>2. i < c /\ ~ (j <= i)
      BY <1>4, <1>5, <2>1
    <2>3. i \notin Earlier(c)
      BY <1>3, <2>2
    <2>4. QED
      BY <1>1, <2>2, <2>3 DEF Earlier
  <1>6. FirstOn(j, c)
    BY <1>4, <1>5 DEF FirstOn
  <1>7. pc[j] \in Holding
    <2>1. j \notin Arriving(ForgeOf[c])
      BY <1>1, ForgeType DEF GateInv, GateCounts
    <2>2. pc[j] \notin {"start", "failed", "opened", "idle", "unopened"}
      BY <1>1, <1>4, <2>1 DEF Arriving, GateInv, PlaceInv
    <2>3. pc[j] # "refused"
      <3>1. SUFFICES ASSUME pc[j] = "refused" PROVE FALSE
        OBVIOUS
      <3>2. PICK i \in Conns : FirstOn(i, j)
        BY <1>4, <3>1 DEF OrderInv
      <3>3. QED
        BY <1>4, <1>5, <3>2 DEF FirstOn
    <2>4. QED
      BY <1>4, <2>2, <2>3 DEF GateInv, TypeOK, Ends, Steps, Holding
  <1>8. QED
    BY <1>1, <1>4, <1>6, <1>7

LEMMA OrderInit == Init => OrderInv
  BY DEF Init, OrderInv

(* The first connection on a login is never refused: none is before it. *)
LEMMA FirstHolds ==
  ASSUME GateInv, NEW c \in Conns, Scans(c) \/ GiveUp(c),
         NEW j \in Conns, NEW d \in Conns,
         ready[ForgeOf[d]], logins[d] # NotOpen, FirstOn(j, d), pc[j] \in Holding
  PROVE  pc'[j] \in Holding
  <1>1. CASE j # c
    BY <1>1 DEF Scans, Reuse, Opens, OpenFails, ArriveOpen, ArriveUnopened, Proceed, Refuse,
                Finish, GiveUp, GateInv, TypeOK
  <1>2. CASE j = c
    <2>1. ForgeOf[c] = ForgeOf[d] /\ j < d
      BY <1>2 DEF FirstOn, ConnsOf
    <2>2. ~ Refuse(c)
      <3>1. SUFFICES ASSUME Refuse(c) PROVE FALSE
        OBVIOUS
      <3>2. logins[c] = conn[c]
        BY <3>1 DEF Refuse, GateInv, PlaceInv, Ends, Holding
      <3>3. PICK i \in ConnsOf(ForgeOf[c]) : i < c /\ logins[i] = conn[c]
        BY <3>1 DEF Refuse, Earlier
      <3>4. QED
        BY <1>2, <2>1, <3>2, <3>3 DEF FirstOn
    <2>3. pc[c] \in {"waiting", "reading", "read", "cut"}
      BY <1>2 DEF Holding
    <2>4. Proceed(c) \/ Finish(c) \/ GiveUp(c)
      BY <2>2, <2>3 DEF Scans, Reuse, Opens, OpenFails, ArriveOpen, ArriveUnopened
    <2>5. QED
      BY <1>2, <2>4 DEF Proceed, Finish, GiveUp, Holding, GateInv, TypeOK
  <1>3. QED
    BY <1>1, <1>2

LEMMA OrderScans ==
  ASSUME GateInv, OrderInv, NEW c \in Conns, Scans(c) \/ GiveUp(c)
  PROVE  OrderInv'
  <1>1. /\ \A f \in Forges : ready[f] => ready'[f]
        /\ \A d \in Conns : ready[ForgeOf[d]] => logins'[d] = logins[d]
    BY OpenGateFixed
  <1>2. ASSUME NEW d \in Conns, pc'[d] = "reading"
        PROVE  ready'[ForgeOf[d]] /\ Earlier(d)' = {}
    <2>1. ready[ForgeOf[d]] /\ Earlier(d) = {} /\ conn'[d] = conn[d]
      <3>1. CASE d = c
        BY <1>2, <3>1 DEF Scans, Reuse, Opens, OpenFails, ArriveOpen, ArriveUnopened, Proceed,
                          Refuse, Finish, GiveUp, GateInv, TypeOK
      <3>2. CASE d # c
        BY <1>2, <3>2 DEF Scans, Reuse, Opens, OpenFails, ArriveOpen, ArriveUnopened, Proceed,
                          Refuse, Finish, GiveUp, GateInv, TypeOK, OrderInv
      <3>3. QED
        BY <3>1, <3>2
    <2>2. \A j \in ConnsOf(ForgeOf[d]) : logins'[j] = logins[j]
      BY <1>1, <2>1 DEF ConnsOf
    <2>3. QED
      BY <1>1, <2>1, <2>2, ForgeType DEF Earlier, ConnsOf
  <1>3. ASSUME NEW d \in Conns, pc'[d] = "refused"
        PROVE  /\ ready'[ForgeOf[d]]
               /\ logins'[d] # NotOpen
               /\ \E j \in Conns : FirstOn(j, d)' /\ pc'[j] \in Holding
    <2>1. /\ ready[ForgeOf[d]]
          /\ logins[d] # NotOpen
          /\ \E j \in Conns : FirstOn(j, d) /\ pc[j] \in Holding
      <3>1. CASE d = c
        <4>1. pc[c] # "refused"
          BY DEF Scans, Reuse, Opens, OpenFails, ArriveOpen, ArriveUnopened, Proceed, Refuse,
                 Finish, GiveUp
        <4>2. Refuse(c)
          BY <1>3, <3>1, <4>1 DEF Scans, Reuse, Opens, OpenFails, ArriveOpen, ArriveUnopened,
                                  Proceed, Finish, GiveUp, GateInv, TypeOK
        <4>3. QED
          BY <3>1, <4>2, RefusedForFirst DEF Refuse
      <3>2. CASE d # c
        <4>1. pc[d] = "refused"
          BY <1>3, <3>2 DEF Scans, Reuse, Opens, OpenFails, ArriveOpen, ArriveUnopened, Proceed,
                            Refuse, Finish, GiveUp, GateInv, TypeOK
        <4>2. QED
          BY <4>1 DEF OrderInv
      <3>3. QED
        BY <3>1, <3>2
    <2>2. PICK j \in Conns : FirstOn(j, d) /\ pc[j] \in Holding
      BY <2>1
    <2>3. \A i \in ConnsOf(ForgeOf[d]) : logins'[i] = logins[i]
      BY <1>1, <2>1 DEF ConnsOf
    <2>4. logins'[d] = logins[d]
      BY <1>1, <2>1
    <2>5. FirstOn(j, d)'
      BY <2>2, <2>3, <2>4 DEF FirstOn, ConnsOf
    <2>6. pc'[j] \in Holding
      BY <2>1, <2>2, FirstHolds
    <2>7. QED
      BY <1>1, <2>1, <2>4, <2>5, <2>6, ForgeType
  <1>4. QED
    BY <1>2, <1>3 DEF OrderInv

LEMMA OrderStep == GateInv /\ OrderInv /\ [Next]_vars => OrderInv'
  <1> SUFFICES ASSUME GateInv, OrderInv, [Next]_vars PROVE OrderInv'
    OBVIOUS
  <1>1. CASE StartScan
    BY <1>1 DEF StartScan, OrderInv
  <1>2. CASE \E c \in Conns : Scans(c) \/ GiveUp(c)
    BY <1>2, OrderScans
  <1>3. CASE EndScan \/ New \/ Rename \/ UNCHANGED vars
    <2>1. UNCHANGED <<pc, conn, gate>>
      BY <1>3 DEF EndScan, New, Rename, vars, gate
    <2>2. QED
      BY <2>1 DEF OrderInv, Earlier, FirstOn, gate
  <1>4. CASE Close
    <2>1. \A c \in Conns : pc[c] # "reading"
      BY <1>4 DEF Close, GateInv, PlaceInv, Ends
    <2>2. UNCHANGED <<pc, gate>>
      BY <1>4 DEF Close
    <2>3. QED
      BY <2>1, <2>2 DEF OrderInv, FirstOn, gate
  <1>5. QED
    BY <1>1, <1>2, <1>3, <1>4 DEF Next

(* Of the open connections on one login of a forge only the earliest        *)
(* configured reads, over any number of scans and failed opens and even     *)
(* when accounts are renamed: accountGate and sharedAccount.                *)
THEOREM OnlyEarliestReads == Spec => []EarliestReads
  <1>1. GateInv /\ OrderInv => EarliestReads
    <2> SUFFICES ASSUME GateInv, OrderInv, NEW c \in Conns, NEW d \in Conns,
                        ForgeOf[c] = ForgeOf[d], c < d, pc[d] = "reading", conn[c] = conn[d]
                 PROVE  FALSE
      BY DEF EarliestReads
    <2>1. ready[ForgeOf[d]] /\ Earlier(d) = {} /\ scan = "running" /\ conn[d] # NotOpen
      BY DEF OrderInv, GateInv, PlaceInv, Ends, Holding
    <2>2. pc[c] \notin {"start", "failed", "opened"}
      BY <2>1, ForgeType DEF GateInv, GateCounts, Arriving, ConnsOf
    <2>3. pc[c] \in Holding
      BY <2>1, <2>2 DEF GateInv, TypeOK, PlaceInv, Ends, Steps, Holding
    <2>4. logins[c] = conn[d]
      BY <2>1, <2>3 DEF GateInv, PlaceInv
    <2>5. QED
      BY <2>1, <2>4 DEF Earlier, ConnsOf
  <1>2. QED
    BY <1>1, GateInit, GateStep, OrderInit, OrderStep, PTL DEF Spec

(* A refusal names a connection that reads, so the gate never refuses all   *)
(* of an account's connections.                                             *)
THEOREM SomeoneReads == Spec => []RefusedForAReader
  <1>1. OrderInv => RefusedForAReader
    BY DEF OrderInv, RefusedForAReader, FirstOn, Holding
  <1>2. QED
    BY <1>1, GateInit, GateStep, OrderInit, OrderStep, PTL DEF Spec

-----------------------------------------------------------------------------
(* Where accounts keep their logins. *)

LEMMA LoginStep ==
  ASSUME MayRename = FALSE
  PROVE  GateInv /\ LoginInv /\ [Next]_vars => LoginInv'
  <1> SUFFICES ASSUME GateInv, LoginInv, [Next]_vars PROVE LoginInv'
    OBVIOUS
  <1>1. ASSUME NEW c \in Conns, Scans(c) \/ GiveUp(c)
        PROVE  LoginInv'
    <2>1. CASE Opens(c)
      BY <2>1 DEF Opens, LoginInv, GateInv, TypeOK
    <2>2. CASE Refuse(c)
      BY <2>2 DEF Refuse, LoginInv, GateInv, TypeOK
    <2>3. CASE UNCHANGED <<conn, name>>
      BY <2>3 DEF LoginInv
    <2>4. QED
      BY <1>1, <2>1, <2>2, <2>3
      DEF Scans, Reuse, OpenFails, ArriveOpen, ArriveUnopened, Proceed, Finish, GiveUp
  <1>2. CASE Close
    BY <1>2 DEF Close, LoginInv
  <1>3. CASE StartScan \/ EndScan \/ New \/ UNCHANGED vars
    BY <1>3 DEF StartScan, EndScan, New, vars, LoginInv
  <1>4. ~ Rename
    BY DEF Rename
  <1>5. QED
    BY <1>1, <1>2, <1>3, <1>4 DEF Next

(* While no account changes its login, no two connections read one account  *)
(* at once: the login the gate compares, which each connection keeps from   *)
(* its own open (Client.Login), then tells accounts apart.                  *)
THEOREM OneReader ==
  ASSUME MayRename = FALSE
  PROVE  Spec => []OneReaderPerAccount
  <1>1. Init => LoginInv
    BY DEF Init, LoginInv
  <1>2. GateInv /\ LoginInv /\ [Next]_vars => LoginInv'
    BY LoginStep
  <1>3. GateInv /\ LoginInv /\ EarliestReads => OneReaderPerAccount
    <2> SUFFICES ASSUME GateInv, LoginInv, EarliestReads, NEW c \in Conns, NEW d \in Conns,
                        pc[c] = "reading", pc[d] = "reading",
                        ForgeOf[c] = ForgeOf[d], AccountOf[c] = AccountOf[d]
                 PROVE  c = d
      BY DEF OneReaderPerAccount
    <2>1. conn[c] # NotOpen /\ conn[d] # NotOpen
      BY DEF GateInv, PlaceInv, Ends, Holding
    <2>2. conn[c] = conn[d]
      BY <2>1 DEF LoginInv
    <2>3. ~ (c < d) /\ ~ (d < c)
      BY <2>2 DEF EarliestReads
    <2>4. c \in Nat /\ d \in Nat
      BY ConnsAssumption
    <2>5. QED
      BY <2>3, <2>4
  <1>4. QED
    BY <1>1, <1>2, <1>3, GateInit, GateStep, OnlyEarliestReads, PTL DEF Spec
=============================================================================
