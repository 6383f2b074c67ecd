--------------------------- MODULE MeteringProofs ---------------------------
(***************************************************************************)
(* What holds of Metering for any window, any reserve and any number of    *)
(* requests: its types, that the quota meter accounts for all the          *)
(* connection sent, that the breaker is the scan's, that a line charges    *)
(* what was sent and billed, and that the counts implement Bill.           *)
(***************************************************************************)
EXTENDS Metering, TLAPS

TruthType ==
    /\ truth \in [owed : Nat, guessed : Nat, mine : Nat, heard : BOOLEAN,
                  sent : [Phases -> Nat], rest : [Phases -> Nat]]
    /\ truth.mine <= truth.guessed

(* A connection opens, and asks, only in a scan. *)
PhaseInv ==
    /\ stage \in {"opening", "named"} => phase = "open"
    /\ call # NoCall => stage \in {"opening", "named"} \/ phase \in Reads

(* Where the connection stands, and what its meters know of the product. *)
StageInv ==
    /\ stage = "opening" => spend.product = "unknown"
    /\ stage \in {"named", "open"} => spend.product = forge.product
    /\ quota.armed => GitHub /\ stage # "opening"
    /\ stage \in {"named", "open"} /\ GitHub => quota.armed
    /\ ~quota.armed => quota.pools["core"].left = None

(* What a request under way was asked, and what its answer can be. *)
CallInv == call # NoCall =>
    /\ call.client = "rest" => GitHub /\ phase \in Reads
    /\ call.client = "forgeapi" /\ phase \in Reads => ~truth.heard
    /\ call.answer # Unsent =>
          /\ call.answer.outcome = "absent" =>
                GitHub /\ stage = "opening" /\ ~Known(call.answer.budget.left)
          /\ call.answer.outcome = "forbidden" => GitHub

HeardInv ==
    /\ phase = "open" \/ ~GitHub => ~truth.heard
    /\ BreakerIsTheScans

(* The meter once it has seen the answer under way. *)
Caught == IF call # NoCall /\ call.answer # Unsent THEN SeeAttempt(quota, call.answer) ELSE quota

(* What GitHub would have left had nobody else drawn since its last report. *)
Ours == forge.left + forge.drawn

QuotaInv == Pool(Caught, "core") <= Ours

(* What of the guesses is the open's: the pending answers GitHub does not bill. *)
MineInv ==
    /\ phase # "idle" /\ stage # "opening" => truth.mine = 0
    /\ stage = "opening" =>
          truth.mine = IF GitHub THEN spend.pending - spend.pendingGitHub ELSE 0

(* What the book says of a phase once the one under way is charged. *)
Due(p) == IF p = phase THEN Plus(book.by[p], Minus(Spent(spend), book.at)) ELSE book.by[p]

BookInv == \A p \in Phases :
    /\ Due(p).sent = truth.sent[p]
    /\ Due(p).rest = truth.rest[p] + IF p = "open" THEN truth.mine ELSE 0

-----------------------------------------------------------------------------
(* The quota meter (Quota). *)

LEMMA NewMeterType == NewMeter \in Meters /\ Pool(NewMeter, "core") = None /\ ~NewMeter.armed /\ ~NewMeter.refused
  BY ReserveAssumption DEF NewMeter, Meters, Pools, Budgets, Counts, None, Pool

LEMMA BudgetType ==
  ASSUME NEW q \in Meters, NEW p \in Pools
  PROVE  /\ q.pools[p] \in Budgets
         /\ q.pools[p].left \in Counts /\ q.pools[p].lapsed \in BOOLEAN
         /\ Pool(q, p) \in Int /\ Pool(q, p) <= Limit
  BY ReserveAssumption DEF Meters, Budgets, Counts, Pool, None

(* An attempt that reported no count takes one from what the meter knows of
   the REST pool, and nothing from a count that has lapsed. *)
LEMMA SpendOneType ==
  ASSUME NEW q \in Meters
  PROVE  /\ SpendOne(q) \in Meters
         /\ SpendOne(q).armed = q.armed /\ SpendOne(q).refused = q.refused
         /\ Pool(SpendOne(q), "core") =
               IF Pool(q, "core") > 0 THEN Pool(q, "core") - 1 ELSE Pool(q, "core")
<1>1. "core" \in Pools
  BY DEF Pools
<1>2. q.pools["core"] \in Budgets /\ q.pools["core"].left \in Counts /\ q.pools["core"].lapsed \in BOOLEAN
  BY <1>1, BudgetType
<1>3. CASE Known(Pool(q, "core")) /\ q.pools["core"].left > 0
  <2>1. SpendOne(q) = [q EXCEPT !.pools = [q.pools EXCEPT !["core"] = [q.pools["core"] EXCEPT !.left = q.pools["core"].left - 1]]]
    BY <1>3 DEF SpendOne
  <2>2. [q.pools["core"] EXCEPT !.left = q.pools["core"].left - 1] \in Budgets
    BY <1>2, <1>3, ReserveAssumption DEF Budgets, Counts, None
  <2>3. QED
    BY <1>1, <1>2, <1>3, <2>1, <2>2, ReserveAssumption DEF Meters, Pool, Known, None, Budgets, Counts
<1>4. CASE ~(Known(Pool(q, "core")) /\ q.pools["core"].left > 0)
  BY <1>2, <1>4, ReserveAssumption DEF SpendOne, Pool, Known, None, Counts
<1>5. QED
  BY <1>3, <1>4

LEMMA SeeAttemptType ==
  ASSUME NEW q \in Meters, NEW a \in Answers
  PROVE  /\ SeeAttempt(q, a) \in Meters
         /\ SeeAttempt(q, a).armed = q.armed /\ SeeAttempt(q, a).refused = q.refused
<1>1. a.budget \in Budgets /\ a.pool \in Pools
  BY DEF Answers
<1>2. CASE Known(a.budget.left)
  BY <1>1, <1>2 DEF SeeAttempt, Account, Meters
<1>3. CASE ~Known(a.budget.left)
  BY <1>3, SpendOneType DEF SeeAttempt, Account
<1>4. QED
  BY <1>2, <1>3

LEMMA SeeFinalType ==
  ASSUME NEW q \in Meters, NEW a \in Answers
  PROVE  /\ SeeFinal(q, a) \in Meters
         /\ SeeFinal(q, a).armed = q.armed /\ Pool(SeeFinal(q, a), "core") = Pool(q, "core")
         /\ SeeFinal(q, a).refused = (q.refused \/ (q.armed /\ Refuses(a)))
  BY DEF SeeFinal, Meters, Pool

-----------------------------------------------------------------------------
(* The spend meter and its book (Spend). *)

SpendMeters == [spent : Spends, product : Products, pending : Nat, pendingGitHub : Nat]

(* What is pending is priced by a product, and GitHub bills no more of it. *)
Priced(m) == m.pendingGitHub <= m.pending /\ (m.product # "unknown" => m.pending = 0)

LEMMA SpentType ==
  ASSUME NEW m \in SpendMeters
  PROVE  /\ Spent(m) \in Spends
         /\ Spent(m).sent = m.spent.sent /\ Spent(m).docs = m.spent.docs
         /\ Spent(m).rest = m.spent.rest + m.pending
  BY DEF SpendMeters, Spends, Spent

LEMMA SpendsEqual ==
  ASSUME NEW s \in Spends, NEW t \in Spends, s.sent = t.sent, s.rest = t.rest, s.docs = t.docs
  PROVE  s = t
  BY DEF Spends

LEMMA SumType ==
  ASSUME NEW s \in Spends, NEW t \in Spends
  PROVE  /\ Plus(s, t) \in Spends /\ Minus(s, t) \in Spends
         /\ Plus(s, t).sent = s.sent + t.sent /\ Minus(s, t).sent = s.sent - t.sent
         /\ Plus(s, t).rest = s.rest + t.rest /\ Minus(s, t).rest = s.rest - t.rest
<1>1. DOMAIN s = {"sent", "rest", "docs"}
  BY DEF Spends
<1>2. s.sent \in Int /\ s.rest \in Int /\ s.docs \in Int /\ t.sent \in Int /\ t.rest \in Int /\ t.docs \in Int
  BY DEF Spends
<1>3. /\ Plus(s, t) = [sent |-> s.sent + t.sent, rest |-> s.rest + t.rest, docs |-> s.docs + t.docs]
      /\ Minus(s, t) = [sent |-> s.sent - t.sent, rest |-> s.rest - t.rest, docs |-> s.docs - t.docs]
  BY <1>1 DEF Plus, Minus
<1>4. QED
  BY <1>2, <1>3 DEF Spends

LEMMA NewSpendType == NewSpend \in SpendMeters /\ Priced(NewSpend)
  BY DEF NewSpend, SpendMeters, Spends, Products, Zero, Priced

(* A new open keeps the count: what it settles was counted already. *)
LEMMA DetectKeeps ==
  ASSUME NEW m \in SpendMeters
  PROVE  /\ Detect(m) \in SpendMeters /\ Priced(Detect(m))
         /\ Spent(Detect(m)) = Spent(m)
         /\ Detect(m).product = "unknown" /\ Detect(m).pending = 0 /\ Detect(m).pendingGitHub = 0
<1>1. Spent(m) \in Spends
  BY SpentType
<1>2. /\ Detect(m) = [spent |-> Spent(m), product |-> "unknown", pending |-> 0, pendingGitHub |-> 0]
      /\ Detect(m) \in SpendMeters
  BY <1>1 DEF Detect, NewSpend, SpendMeters, Products
<1>3. Detect(m).spent = Spent(m) /\ Detect(m).pending = 0
  BY <1>2
<1>4. Spent(Detect(m)) = Spent(m)
  BY <1>1, <1>2, <1>3, SpentType, SpendsEqual DEF Spends
<1>5. QED
  BY <1>2, <1>4 DEF Priced

(* The product takes back what is pending and not its own. *)
LEMMA NameTakesBack ==
  ASSUME NEW m \in SpendMeters, NEW p \in {"github", "other"}
  PROVE  /\ Name(m, p) \in SpendMeters /\ Priced(Name(m, p)) /\ Name(m, p).product = p
         /\ Spent(Name(m, p)).sent = Spent(m).sent
         /\ Spent(Name(m, p)).rest =
               Spent(m).rest - IF p = "github" THEN m.pending - m.pendingGitHub ELSE 0
<1>1. /\ m.spent \in Spends /\ m.pending \in Nat /\ m.pendingGitHub \in Nat
      /\ m.spent.sent \in Int /\ m.spent.rest \in Int
  BY DEF SpendMeters, Spends
<1> DEFINE k == IF p = "github" THEN m.pendingGitHub ELSE m.pending
<1>2. k \in Nat
  BY <1>1
<1> DEFINE s == [m.spent EXCEPT !.rest = m.spent.rest + k]
<1>3. s \in Spends /\ s.sent = m.spent.sent /\ s.rest = m.spent.rest + k
  BY <1>1, <1>2 DEF Spends
<1>a. Name(m, p) = [NewSpend EXCEPT !.product = p, !.spent = s]
  BY DEF Name
<1> HIDE DEF s
<1>4. Name(m, p) = [spent |-> s, product |-> p, pending |-> 0, pendingGitHub |-> 0]
  BY <1>a DEF NewSpend
<1>5. Name(m, p) \in SpendMeters
  BY <1>3, <1>4 DEF SpendMeters, Products
<1>6. Spent(Name(m, p)).sent = s.sent /\ Spent(Name(m, p)).rest = s.rest + 0
  BY <1>4, <1>5, SpentType
<1>7. QED
  BY <1>1, <1>3, <1>4, <1>5, <1>6, SpentType DEF Priced

(* What one attempt adds to the count, and to what is pending. *)
LEMMA SeeAdds ==
  ASSUME NEW m \in SpendMeters, Priced(m), NEW a \in Answers, NEW reports \in BOOLEAN
  PROVE  LET rest == a.outcome # "unanswered" /\ a.pool = "core"
             bills == rest /\ GitHubBills(a)
             n == See(m, a, reports)
         IN  /\ n \in SpendMeters /\ Priced(n) /\ n.product = m.product
             /\ Spent(n).sent = Spent(m).sent + 1
             /\ m.product = "unknown" =>
                   /\ Spent(n).rest = Spent(m).rest + IF rest THEN 1 ELSE 0
                   /\ n.pending = m.pending + IF rest THEN 1 ELSE 0
                   /\ n.pendingGitHub = m.pendingGitHub + IF bills /\ reports THEN 1 ELSE 0
             /\ m.product = "github" => Spent(n).rest = Spent(m).rest + IF bills THEN 1 ELSE 0
             /\ m.product = "other" => Spent(n).rest = Spent(m).rest + IF rest THEN 1 ELSE 0
<1>1. /\ m.spent \in Spends /\ m.product \in Products /\ m.pending \in Nat /\ m.pendingGitHub \in Nat
      /\ m.spent.sent \in Int /\ m.spent.rest \in Int /\ m.spent.docs \in Int
  BY DEF SpendMeters, Spends
<1>2. a.pool \in {"core", "graphql"}
  BY DEF Answers, Pools
<1> DEFINE n == See(m, a, reports)
<1>3. CASE a.outcome = "unanswered"
  <2> DEFINE t == [m.spent EXCEPT !.sent = m.spent.sent + 1]
  <2>1. t \in Spends /\ t.sent = m.spent.sent + 1 /\ t.rest = m.spent.rest
    BY <1>1 DEF Spends
  <2>2. n = [m EXCEPT !.spent = t]
    BY <1>3 DEF See
  <2> HIDE DEF t, n
  <2>3. /\ n \in SpendMeters /\ n.spent = t
        /\ n.product = m.product /\ n.pending = m.pending /\ n.pendingGitHub = m.pendingGitHub
    BY <1>1, <2>1, <2>2 DEF SpendMeters
  <2>4. Spent(n).sent = Spent(m).sent + 1 /\ Spent(n).rest = Spent(m).rest
    BY <1>1, <2>1, <2>3, SpentType
  <2>5. QED
    BY <1>1, <1>3, <2>3, <2>4, SpentType DEF Priced, n
<1>4. CASE a.outcome # "unanswered" /\ a.pool = "graphql"
  <2> DEFINE s == [m.spent EXCEPT !.sent = m.spent.sent + 1]
  <2> DEFINE t == [s EXCEPT !.docs = s.docs + 1]
  <2>a. s \in Spends /\ s.sent = m.spent.sent + 1 /\ s.rest = m.spent.rest
    BY <1>1 DEF Spends
  <2>2. n = [m EXCEPT !.spent = t]
    BY <1>4 DEF See
  <2> HIDE DEF s, n
  <2>1. t \in Spends /\ t.sent = m.spent.sent + 1 /\ t.rest = m.spent.rest
    BY <1>1, <2>a DEF Spends
  <2> HIDE DEF t, n
  <2>3. /\ n \in SpendMeters /\ n.spent = t
        /\ n.product = m.product /\ n.pending = m.pending /\ n.pendingGitHub = m.pendingGitHub
    BY <1>1, <2>1, <2>2 DEF SpendMeters
  <2>4. Spent(n).sent = Spent(m).sent + 1 /\ Spent(n).rest = Spent(m).rest
    BY <1>1, <2>1, <2>3, SpentType
  <2>5. QED
    BY <1>1, <1>4, <2>3, <2>4, SpentType DEF Priced, n
<1>5. CASE a.outcome # "unanswered" /\ a.pool = "core" /\ m.product = "unknown"
  <2> DEFINE t == [m.spent EXCEPT !.sent = m.spent.sent + 1]
  <2> DEFINE g == IF GitHubBills(a) /\ reports THEN 1 ELSE 0
  <2>1. t \in Spends /\ t.sent = m.spent.sent + 1 /\ t.rest = m.spent.rest /\ g \in 0..1
    BY <1>1 DEF Spends
  <2>2. n = [m EXCEPT !.spent = t, !.pending = m.pending + 1, !.pendingGitHub = m.pendingGitHub + g]
    BY <1>5 DEF See
  <2> HIDE DEF t, n, g
  <2>3. /\ n \in SpendMeters /\ n.spent = t
        /\ n.product = m.product /\ n.pending = m.pending + 1 /\ n.pendingGitHub = m.pendingGitHub + g
    <3>1. m.pending + 1 \in Nat /\ m.pendingGitHub + g \in Nat
      BY <1>1, <2>1
    <3>2. QED
      BY <1>1, <2>1, <2>2, <3>1 DEF SpendMeters
  <2>4. Spent(n).sent = Spent(m).sent + 1 /\ Spent(n).rest = Spent(m).rest + 1
    BY <1>1, <2>1, <2>3, SpentType
  <2>5. n.pendingGitHub <= n.pending
    BY <1>1, <2>1, <2>3 DEF Priced
  <2>6. QED
    BY <1>1, <1>5, <2>3, <2>4, <2>5 DEF Priced, n, g
<1>6. CASE a.outcome # "unanswered" /\ a.pool = "core" /\ m.product # "unknown"
  <2> DEFINE g == IF m.product # "github" \/ GitHubBills(a) THEN 1 ELSE 0
  <2> DEFINE s == [m.spent EXCEPT !.sent = m.spent.sent + 1]
  <2> DEFINE t == [s EXCEPT !.rest = s.rest + g]
  <2>a. g \in 0..1 /\ s \in Spends /\ s.sent = m.spent.sent + 1 /\ s.rest = m.spent.rest
    BY <1>1 DEF Spends
  <2>2. n = [m EXCEPT !.spent = t]
    BY <1>6 DEF See
  <2> HIDE DEF s, g, n
  <2>1. g \in 0..1 /\ t \in Spends /\ t.sent = m.spent.sent + 1 /\ t.rest = m.spent.rest + g
    BY <1>1, <2>a DEF Spends
  <2> HIDE DEF t, n, g
  <2>3. /\ n \in SpendMeters /\ n.spent = t
        /\ n.product = m.product /\ n.pending = m.pending /\ n.pendingGitHub = m.pendingGitHub
    BY <1>1, <2>1, <2>2 DEF SpendMeters
  <2>4. Spent(n).sent = Spent(m).sent + 1 /\ Spent(n).rest = Spent(m).rest + g
    BY <1>1, <2>1, <2>3, SpentType
  <2>5. QED
    BY <1>1, <1>6, <2>3, <2>4 DEF Priced, n, g
<1>7. QED
  BY <1>2, <1>3, <1>4, <1>5, <1>6

-----------------------------------------------------------------------------
(* The forge. *)

(* What an answer reports of a pool is what the forge has left of it, and one
   that reports nothing took one request at most. *)
LEMMA AnswersAreTrue ==
  ASSUME forge.left \in 0..Limit, NEW pool \in Pools, NEW r \in Answered(pool)
  PROVE  /\ r.a \in Answers /\ r.n \in 0..Limit
         /\ r.a.outcome = "absent" => GitHub /\ stage = "opening" /\ ~Known(r.a.budget.left)
         /\ r.a.outcome = "forbidden" => GitHub
         /\ r.a.pool = pool /\ ~r.a.budget.lapsed
         /\ Known(r.a.budget.left) /\ pool = "core" => r.a.budget.left = r.n
         /\ pool # "core" => r.n = forge.left
         /\ forge.left - 1 <= r.n /\ r.n <= forge.left
<1> DEFINE left == forge.left
<1> DEFINE spent == IF pool = "core" /\ left > 0 THEN left - 1 ELSE left
<1> DEFINE count(n) == IF ~GitHub THEN None ELSE IF pool = "core" THEN n ELSE Limit
<1> DEFINE says(o, n, b) == [a |-> [outcome |-> o, pool |-> pool, budget |-> [left |-> b, lapsed |-> FALSE]], n |-> n]
<1>1. /\ left \in 0..Limit /\ spent \in 0..Limit /\ left - 1 <= spent /\ left - 1 <= left
      /\ spent <= left /\ left <= left
      /\ pool # "core" => spent = left
      /\ \A n \in 0..Limit : count(n) \in Counts /\ (Known(count(n)) /\ pool = "core" => count(n) = n)
      /\ None \in Counts /\ ~Known(None) /\ 0 \in Counts
  BY ReserveAssumption DEF Counts, Known, None
<1>2. PICK o \in Outcomes, n \in {left, spent}, b \in Counts :
        /\ r = says(o, n, b)
        /\ o = "absent" => GitHub /\ stage = "opening" /\ b = None
        /\ o = "forbidden" => GitHub
        /\ Known(b) /\ pool = "core" => b = n
  <2>1. \/ \E n \in {left, spent} : r = says("unanswered", n, None)
        \/ GitHub /\ pool = "core" /\ left = 0 /\ r = says("throttled", 0, 0)
        \/ r = says("ok", spent, count(spent))
        \/ r = says("failed", spent, None)
        \/ r = says("unchanged", left, count(left))
        \/ GitHub /\ r = says("forbidden", spent, count(spent))
        \/ r = says("throttled", spent, count(spent))
        \/ GitHub /\ stage = "opening" /\ r = says("absent", left, None)
    BY DEF Answered
  <2> HIDE DEF says, spent, left, count
  <2>2. QED
    BY <1>1, <2>1 DEF Outcomes
<1>3. QED
  BY <1>1, <1>2 DEF Answers, Budgets

-----------------------------------------------------------------------------
(* Types. *)

LEMMA CallType ==
  ASSUME TypeOK, call # NoCall
  PROVE  /\ call \in [client : Clients, pool : Pools, answer : {Unsent} \cup Answers]
         /\ call.client \in Clients /\ call.pool \in Pools
         /\ call.answer # Unsent => call.answer \in Answers
  BY DEF TypeOK

(* Whether an answer is counted before it is known that the forge bills it. *)
Guessed(a) == stage = "opening" /\ a.pool = "core" /\ a.outcome # "unanswered" /\ ~Bills(a)

One(b) == IF b THEN 1 ELSE 0

(* What an answer adds to the history. *)
LEMMA NotedCounts ==
  ASSUME TruthType, phase \in Phases, NEW a, NEW final \in BOOLEAN, Noted(a, final)
  PROVE  /\ TruthType'
         /\ truth'.owed = truth.owed + One(Bills(a))
         /\ truth'.guessed = truth.guessed + One(Guessed(a))
         /\ truth'.mine = truth.mine + One(Guessed(a))
         /\ truth'.heard = (truth.heard \/ (final /\ phase \in Reads /\ Refuses(a)))
         /\ \A p \in Phases :
               /\ truth'.sent[p] = truth.sent[p] + One(p = phase)
               /\ truth'.rest[p] = truth.rest[p] + One(p = phase /\ Bills(a))
<1> DEFINE guess == One(Guessed(a))
<1> DEFINE bill == One(Bills(a))
<1> DEFINE hears == final /\ phase \in Reads /\ Refuses(a)
<1> DEFINE sent == [truth.sent EXCEPT ![phase] = @ + 1]
<1> DEFINE rest == [truth.rest EXCEPT ![phase] = @ + bill]
<1>1. truth' = [truth EXCEPT
          !.owed = @ + bill, !.guessed = @ + guess, !.mine = @ + guess,
          !.heard = @ \/ hears, !.sent = sent, !.rest = rest]
  BY DEF Noted, Guessed, One
<1>2. guess \in Nat /\ bill \in Nat /\ hears \in BOOLEAN
  BY DEF Refuses, One
<1>3. \A p \in Phases : One(p = phase) = (IF p = phase THEN 1 ELSE 0)
                       /\ One(p = phase /\ Bills(a)) = (IF p = phase THEN bill ELSE 0)
  BY DEF One
<1>4. /\ truth.owed \in Nat /\ truth.guessed \in Nat /\ truth.mine \in Nat /\ truth.heard \in BOOLEAN
      /\ truth.sent \in [Phases -> Nat] /\ truth.rest \in [Phases -> Nat]
  BY DEF TruthType
<1> HIDE DEF guess, bill, hears
<1>5. /\ sent \in [Phases -> Nat] /\ rest \in [Phases -> Nat]
      /\ \A p \in Phases : sent[p] = truth.sent[p] + One(p = phase)
                          /\ rest[p] = truth.rest[p] + One(p = phase /\ Bills(a))
  BY <1>2, <1>3, <1>4
<1> HIDE DEF sent, rest
<1>6. truth' = [owed |-> truth.owed + bill, guessed |-> truth.guessed + guess, mine |-> truth.mine + guess,
                heard |-> truth.heard \/ hears, sent |-> sent, rest |-> rest]
  BY <1>1 DEF TruthType
<1>7. TruthType'
  BY <1>2, <1>4, <1>5, <1>6 DEF TruthType
<1>8. QED
  BY <1>5, <1>6, <1>7 DEF guess, bill, hears

(* What the observers of an attempt make of the meters and of the history. *)
LEMMA SeesType ==
  ASSUME TypeOK, TruthType, phase \in Phases, NEW a \in Answers, NEW final \in BOOLEAN, Sees(a, final)
  PROVE  /\ quota' \in Meters /\ spend' \in SpendMeters /\ Priced(spend')
         /\ TruthType'
<1>1. quota \in Meters /\ spend \in SpendMeters /\ Priced(spend)
  BY DEF TypeOK, SpendMeters, Priced
<1>2. quota' \in Meters
  BY <1>1, SeeAttemptType, SeeFinalType DEF Sees
<1>3. spend' \in SpendMeters /\ Priced(spend')
  <2>1. Known(a.budget.left) \in BOOLEAN
    BY DEF Known
  <2>2. QED
    BY <1>1, <2>1, SeeAdds DEF Sees
<1>4. TruthType'
  BY NotedCounts DEF Sees
<1>5. QED
  BY <1>2, <1>3, <1>4

(* A renewal makes the meter forget, and touches no other pool. *)
LEMMA RenewType ==
  ASSUME TypeOK, Renew
  PROVE  /\ quota' \in Meters
         /\ quota'.armed = quota.armed /\ quota'.refused = quota.refused
         /\ quota'.pools["core"].left = quota.pools["core"].left
         /\ quota'.pools["core"].lapsed = Known(quota.pools["core"].left)
         /\ call' \in {NoCall} \cup [client : Clients, pool : Pools, answer : {Unsent} \cup Answers]
         /\ call' = NoCall <=> call = NoCall
         /\ call # NoCall =>
              /\ call'.client = call.client /\ call'.pool = call.pool
              /\ call'.answer = Unsent <=> call.answer = Unsent
              /\ call.answer # Unsent =>
                    /\ call'.answer.outcome = call.answer.outcome
                    /\ call'.answer.pool = call.answer.pool
                    /\ call'.answer.budget.left = call.answer.budget.left
<1>1. /\ quota' \in Meters
      /\ quota'.armed = quota.armed /\ quota'.refused = quota.refused
      /\ quota'.pools["core"].left = quota.pools["core"].left
      /\ quota'.pools["core"].lapsed = Known(quota.pools["core"].left)
  BY DEF TypeOK, Renew, Meters, Pools, Budgets, Known
<1>2. CASE call # NoCall /\ call.answer # Unsent /\ call.answer.pool = "core"
  <2> DEFINE n == [call.answer EXCEPT !.budget.lapsed = Known(call.answer.budget.left)]
  <2>1. call' = [call EXCEPT !.answer = n]
    BY <1>2 DEF Renew
  <2>2. call.answer \in Answers
    BY <1>2, CallType
  <2>3. /\ n \in Answers /\ n.outcome = call.answer.outcome /\ n.pool = call.answer.pool
        /\ n.budget.left = call.answer.budget.left
    BY <2>2 DEF Answers, Budgets, Known
  <2>4. n # Unsent /\ \A c \in [client : Clients, pool : Pools, answer : {Unsent} \cup Answers] : c # NoCall
    BY <2>3 DEF Answers, Unsent, NoCall
  <2> HIDE DEF n
  <2>5. QED
    BY <1>1, <1>2, <2>1, <2>3, <2>4, CallType
<1>3. CASE ~(call # NoCall /\ call.answer # Unsent /\ call.answer.pool = "core")
  BY <1>1, <1>3 DEF Renew, TypeOK
<1>4. QED
  BY <1>2, <1>3

(* What an answer makes of the forge (Answer). *)
Draws(r) == forge' = [forge EXCEPT !.left = r.n, !.drawn = IF ReportsRest(r.a) THEN 0 ELSE @]

(* GitHub has no more left after an answer, and others drew what they had
   drawn, or nothing since the count the answer reports. *)
LEMMA AnswerDraws ==
  ASSUME TypeOK, NEW pool \in Pools, NEW r \in Answered(pool), Draws(r)
  PROVE  /\ forge' \in [product : {"github", "other"}, left : 0..Limit, drawn : 0..Limit]
         /\ forge'.product = forge.product /\ forge'.left = r.n
         /\ forge'.drawn = IF ReportsRest(r.a) THEN 0 ELSE forge.drawn
         /\ forge'.left + forge'.drawn <= Limit
<1>1. /\ forge \in [product : {"github", "other"}, left : 0..Limit, drawn : 0..Limit]
      /\ forge.left \in 0..Limit /\ forge.drawn \in 0..Limit /\ forge.left + forge.drawn <= Limit
  BY DEF TypeOK
<1>2. r.n \in 0..Limit /\ r.n <= forge.left
  BY <1>1, AnswersAreTrue
<1>3. /\ forge'.product = forge.product /\ forge'.left = r.n
      /\ forge'.drawn = IF ReportsRest(r.a) THEN 0 ELSE forge.drawn
      /\ forge' \in [product : {"github", "other"}, left : 0..Limit, drawn : 0..Limit]
  <2> DEFINE d == IF ReportsRest(r.a) THEN 0 ELSE forge.drawn
  <2>1. d \in 0..Limit
    BY <1>1, ReserveAssumption
  <2>2. forge' = [forge EXCEPT !.left = r.n, !.drawn = d]
    BY DEF Draws
  <2> HIDE DEF d
  <2>3. forge' = [product |-> forge.product, left |-> r.n, drawn |-> d]
    BY <1>1, <2>2
  <2>4. QED
    BY <1>1, <1>2, <2>1, <2>3 DEF d
<1>4. QED
  BY <1>1, <1>2, <1>3, ReserveAssumption

(* What others draw leaves what GitHub would have left without them. *)
LEMMA OthersDrawType ==
  ASSUME TypeOK, OthersDraw
  PROVE  /\ forge' \in [product : {"github", "other"}, left : 0..Limit, drawn : 0..Limit]
         /\ forge'.product = forge.product
         /\ forge'.left + forge'.drawn = forge.left + forge.drawn
         /\ forge'.left + forge'.drawn <= Limit
<1>1. /\ forge \in [product : {"github", "other"}, left : 0..Limit, drawn : 0..Limit]
      /\ forge.left \in 1..Limit /\ forge.drawn \in 0..Limit /\ forge.left + forge.drawn <= Limit
  BY ReserveAssumption DEF TypeOK, OthersDraw
<1>2. forge' = [product |-> forge.product, left |-> forge.left - 1, drawn |-> forge.drawn + 1]
  BY <1>1 DEF OthersDraw
<1>3. forge.left - 1 \in 0..Limit /\ forge.drawn + 1 \in 0..Limit
  BY <1>1, ReserveAssumption
<1>4. QED
  BY <1>1, <1>2, <1>3, ReserveAssumption

(* The book stays a book of spends. *)
LEMMA ChargedType ==
  ASSUME TypeOK, phase \in Phases, Charged
  PROVE  /\ book' \in [at : Spends, by : [Phases -> Spends]]
         /\ book'.at = Spent(spend)
         /\ \A p \in Phases : book'.by[p] = Due(p)
<1>1. spend \in SpendMeters /\ book.at \in Spends /\ book.by \in [Phases -> Spends]
  BY DEF TypeOK, SpendMeters
<1> DEFINE more == Plus(book.by[phase], Minus(Spent(spend), book.at))
<1>2. Spent(spend) \in Spends /\ more \in Spends
  BY <1>1, SpentType, SumType
<1>3. book' = [at |-> Spent(spend), by |-> [book.by EXCEPT ![phase] = more]]
  BY DEF Charged, Charge
<1>4. QED
  <2>1. \A p \in Phases : Due(p) = IF p = phase THEN more ELSE book.by[p]
    BY DEF Due
  <2> HIDE DEF more
  <2>2. QED
    BY <1>1, <1>2, <1>3, <2>1

(* Every variable keeps its type, the history's counts too: an open leaves
   nothing pending once its product is named, and GitHub bills no more of
   what is pending than was answered (spend.Meter, ghquota.Meter). *)
LEMMA TypesHold == Spec => [](TypeOK /\ TruthType /\ PhaseInv)
<1> DEFINE T == TypeOK /\ TruthType /\ PhaseInv
<1>1. ASSUME Init
      PROVE  T
  <2>1. NewBook(NewSpend, Phases) \in [at : Spends, by : [Phases -> Spends]]
    BY NewSpendType, SpentType DEF NewBook, Zero, Spends
  <2>2. TruthType
    BY <1>1 DEF Init, TruthType, NoTruth
  <2>3. TypeOK
    <3>1. /\ forge \in [product : {"github", "other"}, left : 0..Limit, drawn : 0..Limit]
          /\ forge.left + forge.drawn <= Limit
      BY <1>1, ReserveAssumption DEF Init
    <3>2. QED
      BY <1>1, <2>1, <3>1, NewMeterType, NewSpendType DEF Init, TypeOK, SpendMeters, Priced, Phases, Reads
  <2>4. QED
    BY <1>1, <2>2, <2>3 DEF Init, PhaseInv
<1>2. ASSUME TypeOK, TruthType, PhaseInv, [Next]_vars
      PROVE  TypeOK' /\ TruthType' /\ PhaseInv'
  <2> USE <1>2
  <2>a. spend \in SpendMeters /\ Priced(spend)
    BY DEF TypeOK, SpendMeters, Priced
  <2>b. truth.owed \in Nat /\ truth.guessed \in Nat /\ truth.mine \in Nat /\ truth.mine <= truth.guessed
    BY DEF TruthType
  <2>1. CASE StartScan
    <3>1. NewBook(spend, Phases) \in [at : Spends, by : [Phases -> Spends]]
      BY <2>a, SpentType DEF NewBook, Zero, Spends
    <3>2. TruthType'
      <4>1. truth' = [owed |-> truth.owed, guessed |-> truth.guessed, mine |-> 0, heard |-> FALSE,
                      sent |-> [p \in Phases |-> 0], rest |-> [p \in Phases |-> 0]]
        BY <2>1 DEF StartScan, NoTruth
      <4>2. QED
        BY <2>b, <4>1 DEF TruthType
    <3>3. QED
      BY <2>1, <3>1, <3>2 DEF StartScan, TypeOK, Phases, Reads, PhaseInv
  <2>2. CASE StartOpen
    <3>1. spend' \in SpendMeters /\ Priced(spend')
      BY <2>2, <2>a, DetectKeeps DEF StartOpen
    <3>2. TruthType'
      BY <2>2 DEF StartOpen, TruthType
    <3>3. QED
      BY <2>2, <3>1, <3>2, NewMeterType DEF StartOpen, TypeOK, SpendMeters, Priced, Phases, Reads, PhaseInv
  <2>3. CASE NameProduct
    <3>1. spend' \in SpendMeters /\ Priced(spend')
      <4>1. forge.product \in {"github", "other"}
        BY DEF TypeOK
      <4>2. QED
        BY <2>3, <2>a, <4>1, NameTakesBack DEF NameProduct
    <3>2. TruthType'
      <4>1. truth' = [truth EXCEPT !.mine = 0, !.guessed = truth.guessed - truth.mine]
        BY <2>3 DEF NameProduct
      <4>2. truth.guessed - truth.mine \in Nat
        BY <2>b
      <4>3. truth'.mine = 0 /\ truth'.guessed = truth.guessed - truth.mine
        BY <4>1 DEF TruthType
      <4>4. truth' \in [owed : Nat, guessed : Nat, mine : Nat, heard : BOOLEAN,
                        sent : [Phases -> Nat], rest : [Phases -> Nat]]
        BY <4>1, <4>2 DEF TruthType
      <4>5. QED
        BY <4>2, <4>3, <4>4 DEF TruthType
    <3>3. quota' \in Meters
      BY <2>3 DEF NameProduct, TypeOK, Meters, Arm, PhaseInv
    <3>4. QED
      BY <2>3, <3>1, <3>2, <3>3 DEF NameProduct, TypeOK, SpendMeters, Priced, Phases, Reads, PhaseInv
  <2>4. CASE Opened
    BY <2>4 DEF Opened, TypeOK, TruthType, PhaseInv
  <2>5. CASE Fails \/ EndScan
    BY <2>5, ChargedType DEF Fails, EndScan, TypeOK, TruthType, Phases, Reads, PhaseInv
  <2>6. CASE BeginReads
    <3>1. quota' \in Meters
      BY <2>6 DEF BeginReads, TypeOK, Meters, BeginScan, PhaseInv
    <3>2. QED
      BY <2>6, <3>1, ChargedType DEF BeginReads, TypeOK, TruthType, Phases, Reads, PhaseInv
  <2>7. ASSUME NEW p \in Reads, Enter(p)
        PROVE  TypeOK' /\ TruthType' /\ PhaseInv'
    BY <2>7, ChargedType DEF Enter, TypeOK, TruthType, Phases, Reads, PhaseInv
  <2>8. ASSUME NEW client \in Clients, NEW pool \in Pools, Ask(client, pool)
        PROVE  TypeOK' /\ TruthType' /\ PhaseInv'
    BY <2>8 DEF Ask, TypeOK, TruthType, PhaseInv
  <2>9. ASSUME NEW client \in Clients, Answer(client)
        PROVE  TypeOK' /\ TruthType' /\ PhaseInv'
    <3>1. PICK r \in Answered(call.pool) :
            call' = [call EXCEPT !.answer = r.a] /\ Draws(r)
      BY <2>9 DEF Answer, Draws
    <3>2. forge.left \in 0..Limit /\ call # NoCall
      BY <2>9 DEF TypeOK, Answer, PhaseInv
    <3>3. r.a \in Answers /\ r.n \in 0..Limit
      BY <3>2, CallType, AnswersAreTrue
    <3>4. /\ call' \in {NoCall} \cup [client : Clients, pool : Pools, answer : {Unsent} \cup Answers]
          /\ forge' \in [product : {"github", "other"}, left : 0..Limit, drawn : 0..Limit]
          /\ forge'.left + forge'.drawn <= Limit
      BY <3>1, <3>2, <3>3, CallType, AnswerDraws DEF TypeOK
    <3>5. QED
      BY <2>9, <3>4 DEF Answer, TypeOK, TruthType, PhaseInv
  <2>10. CASE Held
    BY <2>10 DEF Held, TypeOK, TruthType, PhaseInv
  <2>11. ASSUME NEW final \in BOOLEAN, call # NoCall, call.answer # Unsent, Sees(call.answer, final),
                UNCHANGED <<phase, stage, book, forge>>,
                call' = NoCall \/ call' = [call EXCEPT !.answer = Unsent]
         PROVE  TypeOK' /\ TruthType' /\ PhaseInv'
    <3>1. call \in [client : Clients, pool : Pools, answer : {Unsent} \cup Answers] /\ call.answer \in Answers
      BY <2>11, CallType
    <3>2. phase \in Phases
      BY <2>11 DEF PhaseInv, Phases
    <3>3. QED
      <4>1. quota' \in Meters /\ spend' \in SpendMeters /\ Priced(spend') /\ TruthType'
        BY <2>11, <3>1, <3>2, SeesType
      <4>2. call' \in {NoCall} \cup [client : Clients, pool : Pools, answer : {Unsent} \cup Answers]
        BY <2>11, <3>1
      <4>3. QED
        BY <2>11, <4>1, <4>2 DEF TypeOK, SpendMeters, Priced, PhaseInv
  <2>12. CASE Retry \/ Return
    BY <2>11, <2>12 DEF Retry, Return
  <2>13. CASE Renew
    <3>1. forge' = [product |-> forge.product, left |-> Limit, drawn |-> 0]
      BY <2>13 DEF Renew, TypeOK
    <3>2. /\ forge' \in [product : {"github", "other"}, left : 0..Limit, drawn : 0..Limit]
          /\ forge'.left + forge'.drawn <= Limit
      BY <3>1, ReserveAssumption DEF TypeOK
    <3>3. QED
      BY <2>13, <3>2, RenewType DEF Renew, TypeOK, TruthType, PhaseInv
  <2>14. CASE OthersDraw
    BY <2>14, OthersDrawType DEF OthersDraw, TypeOK, TruthType, PhaseInv
  <2>15. CASE UNCHANGED vars
    BY <2>15 DEF vars, TypeOK, TruthType, PhaseInv
  <2>16. QED
    BY <2>1, <2>2, <2>3, <2>4, <2>5, <2>6, <2>7, <2>8, <2>9, <2>10, <2>12, <2>13, <2>14, <2>15 DEF Next
<1>3. QED
  BY <1>1, <1>2, PTL DEF Spec

THEOREM MeteringTypes == Spec => []TypeOK
  BY TypesHold, PTL

-----------------------------------------------------------------------------
(* The meters and the product. *)

LEMMA StagesHold == Spec => []StageInv
<1>1. Init => StageInv
  BY DEF Init, StageInv, NewMeter, Pools
<1>2. ASSUME TypeOK, TypeOK', StageInv, [Next]_vars
      PROVE  StageInv'
  <2> USE <1>2
  <2>a. /\ quota \in Meters /\ spend \in SpendMeters /\ Priced(spend)
        /\ "core" \in Pools
    BY DEF TypeOK, SpendMeters, Priced, Pools
  <2>b. ASSUME stage' = stage \/ (stage = "named" /\ stage' = "open") \/ stage' = "closed",
               UNCHANGED <<quota, spend>>, forge'.product = forge.product
        PROVE  StageInv'
    BY <2>b DEF StageInv, GitHub
  <2>1. CASE StartScan \/ Opened \/ Fails \/ EndScan \/ Held
    BY <2>1, <2>b DEF StartScan, Opened, Fails, EndScan, Held
  <2>2. CASE StartOpen
    BY <2>2, <2>a, DetectKeeps DEF StartOpen, StageInv, NewMeter, Pools
  <2>3. CASE NameProduct
    <3>1. forge.product \in {"github", "other"} /\ UNCHANGED forge
      BY <2>3 DEF TypeOK, NameProduct
    <3>2. spend'.product = forge.product
      BY <2>3, <2>a, <3>1, NameTakesBack DEF NameProduct
    <3>3. /\ quota'.armed = (quota.armed \/ GitHub)
          /\ quota'.pools = quota.pools
      BY <2>3, <2>a DEF NameProduct, Arm, Meters
    <3>4. QED
      BY <2>3, <3>1, <3>2, <3>3 DEF NameProduct, StageInv, GitHub
  <2>4. CASE BeginReads
    <3>1. /\ quota'.armed = quota.armed /\ quota'.pools = quota.pools
          /\ UNCHANGED <<stage, spend, forge>>
      BY <2>4, <2>a DEF BeginReads, BeginScan, Meters
    <3>2. QED
      BY <3>1 DEF StageInv, GitHub
  <2>5. ASSUME NEW p \in Reads, Enter(p)
        PROVE  StageInv'
    BY <2>5, <2>b DEF Enter
  <2>6. ASSUME NEW client \in Clients, NEW pool \in Pools, Ask(client, pool)
        PROVE  StageInv'
    BY <2>6, <2>b DEF Ask
  <2>7. ASSUME NEW client \in Clients, Answer(client)
        PROVE  StageInv'
    <3>1. forge'.product = forge.product
      BY <2>7 DEF Answer, TypeOK
    <3>2. QED
      BY <2>7, <2>b, <3>1 DEF Answer
  <2>8. ASSUME NEW final \in BOOLEAN, call # NoCall, call.answer # Unsent, Sees(call.answer, final),
               UNCHANGED <<stage, forge>>
        PROVE  StageInv'
    <3>1. call.answer \in Answers
      BY <2>8, CallType
    <3>2. spend'.product = spend.product
      <4>1. Known(call.answer.budget.left) \in BOOLEAN
        BY DEF Known
      <4>2. QED
        BY <2>8, <2>a, <3>1, <4>1, SeeAdds DEF Sees
    <3>3. quota'.armed = quota.armed /\ (~quota.armed => quota' = quota)
      BY <2>8, <2>a, <3>1, SeeAttemptType, SeeFinalType DEF Sees, SeeAttempt, SeeFinal
    <3>4. QED
      BY <2>8, <3>2, <3>3 DEF StageInv, GitHub
  <2>9. CASE Retry \/ Return
    BY <2>8, <2>9 DEF Retry, Return
  <2>10. CASE Renew
    <3>1. forge'.product = forge.product
      BY <2>10 DEF Renew, TypeOK
    <3>2. QED
      BY <2>10, <3>1, RenewType DEF Renew, StageInv, GitHub
  <2>11. CASE OthersDraw
    BY <2>11, <2>b, OthersDrawType DEF OthersDraw
  <2>12. CASE UNCHANGED vars
    BY <2>12, <2>b DEF vars
  <2>13. QED
    BY <2>1, <2>2, <2>3, <2>4, <2>5, <2>6, <2>7, <2>9, <2>10, <2>11, <2>12 DEF Next
<1>3. QED
  BY <1>1, <1>2, TypesHold, PTL DEF Spec

(* What a request under way was asked, and what its answer can be. *)
LEMMA CallsHold == Spec => [](CallInv /\ HeardInv)
<1>1. Init => CallInv /\ HeardInv
  BY DEF Init, CallInv, HeardInv, BreakerIsTheScans, NoTruth, Reads
<1>2. ASSUME TypeOK, TypeOK', TruthType, PhaseInv, PhaseInv', StageInv, CallInv, HeardInv, [Next]_vars
      PROVE  CallInv' /\ HeardInv'
  <2> USE <1>2
  <2>a. quota \in Meters /\ Phases = {"open"} \cup Reads /\ Reads = {"discovery", "security"}
    BY DEF TypeOK, Phases, Reads
  <2>1. CASE StartScan \/ StartOpen \/ NameProduct \/ Opened \/ Fails \/ EndScan
    <3>1. call = NoCall /\ UNCHANGED <<call, forge>>
      BY <2>1 DEF StartScan, StartOpen, NameProduct, Opened, Fails, EndScan, PhaseInv, TypeOK, Phases, Reads
    <3>2. /\ phase' \notin Reads
          /\ truth'.heard = truth.heard \/ ~truth'.heard
          /\ phase' = "open" => ~truth'.heard
      BY <2>1, <2>a DEF StartScan, StartOpen, NameProduct, Opened, Fails, EndScan, NoTruth, HeardInv,
         PhaseInv, TruthType
    <3>3. QED
      BY <3>1, <3>2 DEF CallInv, HeardInv, BreakerIsTheScans, GitHub
  <2>2. CASE BeginReads
    <3>1. GitHub => ~quota'.refused
      BY <2>2, <2>a DEF BeginReads, BeginScan, Meters
    <3>2. QED
      BY <2>2, <2>a, <3>1 DEF BeginReads, CallInv, HeardInv, BreakerIsTheScans, GitHub
  <2>3. ASSUME NEW p \in Reads, Enter(p)
        PROVE  CallInv' /\ HeardInv'
    BY <2>3, <2>a DEF Enter, CallInv, HeardInv, BreakerIsTheScans, GitHub
  <2>4. ASSUME NEW client \in Clients, NEW pool \in Pools, Ask(client, pool)
        PROVE  CallInv' /\ HeardInv'
    <3>1. HeardInv'
      BY <2>4 DEF Ask, HeardInv, BreakerIsTheScans, GitHub
    <3>2. /\ call'.client = client /\ call'.answer = Unsent
          /\ UNCHANGED <<phase, stage, quota, forge, truth>>
      BY <2>4 DEF Ask
    <3>3. client = "rest" => GitHub /\ phase \in Reads
      BY <2>4 DEF Ask
    <3>4. client = "forgeapi" /\ phase \in Reads => ~truth.heard
      BY <2>4, <2>a DEF Ask, HeardInv, BreakerIsTheScans, Admit, PhaseInv
    <3>5. QED
      BY <3>1, <3>2, <3>3, <3>4 DEF CallInv, GitHub
  <2>5. ASSUME NEW client \in Clients, Answer(client)
        PROVE  CallInv' /\ HeardInv'
    <3>1. PICK r \in Answered(call.pool) :
            call' = [call EXCEPT !.answer = r.a] /\ Draws(r)
      BY <2>5 DEF Answer, Draws
    <3>2. /\ forge.left \in 0..Limit /\ call # NoCall /\ forge'.product = forge.product
          /\ UNCHANGED <<phase, stage, quota, truth>>
      BY <2>5, <3>1 DEF TypeOK, Answer, Draws
    <3>3. /\ r.a.outcome = "absent" => GitHub /\ stage = "opening" /\ ~Known(r.a.budget.left)
          /\ r.a.outcome = "forbidden" => GitHub
      BY <3>2, CallType, AnswersAreTrue
    <3>4. call'.client = call.client /\ call'.answer = r.a
      BY <3>1, <3>2, CallType
    <3>5. QED
      BY <3>2, <3>3, <3>4 DEF CallInv, HeardInv, BreakerIsTheScans, GitHub
  <2>6. CASE Held
    BY <2>6 DEF Held, CallInv, HeardInv, BreakerIsTheScans, GitHub
  <2>7. CASE Retry \/ Return
    <3>1. PICK final \in BOOLEAN :
            /\ call # NoCall /\ call.answer # Unsent /\ Sees(call.answer, final)
            /\ UNCHANGED <<phase, stage, forge>>
            /\ final => call' = NoCall
            /\ ~final => /\ call' = [call EXCEPT !.answer = Unsent]
                         /\ call.client = "rest" => call.answer.outcome # "forbidden"
      BY <2>7 DEF Retry, Return
    <3>2. call \in [client : Clients, pool : Pools, answer : {Unsent} \cup Answers]
          /\ call.answer \in Answers /\ phase \in Phases
      BY <3>1, <2>a, CallType DEF PhaseInv
    <3>3. truth'.heard = (truth.heard \/ (final /\ phase \in Reads /\ Refuses(call.answer)))
      BY <3>1, <3>2, NotedCounts DEF Sees
    <3>4. quota'.refused = (quota.refused \/
            ((final \/ call.client = "rest") /\ quota.armed /\ Refuses(call.answer)))
      <4>1. SeeAttempt(quota, call.answer) \in Meters
            /\ SeeAttempt(quota, call.answer).armed = quota.armed
            /\ SeeAttempt(quota, call.answer).refused = quota.refused
        BY <2>a, <3>2, SeeAttemptType
      <4>2. quota.refused \in BOOLEAN
        BY <2>a DEF Meters
      <4>3. QED
        BY <3>1, <3>2, <4>1, <4>2, SeeFinalType DEF Sees
    <3>5. Refuses(call.answer) => GitHub /\ (call.client = "rest" => final)
      BY <3>1 DEF Refuses, CallInv
    <3>6. GitHub /\ phase \in Reads => quota.armed
      BY DEF StageInv, TypeOK
    <3>7. truth.heard \in BOOLEAN /\ quota.refused \in BOOLEAN
      BY <2>a DEF TruthType, Meters
    <3>8. HeardInv'
      BY <2>a, <3>1, <3>3, <3>4, <3>5, <3>6, <3>7 DEF HeardInv, BreakerIsTheScans, GitHub
    <3>9. CallInv'
      BY <3>1, <3>2, <3>3 DEF CallInv, GitHub
    <3>10. QED
      BY <3>8, <3>9
  <2>8. CASE Renew
    <3>1. forge'.product = forge.product
      BY <2>8 DEF Renew, TypeOK
    <3>2. QED
      BY <2>8, <3>1, RenewType DEF Renew, CallInv, HeardInv, BreakerIsTheScans, GitHub, Known
  <2>9. CASE OthersDraw
    BY <2>9, OthersDrawType DEF OthersDraw, CallInv, HeardInv, BreakerIsTheScans, GitHub
  <2>10. CASE UNCHANGED vars
    BY <2>10 DEF vars, CallInv, HeardInv, BreakerIsTheScans, GitHub
  <2>11. QED
    BY <2>1, <2>2, <2>3, <2>4, <2>5, <2>6, <2>7, <2>8, <2>9, <2>10 DEF Next
<1>3. QED
  BY <1>1, <1>2, TypesHold, StagesHold, PTL DEF Spec

(* The breaker of the quota meter is the scan's own (ghquota.Meter.BeginScan,
   judge): it is tripped by a refusal of one of its reads, the last answer of a
   request, and by nothing an open or an earlier scan met. *)
THEOREM BreakersAreTheScans == Spec => []BreakerIsTheScans
<1>1. HeardInv => BreakerIsTheScans
  BY DEF HeardInv
<1>2. QED
  BY <1>1, CallsHold, PTL

(* Once GitHub has refused a read, no attempt of either client goes out until
   the next scan: forgeapi's walks ask before each page, and the REST client
   before each attempt (ghquota.Meter.Admit). *)
THEOREM RefusalsStopTheScan == Spec => NoneSentAfterRefusal
<1>1. ASSUME TypeOK, StageInv, CallInv, HeardInv, [Next]_vars,
             call # NoCall, call' # NoCall, call.answer = Unsent, call'.answer # Unsent,
             phase \in Reads, truth.heard
      PROVE  FALSE
  <2> USE <1>1
  <2>1. \E client \in Clients : Answer(client)
    <3>1. ~(StartScan \/ StartOpen \/ NameProduct \/ Opened \/ Fails \/ BeginReads \/ EndScan)
      BY DEF StartScan, StartOpen, NameProduct, Opened, Fails, BeginReads, EndScan, TypeOK, Phases
    <3>2. ~\E p \in Reads : Enter(p)
      BY DEF Enter
    <3>3. ~\E client \in Clients, pool \in Pools : Ask(client, pool)
      BY DEF Ask
    <3>4. ~(Held \/ Retry \/ Return \/ OthersDraw) /\ ~UNCHANGED vars
      BY DEF Held, Retry, Return, OthersDraw, vars
    <3>5. ~Renew
      BY RenewType
    <3>6. QED
      BY <3>1, <3>2, <3>3, <3>4, <3>5 DEF Next
  <2>2. call.client = "rest" /\ Admit(quota) /\ GitHub
    BY <2>1, CallType DEF CallInv, Answer, Clients
  <2>3. QED
    BY <2>2 DEF Admit, HeardInv, BreakerIsTheScans
<1>2. TypeOK /\ StageInv /\ CallInv /\ HeardInv /\ [Next]_vars
      => [call # NoCall /\ call' # NoCall /\ call.answer = Unsent /\ call'.answer # Unsent
          => ~(phase \in Reads /\ truth.heard)]_vars
  BY <1>1
<1>3. QED
  BY <1>2, TypesHold, StagesHold, CallsHold, PTL DEF Spec, NoneSentAfterRefusal

-----------------------------------------------------------------------------
(* The quota meter and the forge. *)

(* What a meter knows once it has seen an answer is no more than the forge
   has left for it, if what it knew before was no more than it had left then. *)
LEMMA AccountsTrue ==
  ASSUME NEW q \in Meters, NEW a \in Answers, NEW left \in 0..Limit, NEW n \in 0..Limit,
         Pool(q, "core") <= left, ~q.armed => q.pools["core"].left = None,
         ~a.budget.lapsed, Known(a.budget.left) /\ a.pool = "core" => a.budget.left = n,
         a.pool # "core" => n = left, ~ReportsRest(a) => left - 1 <= n
  PROVE  Pool(SeeAttempt(q, a), "core") <= n
<1>1. "core" \in Pools /\ a.pool \in Pools /\ a.budget \in Budgets /\ Pool(q, "core") \in Int
  BY BudgetType DEF Pools, Answers
<1>2. CASE ~q.armed
  BY <1>2 DEF SeeAttempt, Pool, None
<1>3. CASE q.armed /\ ~Known(a.budget.left)
  <2>1. SeeAttempt(q, a) = SpendOne(q)
    BY <1>3 DEF SeeAttempt, Account
  <2>2. QED
    BY <1>1, <1>3, <2>1, SpendOneType DEF ReportsRest
<1>4. CASE q.armed /\ Known(a.budget.left) /\ a.pool = "core"
  <2>1. SeeAttempt(q, a).pools["core"] = a.budget
    BY <1>1, <1>4 DEF SeeAttempt, Account, Meters
  <2>2. QED
    BY <1>4, <2>1 DEF Pool
<1>5. CASE q.armed /\ Known(a.budget.left) /\ a.pool # "core"
  <2>1. SeeAttempt(q, a).pools["core"] = q.pools["core"]
    BY <1>1, <1>5 DEF SeeAttempt, Account, Meters
  <2>2. QED
    BY <1>5, <2>1 DEF Pool
<1>6. QED
  BY <1>2, <1>3, <1>4, <1>5

LEMMA QuotaHolds == Spec => []QuotaInv
<1>1. Init => QuotaInv
  BY NewMeterType, ReserveAssumption DEF Init, QuotaInv, Ours, Caught, None
<1>2. ASSUME TypeOK, TypeOK', StageInv, QuotaInv, [Next]_vars
      PROVE  QuotaInv'
  <2> USE <1>2
  <2>a. /\ quota \in Meters /\ forge.left \in 0..Limit /\ forge.drawn \in 0..Limit
        /\ Ours \in 0..Limit /\ Ours' \in 0..Limit
        /\ Pool(quota, "core") \in Int
    BY BudgetType, ReserveAssumption DEF TypeOK, Pools, Ours
  (* Steps that leave the forge and what the meter knows of the pool alone. *)
  <2>b. ASSUME call' = NoCall \/ call'.answer = Unsent, call = NoCall \/ call.answer = Unsent,
               Pool(quota', "core") = Pool(quota, "core"), UNCHANGED forge
        PROVE  QuotaInv'
    BY <2>b DEF QuotaInv, Ours, Caught
  <2>1. CASE StartScan \/ Opened \/ Fails \/ EndScan \/ Held
    BY <2>1, <2>b DEF StartScan, Opened, Fails, EndScan, Held, QuotaInv, Ours, Caught
  <2>2. CASE StartOpen
    <3>1. quota' = NewMeter /\ UNCHANGED <<call, forge>> /\ ~NewMeter.armed
      BY <2>2, NewMeterType DEF StartOpen
    <3>2. Caught' = NewMeter
      BY <3>1 DEF Caught, SeeAttempt
    <3>3. QED
      BY <2>a, <3>1, <3>2, NewMeterType DEF QuotaInv, None
  <2>3. CASE NameProduct
    BY <2>3, <2>a, <2>b DEF NameProduct, Arm, Meters, Pool
  <2>4. CASE BeginReads
    BY <2>4, <2>a, <2>b DEF BeginReads, BeginScan, Meters, Pool
  <2>5. ASSUME NEW p \in Reads, Enter(p)
        PROVE  QuotaInv'
    BY <2>5, <2>b DEF Enter
  <2>6. ASSUME NEW client \in Clients, NEW pool \in Pools, Ask(client, pool)
        PROVE  QuotaInv'
    BY <2>6, <2>b DEF Ask
  <2>7. ASSUME NEW client \in Clients, Answer(client)
        PROVE  QuotaInv'
    <3>1. PICK r \in Answered(call.pool) :
            call' = [call EXCEPT !.answer = r.a] /\ Draws(r)
      BY <2>7 DEF Answer, Draws
    <3>2. call # NoCall /\ call.answer = Unsent /\ quota' = quota
      BY <2>7 DEF Answer
    <3>3. call.pool \in Pools /\ call'.answer = r.a
      BY <3>1, <3>2, CallType
    <3>4. Pool(quota, "core") <= Ours
      BY <3>2 DEF QuotaInv, Caught
    <3>5. Pool(SeeAttempt(quota, r.a), "core") <= Ours'
      <4>1. /\ r.a \in Answers /\ r.n \in 0..Limit /\ r.a.pool = call.pool /\ ~r.a.budget.lapsed
            /\ ReportsRest(r.a) => r.a.budget.left = r.n
            /\ r.a.pool # "core" => r.n = forge.left /\ ~ReportsRest(r.a)
            /\ forge.left - 1 <= r.n
        BY <2>a, <3>3, AnswersAreTrue DEF ReportsRest
      <4>2. Ours' = r.n + IF ReportsRest(r.a) THEN 0 ELSE forge.drawn
        BY <3>1, <3>3, AnswerDraws DEF Ours
      <4>3. /\ ReportsRest(r.a) => r.a.budget.left = Ours'
            /\ r.a.pool # "core" => Ours' = Ours
            /\ ~ReportsRest(r.a) => Ours - 1 <= Ours'
        BY <2>a, <4>1, <4>2 DEF Ours
      <4>4. ~quota.armed => quota.pools["core"].left = None
        BY DEF StageInv
      <4>5. Known(r.a.budget.left) /\ r.a.pool = "core" => r.a.budget.left = Ours'
        BY <4>3 DEF ReportsRest
      <4> HIDE DEF Ours
      <4>6. QED
        BY <2>a, <3>4, <4>1, <4>3, <4>4, <4>5, AccountsTrue
    <3>6. call' # NoCall /\ call'.answer # Unsent
      <4>1. call \in [client : Clients, pool : Pools, answer : {Unsent} \cup Answers] /\ r.a \in Answers
        BY <2>a, <3>2, <3>3, CallType, AnswersAreTrue
      <4>2. r.a # Unsent
        BY <4>1 DEF Answers, Unsent
      <4>3. call' \in [client : Clients, pool : Pools, answer : {Unsent} \cup Answers]
        BY <3>1, <4>1
      <4>4. QED
        BY <3>3, <4>2, <4>3 DEF NoCall
    <3>7. Caught' = SeeAttempt(quota, r.a)
      <4>1. Caught' = SeeAttempt(quota', call'.answer)
        BY <3>6 DEF Caught
      <4>2. QED
        BY <3>2, <3>3, <4>1
    <3>8. QED
      BY <3>5, <3>7 DEF QuotaInv
  <2>8. ASSUME NEW final \in BOOLEAN, call # NoCall, call.answer # Unsent, Sees(call.answer, final),
               UNCHANGED forge, call' = NoCall \/ call'.answer = Unsent
        PROVE  QuotaInv'
    <3>1. call.answer \in Answers /\ SeeAttempt(quota, call.answer) \in Meters
      BY <2>8, <2>a, CallType, SeeAttemptType
    <3>2. Pool(quota', "core") = Pool(SeeAttempt(quota, call.answer), "core")
      BY <2>8, <3>1, SeeFinalType DEF Sees
    <3>3. Caught' = quota' /\ Caught = SeeAttempt(quota, call.answer)
      BY <2>8 DEF Caught
    <3>4. QED
      BY <2>8, <3>2, <3>3 DEF QuotaInv, Ours
  <2>9. CASE Retry \/ Return
    BY <2>8, <2>9, CallType DEF Retry, Return
  <2>10. CASE Renew
    <3>1. Ours' = Limit
      BY <2>10, ReserveAssumption DEF Renew, TypeOK, Ours
    <3>2. Caught' \in Meters
      <4>1. quota' \in Meters
        BY DEF TypeOK
      <4>2. CASE call' # NoCall /\ call'.answer # Unsent
        <5>1. call'.answer \in Answers
          BY <4>2 DEF TypeOK
        <5>2. QED
          BY <4>1, <4>2, <5>1, SeeAttemptType DEF Caught
      <4>3. CASE ~(call' # NoCall /\ call'.answer # Unsent)
        BY <4>1, <4>3 DEF Caught
      <4>4. QED
        BY <4>2, <4>3
    <3>3. QED
      BY <3>1, <3>2, BudgetType DEF QuotaInv, Pools
  <2>11. CASE OthersDraw
    <3>1. Ours' = Ours
      BY <2>11, OthersDrawType DEF Ours
    <3>2. Caught' = Caught
      BY <2>11 DEF OthersDraw, Caught
    <3>3. QED
      BY <3>1, <3>2 DEF QuotaInv
  <2>12. CASE UNCHANGED vars
    BY <2>12 DEF vars, QuotaInv, Ours, Caught
  <2>13. QED
    BY <2>1, <2>2, <2>3, <2>4, <2>5, <2>6, <2>7, <2>9, <2>10, <2>11, <2>12 DEF Next
<1>3. QED
  BY <1>1, <1>2, TypesHold, StagesHold, PTL DEF Spec

(* The count of the REST pool the meter holds is never more than GitHub would
   have left had only this connection drawn on it since GitHub last told it
   one, whichever answers reported none, came late or named another pool
   (ghquota.Meter.account): the connection accounts for all it sent itself, and
   is off by what the account's other clients drew at most. *)
THEOREM MeterNeverOverstates == Spec => []NeverOverstated
<1>1. QuotaInv => NeverOverstated
  BY DEF QuotaInv, Ours, Caught, NeverOverstated
<1>2. QED
  BY <1>1, QuotaHolds, PTL

-----------------------------------------------------------------------------
(* The counts and the bill. *)

(* An answer seen is counted once: as billed, as a guess of the open, or not
   at all; and of an open's answers GitHub prices those it billed. *)
LEMMA SeesCounts ==
  ASSUME TypeOK, PhaseInv, StageInv, CallInv, call # NoCall, call.answer # Unsent,
         NEW final \in BOOLEAN, Sees(call.answer, final)
  PROVE  /\ Spent(spend').sent = Spent(spend).sent + 1
         /\ Spent(spend').rest = Spent(spend).rest + One(Bills(call.answer)) + One(Guessed(call.answer))
         /\ ~(Bills(call.answer) /\ Guessed(call.answer))
         /\ Guessed(call.answer) => GitHub /\ stage = "opening"
         /\ stage = "opening" /\ GitHub =>
              spend'.pending - spend'.pendingGitHub
                = spend.pending - spend.pendingGitHub + One(Guessed(call.answer))
<1> DEFINE a == call.answer
<1> DEFINE reports == Known(a.budget.left)
<1> DEFINE rest == a.outcome # "unanswered" /\ a.pool = "core"
<1> DEFINE bills == rest /\ GitHubBills(a)
<1>1. /\ spend \in SpendMeters /\ Priced(spend) /\ a \in Answers /\ reports \in BOOLEAN
      /\ Spent(spend).rest \in Int /\ spend.pending \in Int /\ spend.pendingGitHub \in Int
      /\ spend.product \in Products
  <2>1. spend \in SpendMeters /\ Priced(spend) /\ a \in Answers /\ reports \in BOOLEAN
    BY CallType DEF TypeOK, SpendMeters, Priced, Known
  <2>2. QED
    BY <2>1, SpentType DEF SpendMeters, Spends
<1>2. spend' = See(spend, a, reports)
  BY DEF Sees
<1>3. /\ Spent(spend').sent = Spent(spend).sent + 1
      /\ spend.product = "unknown" =>
           /\ Spent(spend').rest = Spent(spend).rest + IF rest THEN 1 ELSE 0
           /\ spend'.pending = spend.pending + IF rest THEN 1 ELSE 0
           /\ spend'.pendingGitHub = spend.pendingGitHub + IF bills /\ reports THEN 1 ELSE 0
      /\ spend.product = "github" => Spent(spend').rest = Spent(spend).rest + IF bills THEN 1 ELSE 0
      /\ spend.product = "other" => Spent(spend').rest = Spent(spend).rest + IF rest THEN 1 ELSE 0
  BY <1>1, <1>2, SeeAdds
<1>4. CASE stage = "opening"
  <2>1. spend.product = "unknown"
    BY <1>4 DEF StageInv
  <2>2. /\ GitHub => (Bills(a) <=> bills /\ reports)
        /\ ~GitHub => (Bills(a) <=> rest)
        /\ Guessed(a) <=> rest /\ ~Bills(a)
        /\ bills => rest
    BY <1>4 DEF Bills, Guessed, GitHubBills, CallInv
  <2>3. /\ (IF rest THEN 1 ELSE 0) = One(Bills(a)) + One(Guessed(a))
        /\ GitHub => (IF bills /\ reports THEN 1 ELSE 0) = One(Bills(a))
        /\ ~(Bills(a) /\ Guessed(a)) /\ (Guessed(a) => GitHub)
        /\ One(Bills(a)) \in Nat /\ One(Guessed(a)) \in Nat
    <3> HIDE DEF rest, bills, reports
    <3>1. QED
      BY <2>2 DEF One
  <2> HIDE DEF rest, bills
  <2>4. QED
    BY <1>1, <1>3, <1>4, <2>1, <2>3
<1>5. CASE stage # "opening"
  <2>1. stage \in {"named", "open"}
    BY <1>5 DEF PhaseInv, TypeOK
  <2>2. spend.product = forge.product /\ forge.product \in {"github", "other"}
    BY <2>1 DEF StageInv, TypeOK
  <2>3. /\ Bills(a) = (IF GitHub THEN bills ELSE rest)
        /\ ~Guessed(a)
    BY <1>5 DEF Bills, Guessed, GitHubBills, CallInv
  <2>4. /\ forge.product = "github" => (IF bills THEN 1 ELSE 0) = One(Bills(a))
        /\ forge.product = "other" => (IF rest THEN 1 ELSE 0) = One(Bills(a))
        /\ One(Guessed(a)) = 0 /\ One(Bills(a)) \in Nat
    BY <2>3 DEF One, GitHub
  <2> HIDE DEF rest, bills
  <2>5. QED
    BY <1>1, <1>3, <1>5, <2>2, <2>3, <2>4
<1>6. QED
  BY <1>4, <1>5

(* The guesses that are the open's are those it will take back. *)
LEMMA MineHolds == Spec => []MineInv
<1>1. Init => MineInv
  BY DEF Init, MineInv, NoTruth
<1>2. ASSUME TypeOK, TypeOK', TruthType, PhaseInv, StageInv, CallInv, MineInv, [Next]_vars
      PROVE  MineInv'
  <2> USE <1>2
  <2>a. /\ spend \in SpendMeters /\ Priced(spend)
        /\ truth.mine \in Nat /\ spend.pending \in Nat /\ spend.pendingGitHub \in Nat
    BY DEF TypeOK, SpendMeters, Priced, TruthType
  <2>b. ASSUME UNCHANGED <<stage, spend>>, forge'.product = forge.product,
               truth'.mine = truth.mine, phase' # "idle" => phase # "idle"
        PROVE  MineInv'
    BY <2>b DEF MineInv, GitHub
  <2>1. CASE StartScan
    <3>1. truth'.mine = 0 /\ UNCHANGED stage /\ stage # "opening"
      BY <2>1 DEF StartScan, NoTruth, PhaseInv
    <3>2. QED
      BY <3>1 DEF MineInv
  <2>2. CASE StartOpen
    <3>1. truth'.mine = 0 /\ stage' = "opening"
      BY <2>2 DEF StartOpen, TruthType
    <3>2. spend'.pending = 0 /\ spend'.pendingGitHub = 0
      BY <2>2, <2>a, DetectKeeps DEF StartOpen
    <3>3. QED
      BY <3>1, <3>2 DEF MineInv
  <2>3. CASE NameProduct
    <3>1. truth'.mine = 0 /\ stage' = "named"
      BY <2>3 DEF NameProduct, TruthType
    <3>2. QED
      BY <3>1 DEF MineInv
  <2>4. CASE Opened
    BY <2>4 DEF Opened, MineInv
  <2>5. CASE Fails \/ EndScan
    BY <2>5 DEF Fails, EndScan, MineInv, TypeOK
  <2>6. CASE BeginReads
    BY <2>6, <2>b DEF BeginReads
  <2>7. ASSUME NEW p \in Reads, Enter(p)
        PROVE  MineInv'
    BY <2>7, <2>b DEF Enter, Reads
  <2>8. ASSUME NEW client \in Clients, NEW pool \in Pools, Ask(client, pool)
        PROVE  MineInv'
    BY <2>8, <2>b DEF Ask
  <2>9. ASSUME NEW client \in Clients, Answer(client)
        PROVE  MineInv'
    <3>1. forge'.product = forge.product
      BY <2>9 DEF Answer, TypeOK
    <3>2. QED
      BY <2>9, <2>b, <3>1 DEF Answer
  <2>10. CASE Held
    BY <2>10, <2>b DEF Held
  <2>11. CASE Retry \/ Return
    <3>1. PICK final \in BOOLEAN :
            /\ call # NoCall /\ call.answer # Unsent /\ Sees(call.answer, final)
            /\ UNCHANGED <<phase, stage, forge>>
      BY <2>11 DEF Retry, Return
    <3>2. phase \in Phases
      BY <3>1 DEF PhaseInv, Phases
    <3>3. truth'.mine = truth.mine + One(Guessed(call.answer))
      BY <3>1, <3>2, NotedCounts DEF Sees
    <3>4. /\ spend'.pending \in Nat /\ spend'.pendingGitHub \in Nat
          /\ Guessed(call.answer) => GitHub /\ stage = "opening"
          /\ stage = "opening" /\ GitHub =>
               spend'.pending - spend'.pendingGitHub
                 = spend.pending - spend.pendingGitHub + One(Guessed(call.answer))
      BY <3>1, SeesCounts DEF TypeOK
    <3>5. QED
      BY <2>a, <3>1, <3>3, <3>4 DEF MineInv, GitHub, One
  <2>12. CASE Renew
    <3>1. forge'.product = forge.product
      BY <2>12 DEF Renew, TypeOK
    <3>2. QED
      BY <2>12, <2>b, <3>1 DEF Renew
  <2>13. CASE OthersDraw
    BY <2>13, <2>b, OthersDrawType DEF OthersDraw
  <2>14. CASE UNCHANGED vars
    BY <2>14, <2>b DEF vars
  <2>15. QED
    BY <2>1, <2>2, <2>3, <2>4, <2>5, <2>6, <2>7, <2>8, <2>9, <2>10, <2>11, <2>12, <2>13, <2>14 DEF Next
<1>3. QED
  BY <1>1, <1>2, TypesHold, StagesHold, CallsHold, PTL DEF Spec

LEMMA DueCounts ==
  ASSUME TypeOK, NEW p \in Phases
  PROVE  /\ Due(p) \in Spends
         /\ Due(p).sent = book.by[p].sent + IF p = phase THEN Spent(spend).sent - book.at.sent ELSE 0
         /\ Due(p).rest = book.by[p].rest + IF p = phase THEN Spent(spend).rest - book.at.rest ELSE 0
         /\ book.by[p].sent \in Int /\ book.by[p].rest \in Int
         /\ book.at.sent \in Int /\ book.at.rest \in Int
         /\ Spent(spend).sent \in Int /\ Spent(spend).rest \in Int
<1>1. spend \in SpendMeters /\ book.at \in Spends /\ book.by[p] \in Spends
  BY DEF TypeOK, SpendMeters
<1>2. Spent(spend) \in Spends
  BY <1>1, SpentType
<1>3. \A s \in Spends : s.sent \in Int /\ s.rest \in Int
  BY DEF Spends
<1>4. QED
  BY <1>1, <1>2, <1>3, SumType DEF Due

(* What is not charged yet belongs to the phase under way. *)
LEMMA BooksHold == Spec => []BookInv
<1>1. ASSUME Init
      PROVE  BookInv
  <2>1. \A p \in Phases : Due(p) = Zero
    BY <1>1 DEF Init, Due, NewBook, Phases, Reads
  <2>2. QED
    BY <1>1, <2>1 DEF Init, BookInv, NoTruth, Zero
<1>2. ASSUME TypeOK, TypeOK', TruthType, TruthType', PhaseInv, StageInv, CallInv, MineInv, BookInv, [Next]_vars
      PROVE  BookInv'
  <2> USE <1>2
  <2>a. /\ spend \in SpendMeters /\ Priced(spend) /\ truth.mine \in Nat
        /\ \A p \in Phases : truth.sent[p] \in Nat /\ truth.rest[p] \in Nat
    BY DEF TypeOK, SpendMeters, Priced, TruthType
  <2>b. ASSUME \A p \in Phases : Due(p)'.sent = Due(p).sent /\ Due(p)'.rest = Due(p).rest,
               UNCHANGED truth
        PROVE  BookInv'
    BY <2>b DEF BookInv
  <2>c. ASSUME UNCHANGED <<phase, spend, book, truth>>
        PROVE  BookInv'
    BY <2>b, <2>c DEF Due
  <2>d. ASSUME Charged, phase \in Phases, UNCHANGED <<spend, truth>>
        PROVE  BookInv'
    <3>1. book'.at = Spent(spend') /\ \A p \in Phases : book'.by[p] = Due(p)
      BY <2>d, ChargedType
    <3>2. \A p \in Phases : Due(p)'.sent = Due(p).sent /\ Due(p)'.rest = Due(p).rest
      <4>1. ASSUME NEW p \in Phases
            PROVE  Due(p)'.sent = Due(p).sent /\ Due(p)'.rest = Due(p).rest
        <5>1. Due(p) \in Spends /\ Due(p).sent \in Int /\ Due(p).rest \in Int
          BY DueCounts DEF Spends
        <5>2. spend' \in SpendMeters /\ Spent(spend') \in Spends
          BY SpentType DEF TypeOK, SpendMeters
        <5>3. CASE p = phase'
          <6>1. Due(p)' = Plus(Due(p), Minus(Spent(spend'), Spent(spend')))
            BY <3>1, <5>3 DEF Due
          <6>2. Spent(spend').sent \in Int /\ Spent(spend').rest \in Int
            BY <5>2 DEF Spends
          <6>3. QED
            BY <5>1, <5>2, <6>1, <6>2, SumType
        <5>4. CASE p # phase'
          BY <3>1, <5>4 DEF Due
        <5>5. QED
          BY <5>3, <5>4
      <4>2. QED
        BY <4>1
    <3>3. QED
      BY <2>b, <2>d, <3>2
  <2>1. CASE StartScan
    <3>1. book' = [at |-> Spent(spend), by |-> [p \in Phases |-> Zero]] /\ spend' = spend
      BY <2>1 DEF StartScan, NewBook
    <3>2. Spent(spend) \in Spends /\ Zero \in Spends
      BY <2>a, SpentType DEF Spends, Zero
    <3>3. ASSUME NEW p \in Phases
          PROVE  Due(p)'.sent = 0 /\ Due(p)'.rest = 0
      <4>1. Due(p)' = Zero \/ Due(p)' = Plus(Zero, Minus(Spent(spend), Spent(spend)))
        BY <3>1 DEF Due
      <4>2. Spent(spend).sent \in Int /\ Spent(spend).rest \in Int
        BY <3>2 DEF Spends
      <4>3. Zero.sent = 0 /\ Zero.rest = 0
        BY DEF Zero
      <4>4. QED
        BY <3>2, <4>1, <4>2, <4>3, SumType
    <3>4. truth'.mine = 0 /\ \A p \in Phases : truth'.sent[p] = 0 /\ truth'.rest[p] = 0
      BY <2>1 DEF StartScan, NoTruth
    <3>5. QED
      BY <3>3, <3>4 DEF BookInv
  <2>2. CASE StartOpen
    <3>1. Spent(spend') = Spent(spend) /\ UNCHANGED <<phase, book>>
      BY <2>2, <2>a, DetectKeeps DEF StartOpen
    <3>2. \A p \in Phases : Due(p)' = Due(p)
      BY <3>1 DEF Due
    <3>3. truth'.mine = truth.mine /\ truth'.sent = truth.sent /\ truth'.rest = truth.rest
      BY <2>2 DEF StartOpen, MineInv, TruthType
    <3>4. QED
      BY <3>2, <3>3 DEF BookInv
  <2>3. CASE NameProduct
    <3>1. /\ phase = "open" /\ stage = "opening" /\ UNCHANGED <<phase, book, forge>>
          /\ forge.product \in {"github", "other"} /\ spend' = Name(spend, forge.product)
      BY <2>3 DEF NameProduct, PhaseInv, TypeOK
    <3>2. Spent(spend').sent = Spent(spend).sent /\ Spent(spend').rest = Spent(spend).rest - truth.mine
      <4>1. truth.mine = IF forge.product = "github" THEN spend.pending - spend.pendingGitHub ELSE 0
        BY <3>1 DEF MineInv, GitHub
      <4>2. LET taken == Spent(Name(spend, forge.product))
            IN  /\ taken.sent = Spent(spend).sent
                /\ taken.rest = Spent(spend).rest - IF forge.product = "github" THEN spend.pending - spend.pendingGitHub ELSE 0
        BY <2>a, <3>1, NameTakesBack, Zenon
      <4>3. QED
        BY <3>1, <4>1, <4>2
    <3>3. truth'.mine = 0 /\ truth'.sent = truth.sent /\ truth'.rest = truth.rest
      BY <2>3 DEF NameProduct, TruthType
    <3>4. ASSUME NEW p \in Phases
          PROVE  Due(p)'.sent = Due(p).sent /\ Due(p)'.rest = Due(p).rest - IF p = "open" THEN truth.mine ELSE 0
      <4>1. Due(p)'.sent = book.by[p].sent + (IF p = phase THEN Spent(spend').sent - book.at.sent ELSE 0)
            /\ Due(p)'.rest = book.by[p].rest + (IF p = phase THEN Spent(spend').rest - book.at.rest ELSE 0)
        <5>1. spend' \in SpendMeters /\ book.at \in Spends /\ book.by[p] \in Spends
          BY DEF TypeOK, SpendMeters
        <5>2. Spent(spend') \in Spends
          BY <5>1, SpentType
        <5>3. \A s \in Spends : s.sent \in Int /\ s.rest \in Int
          BY DEF Spends
        <5>4. QED
          BY <3>1, <5>1, <5>2, <5>3, SumType DEF Due
      <4>2. QED
        BY <2>a, <3>1, <3>2, <4>1, DueCounts
    <3>5. QED
      <4>1. ASSUME NEW p \in Phases
            PROVE  Due(p).sent \in Int /\ Due(p).rest \in Int
        BY DueCounts DEF Spends
      <4>2. QED
        BY <2>a, <3>3, <3>4, <4>1 DEF BookInv
  <2>4. CASE Opened \/ Held
    BY <2>4, <2>c DEF Opened, Held
  <2>5. CASE Fails \/ EndScan \/ BeginReads
    BY <2>5, <2>d DEF Fails, EndScan, BeginReads, Phases
  <2>6. ASSUME NEW p \in Reads, Enter(p)
        PROVE  BookInv'
    BY <2>6, <2>d DEF Enter, Phases
  <2>7. ASSUME NEW client \in Clients, NEW pool \in Pools, Ask(client, pool)
        PROVE  BookInv'
    BY <2>7, <2>c DEF Ask
  <2>8. ASSUME NEW client \in Clients, Answer(client)
        PROVE  BookInv'
    BY <2>8, <2>c DEF Answer
  <2>9. CASE Retry \/ Return
    <3>1. PICK final \in BOOLEAN :
            /\ call # NoCall /\ call.answer # Unsent /\ Sees(call.answer, final)
            /\ UNCHANGED <<phase, stage, book, forge>>
      BY <2>9 DEF Retry, Return
    <3>2. phase \in Phases
      BY <3>1 DEF PhaseInv, Phases
    <3> DEFINE bill == One(Bills(call.answer))
    <3> DEFINE guess == One(Guessed(call.answer))
    <3>3. /\ truth'.mine = truth.mine + guess
          /\ \A p \in Phases : truth'.sent[p] = truth.sent[p] + One(p = phase)
                            /\ truth'.rest[p] = truth.rest[p] + One(p = phase /\ Bills(call.answer))
      BY <3>1, <3>2, NotedCounts DEF Sees
    <3>4. /\ Spent(spend').sent = Spent(spend).sent + 1
          /\ Spent(spend').rest = Spent(spend).rest + bill + guess
          /\ bill \in Nat /\ guess \in Nat /\ (guess # 0 => phase = "open")
      BY <3>1, SeesCounts DEF PhaseInv, One
    <3>5. \A p \in Phases : One(p = phase) = (IF p = phase THEN 1 ELSE 0)
                         /\ One(p = phase /\ Bills(call.answer)) = (IF p = phase THEN bill ELSE 0)
      BY DEF One
    <3> HIDE DEF bill, guess
    <3>6. ASSUME NEW p \in Phases
          PROVE  /\ Due(p)'.sent = truth'.sent[p]
                 /\ Due(p)'.rest = truth'.rest[p] + IF p = "open" THEN truth'.mine ELSE 0
      <4>1. Due(p)'.sent = book.by[p].sent + (IF p = phase THEN Spent(spend').sent - book.at.sent ELSE 0)
            /\ Due(p)'.rest = book.by[p].rest + (IF p = phase THEN Spent(spend').rest - book.at.rest ELSE 0)
        <5>1. spend' \in SpendMeters /\ book.at \in Spends /\ book.by[p] \in Spends
          BY DEF TypeOK, SpendMeters
        <5>2. Spent(spend') \in Spends
          BY <5>1, SpentType
        <5>3. \A s \in Spends : s.sent \in Int /\ s.rest \in Int
          BY DEF Spends
        <5>4. QED
          BY <3>1, <5>1, <5>2, <5>3, SumType DEF Due
      <4>2. /\ Due(p).sent = truth.sent[p]
            /\ Due(p).rest = truth.rest[p] + IF p = "open" THEN truth.mine ELSE 0
        BY DEF BookInv
      <4>3. QED
        BY <2>a, <3>3, <3>4, <3>5, <4>1, <4>2, DueCounts
    <3>7. QED
      BY <3>6 DEF BookInv
  <2>10. CASE Renew \/ OthersDraw
    BY <2>10, <2>c DEF Renew, OthersDraw
  <2>11. CASE UNCHANGED vars
    BY <2>11, <2>c DEF vars
  <2>12. QED
    BY <2>1, <2>2, <2>3, <2>4, <2>5, <2>6, <2>7, <2>8, <2>9, <2>10, <2>11 DEF Next
<1>3. QED
  BY <1>1, <1>2, TypesHold, StagesHold, CallsHold, MineHolds, PTL DEF Spec

(* A scan's line charges each phase the requests sent in it and those the forge
   billed, whatever an earlier open left unpriced (requestBook, spend.Meter);
   only the open's may hold more, where no product priced them. *)
THEOREM LinesCount == Spec => []LineCounts
<1>1. ASSUME TypeOK, TruthType, BookInv
      PROVE  LineCounts
  <2> SUFFICES ASSUME phase = "idle", NEW p \in Phases
               PROVE  /\ book.by[p].sent = truth.sent[p]
                      /\ book.by[p].rest - truth.rest[p] \in 0..(IF p = "open" THEN truth.mine ELSE 0)
    BY DEF LineCounts
  <2>1. Due(p) = book.by[p]
    BY DEF Due, Phases, Reads
  <2>2. truth.mine \in Nat /\ truth.rest[p] \in Nat
    BY <1>1 DEF TruthType
  <2>3. QED
    BY <1>1, <2>1, <2>2 DEF BookInv
<1>2. QED
  BY <1>1, TypesHold, BooksHold, PTL

(* The counts of a connection implement Bill: they never show less than the
   forge billed, and what is taken back when the product is named was a guess
   (spend.Meter.Detect, Name and see). *)
THEOREM CountsImplementBill == Spec => BillSpec
<1>1. Init => Counted!BillInit
  BY DEF Init, Counted!BillInit, NoTruth, NewSpend, Spent, Zero
<1>2. ASSUME TypeOK, TypeOK', TruthType, PhaseInv, StageInv, CallInv, MineInv, [Next]_vars
      PROVE  [Counted!BillNext]_(Counted!bill)
  <2> USE <1>2
  <2>a. /\ spend \in SpendMeters /\ Priced(spend) /\ Spent(spend).rest \in Int
        /\ truth.mine \in Nat /\ truth.guessed \in Nat /\ truth.mine <= truth.guessed
    <3>1. spend \in SpendMeters /\ Priced(spend)
      BY DEF TypeOK, SpendMeters, Priced
    <3>2. QED
      BY <3>1, SpentType DEF TruthType, Spends
  <2>1. ASSUME UNCHANGED spend, truth'.owed = truth.owed, truth'.guessed = truth.guessed
        PROVE  UNCHANGED Counted!bill
    BY <2>1 DEF Counted!bill
  <2>2. CASE StartScan
    BY <2>1, <2>2 DEF StartScan, NoTruth
  <2>3. CASE StartOpen
    <3>1. truth'.owed = truth.owed /\ truth'.guessed = truth.guessed
      BY <2>3 DEF StartOpen, TruthType
    <3>2. Spent(spend') = Spent(spend)
      BY <2>3, <2>a, DetectKeeps DEF StartOpen
    <3>3. QED
      BY <3>1, <3>2 DEF Counted!bill
  <2>4. CASE NameProduct
    <3>1. truth'.owed = truth.owed /\ truth'.guessed = truth.guessed - truth.mine
      BY <2>4 DEF NameProduct, TruthType
    <3>2. Spent(spend').rest = Spent(spend).rest - truth.mine
      <4>1. /\ stage = "opening" /\ forge.product \in {"github", "other"}
            /\ spend' = Name(spend, forge.product)
        BY <2>4 DEF NameProduct, TypeOK
      <4>2. truth.mine = IF forge.product = "github" THEN spend.pending - spend.pendingGitHub ELSE 0
        BY <4>1 DEF MineInv, GitHub
      <4>3. Spent(Name(spend, forge.product)).rest =
               Spent(spend).rest - IF forge.product = "github" THEN spend.pending - spend.pendingGitHub ELSE 0
        BY <2>a, <4>1, NameTakesBack, Zenon
      <4>4. QED
        BY <4>1, <4>2, <4>3
    <3>3. CASE truth.mine = 0
      BY <2>a, <3>1, <3>2, <3>3 DEF Counted!bill
    <3>4. CASE truth.mine # 0
      <4>1. truth.mine \in 1..truth.guessed
        BY <2>a, <3>4
      <4>2. Counted!TakeBack(truth.mine)
        BY <3>1, <3>2 DEF Counted!TakeBack
      <4>3. QED
        BY <4>1, <4>2 DEF Counted!BillNext
    <3>5. QED
      BY <3>3, <3>4
  <2>5. CASE Opened \/ Fails \/ EndScan \/ BeginReads \/ Held \/ OthersDraw \/ Renew \/ UNCHANGED vars
    BY <2>1, <2>5 DEF Opened, Fails, EndScan, BeginReads, Held, OthersDraw, Renew, vars
  <2>6. CASE \/ \E p \in Reads : Enter(p)
             \/ \E client \in Clients, pool \in Pools : Ask(client, pool)
             \/ \E client \in Clients : Answer(client)
    BY <2>1, <2>6 DEF Enter, Ask, Answer
  <2>7. CASE Retry \/ Return
    <3>1. PICK final \in BOOLEAN :
            call # NoCall /\ call.answer # Unsent /\ Sees(call.answer, final)
      BY <2>7 DEF Retry, Return
    <3>2. phase \in Phases
      BY <3>1 DEF PhaseInv, Phases
    <3>3. /\ truth'.owed = truth.owed + One(Bills(call.answer))
          /\ truth'.guessed = truth.guessed + One(Guessed(call.answer))
      BY <3>1, <3>2, NotedCounts DEF Sees
    <3>4. /\ Spent(spend').rest = Spent(spend).rest + One(Bills(call.answer)) + One(Guessed(call.answer))
          /\ ~(Bills(call.answer) /\ Guessed(call.answer))
      BY <3>1, SeesCounts
    <3>5. truth.owed \in Nat
      BY DEF TruthType
    <3>6. CASE Bills(call.answer)
      <4>1. Counted!Billed
        BY <2>a, <3>3, <3>4, <3>5, <3>6 DEF Counted!Billed, One
      <4>2. QED
        BY <4>1 DEF Counted!BillNext
    <3>7. CASE Guessed(call.answer)
      <4>1. Counted!Guess
        BY <2>a, <3>3, <3>4, <3>5, <3>7 DEF Counted!Guess, One
      <4>2. QED
        BY <4>1 DEF Counted!BillNext
    <3>8. CASE ~Bills(call.answer) /\ ~Guessed(call.answer)
      BY <2>a, <3>3, <3>4, <3>5, <3>8 DEF Counted!bill, One
    <3>9. QED
      BY <3>6, <3>7, <3>8
  <2>8. QED
    BY <2>2, <2>3, <2>4, <2>5, <2>6, <2>7 DEF Next
<1>3. QED
  BY <1>1, <1>2, TypesHold, StagesHold, CallsHold, MineHolds, PTL DEF Spec, BillSpec, Counted!BillSpec

(* What a connection shows is what the forge billed and its guesses, so it
   never shows less than the forge billed: what Bill promises. *)
THEOREM NothingUndercounted ==
  Spec => [](Spent(spend).rest = truth.owed + truth.guessed /\ truth.owed <= Spent(spend).rest)
<1> DEFINE Adds == Spent(spend).rest = truth.owed + truth.guessed
<1>1. Init => Adds
  BY DEF Init, NoTruth, NewSpend, Spent, Zero
<1>2. ASSUME TypeOK, TruthType, Adds, [Counted!BillNext]_(Counted!bill)
      PROVE  Adds'
  <2>1. truth.owed \in Int /\ truth.guessed \in Int
    BY <1>2 DEF TruthType
  <2>2. QED
    BY <1>2, <2>1 DEF Counted!BillNext, Counted!Billed, Counted!Guess, Counted!TakeBack, Counted!bill
<1>3. TruthType /\ Adds => Adds /\ truth.owed <= Spent(spend).rest
  BY DEF TruthType
<1>4. QED
  BY <1>1, <1>2, <1>3, TypesHold, CountsImplementBill, PTL DEF Spec, BillSpec, Counted!BillSpec
=============================================================================
