-------------------------- MODULE RunHistoryProofs --------------------------
(***************************************************************************)
(* What holds of RunHistory for any runs, times and windows: its types;    *)
(* every stored verdict is one the next start accepts; each reading is     *)
(* logged once; a verdict a listing vouches for is current; a day with     *)
(* runs no listing returned is clipped; and a failure streak not marked    *)
(* clipped skips only the runs of gaps.                                    *)
(***************************************************************************)
EXTENDS RunHistory, SequenceFacts

(* A base a verdict created at t may have: none listed, no streak, or a
   failure streak begun by then. *)
BaseOf(b, t) ==
    /\ b \in Streak \cup {Unlisted}
    /\ \/ b \in {Unlisted, NoStreak}
       \/ b.count >= 1 /\ b.since > 0 /\ b.since <= t

(* A finished run, as a row gives it to judge. *)
FinishedRun == [id : Nat \ {0}, created : Nat \ {0}, state : States]

-----------------------------------------------------------------------------
(* Judging. *)

(* The streak a run ends is one a later run may follow. *)
LEMMA NextStreakBegun ==
  ASSUME NEW t \in Nat \ {0}, NEW b, BaseOf(b, t), NEW s \in States
  PROVE  NextStreak(b, s, t) \in Streak /\ BaseOf(NextStreak(b, s, t), t)
<1>1. CASE s # "failing"
  BY <1>1 DEF NextStreak, BaseOf, Streak
<1>2. CASE s = "failing" /\ b = Unlisted
  BY <1>2 DEF NextStreak, BaseOf, Streak
<1>3. CASE s = "failing" /\ b # Unlisted /\ b = NoStreak
  BY <1>3 DEF NextStreak, BaseOf, Streak, NoStreak
<1>4. CASE s = "failing" /\ b # Unlisted /\ b # NoStreak
  <2>1. b \in [count : Nat \ {0}, since : Nat \ {0}, clipped : BOOLEAN] /\ b.since <= t
    BY <1>4 DEF BaseOf, Streak
  <2>2. NextStreak(b, s, t) = [count |-> b.count + 1, since |-> b.since, clipped |-> b.clipped]
    BY <1>4, <2>1 DEF NextStreak
  <2> QED
    BY <2>1, <2>2 DEF BaseOf, Streak
<1> QED
  BY <1>1, <1>2, <1>3, <1>4

(* A later run may follow any streak an earlier one may. *)
LEMMA BaseLater ==
  ASSUME NEW t \in Nat, NEW u \in Nat, t <= u, NEW b, BaseOf(b, t)
  PROVE  BaseOf(b, u)
<1>1. CASE b \in {Unlisted, NoStreak}
  BY <1>1 DEF BaseOf
<1>2. CASE b \notin {Unlisted, NoStreak}
  BY <1>2 DEF BaseOf, Streak
<1> QED
  BY <1>1, <1>2

(* ValidVerdict, said with BaseOf. *)
LEMMA ValidVerdictBase ==
  ASSUME NEW v \in Verdict
  PROVE  ValidVerdict(v) <=>
           /\ v.id > 0 /\ v.created > 0
           /\ BaseOf(v.base, v.created)
           /\ v.streak = NextStreak(v.base, v.state, v.created)
  BY DEF ValidVerdict, BaseOf, Verdict

(* Judging a run after a valid verdict, or none, makes a valid verdict. *)
LEMMA JudgeValid ==
  ASSUME NEW r \in FinishedRun, NEW v, NEW covered \in BOOLEAN,
         v # NoVerdict => v \in Verdict /\ ValidVerdict(v) /\ (v.id = r.id => v.created = r.created),
         Moves(v, r)
  PROVE  /\ Judge(v, r, covered) \in Verdict
         /\ ValidVerdict(Judge(v, r, covered))
         /\ Judge(v, r, covered).id = r.id
         /\ Judge(v, r, covered).created = r.created
         /\ Judge(v, r, covered).state = r.state
<1> DEFINE b == Base(v, r, covered)
<1>1. r.id \in Nat \ {0} /\ r.created \in Nat \ {0} /\ r.state \in States
  BY DEF FinishedRun
<1>2. BaseOf(b, r.created)
  <2>1. CASE b = Unlisted
    BY <2>1 DEF BaseOf
  <2>2. CASE v # NoVerdict /\ v.id = r.id
    BY <2>2, ValidVerdictBase DEF Base
  <2>3. CASE v # NoVerdict /\ v.id # r.id /\ covered
    <3>1. b = v.streak
      BY <2>3 DEF Base
    <3>2. v.created \in Nat \ {0} /\ v.state \in States /\ BaseOf(v.base, v.created)
          /\ v.streak = NextStreak(v.base, v.state, v.created)
      BY <2>3, ValidVerdictBase DEF Verdict
    <3>3. BaseOf(v.streak, v.created)
      BY <3>2, NextStreakBegun
    <3>4. v.created <= r.created
      BY <2>3, <3>2, <1>1 DEF Moves, Precedes
    <3> QED
      BY <3>1, <3>2, <3>3, <3>4, <1>1, BaseLater
  <2> QED
    BY <2>1, <2>2, <2>3 DEF Base
<1>3. NextStreak(b, r.state, r.created) \in Streak
  BY <1>1, <1>2, NextStreakBegun
<1>4. Judge(v, r, covered) = [id |-> r.id, created |-> r.created, state |-> r.state,
                              base |-> b, streak |-> NextStreak(b, r.state, r.created)]
  BY DEF Judge
<1>5. b \in Streak \cup {Unlisted}
  BY <1>2 DEF BaseOf
<1> HIDE DEF b
<1>6. Judge(v, r, covered) \in Verdict
  BY <1>1, <1>3, <1>4, <1>5 DEF Verdict
<1> QED
  BY <1>1, <1>2, <1>4, <1>6, ValidVerdictBase
-----------------------------------------------------------------------------
(* Stored verdicts load. *)

(* A run no forge created has no finish, and any other a creation time. *)
RunsInv ==
    /\ now \in Nat \ {0}
    /\ runs \in [Ids -> [created : Nat, results : Seq(States), running : BOOLEAN]]
    /\ \A r \in Ids : runs[r] # Absent => runs[r].created > 0

(* The rows still to be applied, and the deliveries, are finishes of runs. *)
FinishesInv ==
    /\ DOMAIN scan = DOMAIN NoScan
    /\ \A x \in scan.rows : x[1] \in Ids /\ x[2] \in 1..Len(runs[x[1]].results)
    /\ delivered \in [Ids -> Nat]
    /\ \A r \in Ids : delivered[r] <= Len(runs[r].results)

(* The verdict is of a run of the workflow, with that run's creation time,
   and as StateLoads says. *)
VerdictInv ==
    verdict # NoVerdict =>
        /\ verdict \in Verdict
        /\ verdict.id \in Ids \ PullRequests
        /\ verdict.created = runs[verdict.id].created
        /\ ValidVerdict(verdict)
        /\ delivered[verdict.id] # 0 =>
              verdict.state = runs[verdict.id].results[delivered[verdict.id]]

HistoryInv == RunsInv /\ FinishesInv /\ VerdictInv

(* Init establishes the invariant. *)
LEMMA HistoryInit == Init => HistoryInv
<1> SUFFICES ASSUME Init PROVE HistoryInv
  OBVIOUS
<1>1. /\ now = 1
      /\ runs = [r \in Ids |-> Absent]
      /\ scan = NoScan
      /\ delivered = [r \in Ids |-> 0]
      /\ verdict = NoVerdict
  BY DEF Init
<1>2. Absent \in [created : Nat, results : Seq(States), running : BOOLEAN] /\ Absent.results = <<>>
  <2>1. <<>> \in Seq(States)
    OBVIOUS
  <2> QED
    BY <2>1 DEF Absent
<1>3. RunsInv
  BY <1>1, <1>2 DEF RunsInv
<1>4. FinishesInv
  <2>1. DOMAIN scan = DOMAIN NoScan
    BY <1>1
  <2>2. scan.rows = {}
    BY <1>1 DEF NoScan
  <2>3. \A r \in Ids : Len(runs[r].results) = 0
    BY <1>1, <1>2
  <2> QED
    BY <1>1, <2>1, <2>2, <2>3 DEF FinishesInv
<1>5. VerdictInv
  BY <1>1 DEF VerdictInv
<1> QED
  BY <1>3, <1>4, <1>5 DEF HistoryInv

(* The forge keeps a run's creation time and its finishes: what the store
   holds of them stays true. *)
LEMMA RunsGrow ==
  ASSUME HistoryInv, RunsInv',
         \A r \in Ids :
            /\ runs[r] # Absent => runs'[r].created = runs[r].created
            /\ Len(runs[r].results) <= Len(runs'[r].results)
            /\ \A n \in 1..Len(runs[r].results) : runs'[r].results[n] = runs[r].results[n],
         UNCHANGED <<scan, delivered, verdict>>
  PROVE  HistoryInv'
<1>1. \A r \in Ids : Len(runs[r].results) \in Nat /\ Len(runs'[r].results) \in Nat
  BY DEF HistoryInv, RunsInv
<1>2. FinishesInv'
  <2>1. DOMAIN scan' = DOMAIN NoScan /\ delivered' \in [Ids -> Nat]
    BY DEF HistoryInv, FinishesInv
  <2>2. ASSUME NEW x \in scan'.rows
        PROVE  x[1] \in Ids /\ x[2] \in 1..Len(runs'[x[1]].results)
    <3>1. x[1] \in Ids /\ x[2] \in 1..Len(runs[x[1]].results)
      BY <2>2 DEF HistoryInv, FinishesInv
    <3> QED
      BY <3>1, <1>1
  <2>3. ASSUME NEW r \in Ids PROVE delivered'[r] <= Len(runs'[r].results)
    <3>1. delivered[r] <= Len(runs[r].results) /\ delivered[r] \in Nat
      BY DEF HistoryInv, FinishesInv
    <3> QED
      BY <3>1, <1>1
  <2> QED
    BY <2>1, <2>2, <2>3 DEF FinishesInv
<1>3. VerdictInv'
  <2> SUFFICES ASSUME verdict # NoVerdict
               PROVE  /\ verdict \in Verdict
                      /\ verdict.id \in Ids \ PullRequests
                      /\ verdict.created = runs'[verdict.id].created
                      /\ ValidVerdict(verdict)
                      /\ delivered[verdict.id] # 0 =>
                            verdict.state = runs'[verdict.id].results[delivered[verdict.id]]
    BY DEF VerdictInv
  <2>1. /\ verdict \in Verdict
        /\ verdict.id \in Ids \ PullRequests
        /\ verdict.created = runs[verdict.id].created
        /\ ValidVerdict(verdict)
        /\ delivered[verdict.id] # 0 =>
              verdict.state = runs[verdict.id].results[delivered[verdict.id]]
    BY DEF HistoryInv, VerdictInv
  <2>2. runs[verdict.id] # Absent
    BY <2>1, ValidVerdictBase DEF Absent, Verdict
  <2>3. delivered[verdict.id] # 0 => delivered[verdict.id] \in 1..Len(runs[verdict.id].results)
    BY <2>1, <1>1 DEF HistoryInv, FinishesInv
  <2> QED
    BY <2>1, <2>2, <2>3
<1> QED
  BY <1>2, <1>3 DEF HistoryInv
-----------------------------------------------------------------------------
(* One lemma per kind of step. *)

(* A forge's step only adds runs and finishes. *)
LEMMA ForgeSteps ==
  ASSUME HistoryInv,
         \/ \E r \in Ids : Create(r) \/ Rerun(r)
         \/ \E r \in Ids, s \in States : Finish(r, s)
         \/ Tick
  PROVE  HistoryInv'
<1>1. CASE \E r \in Ids : Create(r)
  <2> PICK r \in Ids : Create(r)
    BY <1>1
  <2>1. runs[r] = Absent
    <3>1. Created = {q \in Ids : q < r} /\ r \in Nat
      BY IdsAssumption DEF Create
    <3> QED
      BY <3>1 DEF Created
  <2>2. /\ runs' = [runs EXCEPT ![r] = [created |-> now, results |-> <<>>, running |-> TRUE]]
        /\ UNCHANGED <<now, scan, delivered, verdict>>
    BY DEF Create, storeVars
  <2>3. [created |-> now, results |-> <<>>, running |-> TRUE]
           \in [created : Nat, results : Seq(States), running : BOOLEAN]
    <3>1. <<>> \in Seq(States)
      OBVIOUS
    <3> QED
      BY <3>1 DEF HistoryInv, RunsInv
  <2>4. RunsInv'
    <3>1. runs' \in [Ids -> [created : Nat, results : Seq(States), running : BOOLEAN]]
      BY <2>2, <2>3 DEF HistoryInv, RunsInv
    <3>2. runs'[r].created > 0
      BY <2>2 DEF HistoryInv, RunsInv
    <3>3. \A q \in Ids : q # r => runs'[q] = runs[q]
      BY <2>2 DEF HistoryInv, RunsInv
    <3> QED
      BY <2>2, <3>1, <3>2, <3>3 DEF HistoryInv, RunsInv
  <2>5. ASSUME NEW q \in Ids
        PROVE  /\ runs[q] # Absent => runs'[q].created = runs[q].created
               /\ Len(runs[q].results) <= Len(runs'[q].results)
               /\ \A n \in 1..Len(runs[q].results) : runs'[q].results[n] = runs[q].results[n]
    <3>1. CASE q = r
      <4>1. runs[q].results = <<>> /\ runs'[q].results = <<>>
        BY <3>1, <2>1, <2>2 DEF Absent, HistoryInv, RunsInv
      <4>2. Len(runs[q].results) = 0 /\ Len(runs'[q].results) = 0
        BY <4>1
      <4> QED
        BY <3>1, <2>1, <4>2
    <3>2. CASE q # r
      <4>1. runs'[q] = runs[q]
        BY <3>2, <2>2 DEF HistoryInv, RunsInv
      <4>2. Len(runs[q].results) \in Nat
        BY DEF HistoryInv, RunsInv
      <4> QED
        BY <4>1, <4>2
    <3> QED
      BY <3>1, <3>2
  <2> QED
    BY <2>2, <2>4, <2>5, RunsGrow
<1>2. CASE \E r \in Ids : Rerun(r)
  <2> PICK r \in Ids : Rerun(r)
    BY <1>2
  <2>1. /\ runs[r] # Absent
        /\ runs' = [runs EXCEPT ![r].running = TRUE]
        /\ UNCHANGED <<now, scan, delivered, verdict>>
    BY DEF Rerun, Created, storeVars
  <2>2. \A q \in Ids : runs'[q].created = runs[q].created /\ runs'[q].results = runs[q].results
    BY <2>1 DEF HistoryInv, RunsInv
  <2>3. RunsInv'
    <3>1. runs' \in [Ids -> [created : Nat, results : Seq(States), running : BOOLEAN]]
      BY <2>1 DEF HistoryInv, RunsInv
    <3>2. \A q \in Ids : q # r => runs'[q] = runs[q]
      BY <2>1 DEF HistoryInv, RunsInv
    <3>3. \A q \in Ids : runs'[q] # Absent => runs'[q].created > 0
      BY <2>1, <2>2, <3>2 DEF HistoryInv, RunsInv
    <3> QED
      BY <2>1, <3>1, <3>3 DEF HistoryInv, RunsInv
  <2>4. \A q \in Ids : Len(runs[q].results) \in Nat
    BY DEF HistoryInv, RunsInv
  <2> QED
    BY <2>1, <2>2, <2>3, <2>4, RunsGrow
<1>3. CASE \E r \in Ids, s \in States : Finish(r, s)
  <2> PICK r \in Ids, s \in States : Finish(r, s)
    BY <1>3
  <2>1. /\ runs[r].running
        /\ runs' = [runs EXCEPT ![r].running = FALSE, ![r].results = Append(@, s)]
        /\ UNCHANGED <<now, scan, delivered, verdict>>
    BY DEF Finish, storeVars
  <2>2. runs[r] # Absent
    BY <2>1 DEF Absent
  <2>3. \A q \in Ids : runs[q].results \in Seq(States)
    BY DEF HistoryInv, RunsInv
  <2>4. runs'[r].created = runs[r].created /\ runs'[r].results = Append(runs[r].results, s)
    BY <2>1 DEF HistoryInv, RunsInv
  <2>5. \A q \in Ids : q # r => runs'[q] = runs[q]
    BY <2>1 DEF HistoryInv, RunsInv
  <2>6. Append(runs[r].results, s) \in Seq(States)
    BY <2>3
  <2>7. RunsInv'
    <3>1. runs' \in [Ids -> [created : Nat, results : Seq(States), running : BOOLEAN]]
      BY <2>1, <2>6 DEF HistoryInv, RunsInv
    <3>2. \A q \in Ids : runs'[q] # Absent => runs'[q].created > 0
      BY <2>2, <2>4, <2>5 DEF HistoryInv, RunsInv
    <3> QED
      BY <2>1, <3>1, <3>2 DEF HistoryInv, RunsInv
  <2>8. ASSUME NEW q \in Ids
        PROVE  /\ runs[q] # Absent => runs'[q].created = runs[q].created
               /\ Len(runs[q].results) <= Len(runs'[q].results)
               /\ \A n \in 1..Len(runs[q].results) : runs'[q].results[n] = runs[q].results[n]
    <3>1. CASE q = r
      BY <3>1, <2>3, <2>4
    <3>2. CASE q # r
      BY <3>2, <2>3, <2>5
    <3> QED
      BY <3>1, <3>2
  <2> QED
    BY <2>1, <2>7, <2>8, RunsGrow
<1>4. CASE Tick
  <2>1. now' = now + 1 /\ UNCHANGED <<runs, scan, delivered, verdict>>
    BY <1>4 DEF Tick, storeVars
  <2>2. RunsInv'
    BY <2>1 DEF HistoryInv, RunsInv
  <2>3. \A q \in Ids : Len(runs[q].results) \in Nat
    BY DEF HistoryInv, RunsInv
  <2> QED
    BY <2>1, <2>2, <2>3, RunsGrow
<1> QED
  BY <1>1, <1>2, <1>3, <1>4

(* A step of the scan that leaves the store alone, and rows that are finishes
   of their runs. *)
LEMMA ScanSteps ==
  ASSUME HistoryInv, DOMAIN scan' = DOMAIN NoScan,
         \A x \in scan'.rows : x[1] \in Ids /\ x[2] \in 1..Len(runs[x[1]].results),
         UNCHANGED <<now, runs, delivered, verdict>>
  PROVE  HistoryInv'
<1>1. RunsInv'
  BY DEF HistoryInv, RunsInv
<1>2. FinishesInv'
  BY DEF HistoryInv, FinishesInv
<1>3. VerdictInv'
  BY DEF HistoryInv, VerdictInv
<1> QED
  BY <1>1, <1>2, <1>3 DEF HistoryInv

LEMMA BeginSteps == ASSUME HistoryInv, Begin PROVE HistoryInv'
<1>1. scan' = [NoScan EXCEPT !.stage = "reading", !.start = now]
      /\ UNCHANGED <<now, runs, delivered, verdict>>
  BY DEF Begin, forgeVars, storeVars
<1>2. DOMAIN scan' = DOMAIN NoScan /\ scan'.rows = {}
  BY <1>1 DEF NoScan
<1> QED
  BY <1>1, <1>2, ScanSteps

LEMMA AbandonSteps == ASSUME HistoryInv, Abandon PROVE HistoryInv'
<1>1. scan' = NoScan /\ UNCHANGED <<now, runs, delivered, verdict>>
  BY DEF Abandon, forgeVars, storeVars
<1>2. scan'.rows = {}
  BY <1>1 DEF NoScan
<1> QED
  BY <1>1, <1>2, ScanSteps

(* A listing's rows are finishes its runs had: Views. *)
LEMMA ListSteps == ASSUME HistoryInv, List PROVE HistoryInv'
<1> DEFINE window == {r \in Created : runs[r].created >= Window(scan.start)}
<1>0. PICK kept \in SUBSET window, cut \in BOOLEAN :
        \E view \in [kept -> 0..MaxFinishes] :
          /\ \A r \in kept : view[r] \in Views(r)
          /\ Relist(kept, {<<r, view[r]>> : r \in kept}, cut)
  BY DEF List
<1>1. PICK view \in [kept -> 0..MaxFinishes] :
        /\ \A r \in kept : view[r] \in Views(r)
        /\ Relist(kept, {<<r, view[r]>> : r \in kept}, cut)
  BY <1>0
<1> DEFINE rd == {<<r, view[r]>> : r \in kept}
<1>2. scan' = [scan EXCEPT !.stage = "applying", !.cut = cut,
                 !.cover = IF ~cut THEN Window(scan.start)
                           ELSE IF kept = {} THEN scan.start ELSE Min({runs[r].created : r \in kept}),
                 !.contiguous = Follows(listed, cut,
                       IF ~cut THEN Window(scan.start)
                       ELSE IF kept = {} THEN scan.start ELSE Min({runs[r].created : r \in kept})),
                 !.read = rd, !.rows = {x \in rd : x[2] # 0}]
  BY <1>1 DEF Relist
<1>3. DOMAIN scan' = DOMAIN NoScan /\ scan'.rows = {x \in rd : x[2] # 0}
  <2>1. DOMAIN scan = DOMAIN NoScan
    BY DEF HistoryInv, FinishesInv
  <2>2. "rows" \in DOMAIN NoScan
    BY DEF NoScan
  <2> HIDE DEF rd
  <2> QED
    BY <1>2, <2>1, <2>2
<1>4. ASSUME NEW x \in scan'.rows
      PROVE  x[1] \in Ids /\ x[2] \in 1..Len(runs[x[1]].results)
  <2>1. PICK r \in kept : x = <<r, view[r]>>
    BY <1>3, <1>4
  <2>2. r \in Ids /\ view[r] # 0 /\ view[r] \in Views(r)
    BY <1>1, <1>3, <1>4, <2>1 DEF Created
  <2>3. Len(runs[r].results) \in Nat
    BY <2>2 DEF HistoryInv, RunsInv
  <2>4. view[r] \in 0..Len(runs[r].results)
    BY <2>2, <2>3 DEF Views
  <2> QED
    BY <2>1, <2>2, <2>3, <2>4
<1>5. UNCHANGED <<now, runs, delivered, verdict>>
  BY DEF List, forgeVars
<1> QED
  BY <1>3, <1>4, <1>5, ScanSteps
(* A row: an older reading changes nothing, any other is the run's last
   delivery, and the verdict is of that delivery when it is of that run. *)
LEMMA RowSteps == ASSUME HistoryInv, NEW r \in Ids, NEW n \in 1..MaxFinishes, Row(r, n)
                  PROVE  HistoryInv'
<1> DEFINE run == [id |-> r, created |-> runs[r].created, state |-> runs[r].results[n]]
           reaches == \/ scan.contiguous
                      \/ scan.judged
                      \/ verdict # NoVerdict /\ verdict.created >= scan.cover
           judged == r \notin PullRequests /\ Moves(verdict, run)
<1>1. <<r, n>> \in scan.rows /\ n \in 1..Len(runs[r].results)
  BY DEF Row, HistoryInv, FinishesInv
<1>2. UNCHANGED <<now, runs>>
  BY DEF Row, forgeVars
<1>3. RunsInv'
  BY <1>2 DEF HistoryInv, RunsInv
<1>4. DOMAIN scan' = DOMAIN NoScan /\ scan'.rows \subseteq scan.rows
  <2>1. DOMAIN scan = DOMAIN NoScan /\ {"rows", "judged"} \subseteq DOMAIN NoScan
    BY DEF HistoryInv, FinishesInv, NoScan
  <2>2. \/ scan' = [scan EXCEPT !.rows = @ \ {<<r, n>>}]
        \/ scan' = [scan EXCEPT !.rows = @ \ {<<r, n>>}, !.judged = @ \/ judged]
    BY DEF Row
  <2> HIDE DEF judged
  <2>3. scan'.rows = scan.rows \ {<<r, n>>}
    BY <2>1, <2>2
  <2> QED
    BY <2>1, <2>2, <2>3
<1>5. CASE ~Fresh(r, n)
  <2>1. UNCHANGED <<delivered, verdict>>
    BY <1>5 DEF Row
  <2>2. \A x \in scan'.rows : x[1] \in Ids /\ x[2] \in 1..Len(runs[x[1]].results)
    BY <1>4 DEF HistoryInv, FinishesInv
  <2> QED
    BY <1>2, <1>4, <2>1, <2>2, ScanSteps
<1>6. CASE Fresh(r, n)
  <2>1. delivered' = [delivered EXCEPT ![r] = n]
        /\ verdict' = IF judged THEN Judge(verdict, run, reaches) ELSE verdict
    BY <1>6 DEF Row
  <2>2. FinishesInv'
    <3>1. delivered' \in [Ids -> Nat] /\ \A q \in Ids : delivered'[q] = IF q = r THEN n ELSE delivered[q]
      BY <2>1 DEF HistoryInv, FinishesInv
    <3>2. \A q \in Ids : delivered'[q] <= Len(runs'[q].results)
      BY <3>1, <1>1, <1>2 DEF HistoryInv, FinishesInv
    <3>3. \A x \in scan'.rows : x[1] \in Ids /\ x[2] \in 1..Len(runs'[x[1]].results)
      BY <1>2, <1>4 DEF HistoryInv, FinishesInv
    <3> QED
      BY <1>4, <3>1, <3>2, <3>3 DEF FinishesInv
  <2>3. run \in FinishedRun
    <3>1. runs[r].results \in Seq(States) /\ runs[r].created \in Nat
      BY DEF HistoryInv, RunsInv
    <3>2. runs[r].results[n] \in States
      BY <1>1, <3>1
    <3>3. runs[r] # Absent
      <4>1. Len(<<>>) = 0
        OBVIOUS
      <4> QED
        BY <1>1, <4>1 DEF Absent
    <3>4. runs[r].created > 0 /\ r \in Nat \ {0}
      BY <3>3, IdsAssumption DEF HistoryInv, RunsInv
    <3> QED
      BY <3>1, <3>2, <3>4 DEF FinishedRun
  <2>4. CASE judged
    <3>1. reaches \in BOOLEAN /\ verdict' = Judge(verdict, run, reaches)
      BY <2>1, <2>4
    <3>2. verdict # NoVerdict => verdict \in Verdict /\ ValidVerdict(verdict)
                                 /\ (verdict.id = run.id => verdict.created = run.created)
      BY DEF HistoryInv, VerdictInv
    <3> HIDE DEF reaches
    <3>3. /\ verdict' \in Verdict /\ ValidVerdict(verdict')
          /\ verdict'.id = r /\ verdict'.created = runs[r].created
          /\ verdict'.state = runs[r].results[n]
      BY <2>3, <2>4, <3>1, <3>2, JudgeValid
    <3>4. delivered'[r] = n
      BY <2>1 DEF HistoryInv, FinishesInv
    <3>5. VerdictInv'
      BY <1>2, <2>4, <3>3, <3>4 DEF VerdictInv
    <3> QED
      BY <1>3, <2>2, <3>5 DEF HistoryInv
  <2>5. CASE ~judged
    <3>1. verdict' = verdict
      BY <2>1, <2>5
    <3>2. VerdictInv'
      <4>1. CASE verdict = NoVerdict
        BY <3>1, <4>1 DEF VerdictInv
      <4>2. CASE verdict # NoVerdict /\ verdict.id = r
        <5>1. verdict.state = runs[r].results[n]
          BY <2>5, <4>2 DEF Moves, HistoryInv, VerdictInv
        <5>2. delivered'[r] = n
          BY <2>1 DEF HistoryInv, FinishesInv
        <5> QED
          BY <1>2, <3>1, <4>2, <5>1, <5>2 DEF HistoryInv, VerdictInv
      <4>3. CASE verdict # NoVerdict /\ verdict.id # r
        <5>1. verdict.id \in Ids
          BY <4>3 DEF HistoryInv, VerdictInv
        <5>2. delivered'[verdict.id] = delivered[verdict.id]
          BY <2>1, <4>3, <5>1 DEF HistoryInv, FinishesInv
        <5> QED
          BY <1>2, <3>1, <4>3, <5>2 DEF HistoryInv, VerdictInv
      <4> QED
        BY <4>1, <4>2, <4>3
    <3> QED
      BY <1>3, <2>2, <3>2 DEF HistoryInv
  <2> QED
    BY <2>4, <2>5
<1> QED
  BY <1>5, <1>6

(* The prune at the end of a read drops what it drops whole. *)
LEMMA StoreSteps ==
  ASSUME HistoryInv, NEW s, s.delivered = delivered, s.verdict \in {verdict, NoVerdict},
         Stored(s), UNCHANGED <<now, runs>>
  PROVE  HistoryInv'
<1>1. scan' = NoScan
  BY DEF Stored
<1>2. DOMAIN scan' = DOMAIN NoScan /\ scan'.rows = {}
  BY <1>1 DEF NoScan
<1>3. delivered' = [r \in Ids |-> IF runs[r].created < Window(scan.start) THEN 0 ELSE delivered[r]]
  BY DEF Stored, Pruned
<1>4. verdict' \in {verdict, NoVerdict}
  BY DEF Stored, Pruned
<1>5. RunsInv'
  BY DEF HistoryInv, RunsInv
<1>6. \A r \in Ids : delivered'[r] \in {0, delivered[r]}
  BY <1>3
<1>7. FinishesInv'
  <2>1. \A r \in Ids : Len(runs[r].results) \in Nat
    BY DEF HistoryInv, RunsInv
  <2>2. delivered' \in [Ids -> Nat]
    BY <1>3 DEF HistoryInv, FinishesInv
  <2>3. \A r \in Ids : delivered'[r] <= Len(runs'[r].results)
    BY <1>6, <2>1 DEF HistoryInv, FinishesInv
  <2> QED
    BY <1>2, <2>2, <2>3 DEF FinishesInv
<1>8. VerdictInv'
  <2>1. CASE verdict' = NoVerdict
    BY <2>1 DEF VerdictInv
  <2>2. CASE verdict' # NoVerdict
    <3>1. verdict' = verdict /\ verdict # NoVerdict
      BY <1>4, <2>2
    <3> QED
      BY <1>6, <3>1 DEF HistoryInv, VerdictInv
  <2> QED
    BY <2>1, <2>2
<1> QED
  BY <1>5, <1>7, <1>8 DEF HistoryInv

(* Every step keeps the invariant. *)
LEMMA HistoryStep == HistoryInv /\ [Next]_vars => HistoryInv'
<1> SUFFICES ASSUME HistoryInv, [Next]_vars PROVE HistoryInv'
  OBVIOUS
<1>1. CASE \/ \E r \in Ids : Create(r) \/ Rerun(r)
           \/ \E r \in Ids, s \in States : Finish(r, s)
           \/ Tick
  BY <1>1, ForgeSteps
<1>2. CASE Begin
  BY <1>2, BeginSteps
<1>3. CASE List
  BY <1>3, ListSteps
<1>4. CASE \E r \in Ids, n \in 1..MaxFinishes : Row(r, n)
  BY <1>4, RowSteps
<1>5. CASE Applied \/ Unread
  <2>1. Stored(Store) /\ UNCHANGED <<now, runs>>
    BY <1>5 DEF Applied, Unread, forgeVars
  <2>2. Store.delivered = delivered /\ Store.verdict = verdict
    BY DEF Store
  <2> QED
    BY <2>1, <2>2, StoreSteps
<1>6. CASE Forget
  <2>1. Stored(Forgotten) /\ UNCHANGED <<now, runs>>
    BY <1>6 DEF Forget, forgeVars
  <2>2. Forgotten.delivered = delivered /\ Forgotten.verdict = NoVerdict
    BY DEF Forgotten, Store
  <2> QED
    BY <2>1, <2>2, StoreSteps
<1>7. CASE Abandon
  BY <1>7, AbandonSteps
<1>8. CASE UNCHANGED vars
  <2>1. UNCHANGED <<now, runs, scan, delivered, verdict>>
    BY <1>8 DEF vars, forgeVars, storeVars
  <2>2. \A x \in scan.rows : x[1] \in Ids /\ x[2] \in 1..Len(runs[x[1]].results)
    BY DEF HistoryInv, FinishesInv
  <2>3. DOMAIN scan = DOMAIN NoScan
    BY DEF HistoryInv, FinishesInv
  <2> QED
    BY <2>1, <2>2, <2>3, ScanSteps
<1> QED
  BY <1>1, <1>2, <1>3, <1>4, <1>5, <1>6, <1>7, <1>8 DEF Next

(* Every verdict stored is one the next start accepts (validate), of a
   finished run of the workflow, in the state that run was last told in. *)
THEOREM VerdictsLoad == Spec => []StateLoads
<1>1. HistoryInv => StateLoads
  BY DEF HistoryInv, VerdictInv, StateLoads
<1> QED
  BY HistoryInit, HistoryStep, <1>1, PTL DEF Spec
-----------------------------------------------------------------------------
(* Times, and what a step makes. *)

(* The store's clock: a scan's start while it is in progress. *)
Start == IF scan.stage = "idle" THEN now ELSE scan.start

(* The runs of some readings. *)
RunsOf(S) == {x[1] : x \in S}

(* A run finishes at most MaxFinishes times, and once before it is re-run. *)
CountsInv == \A r \in Created :
    /\ Len(runs[r].results) <= MaxFinishes
    /\ runs[r].running => Len(runs[r].results) < MaxFinishes
    /\ ~runs[r].running => Len(runs[r].results) >= 1

(* A run's place among the others is its ID's: a forge numbers the runs as it
   creates them, and creates no two at one time unless SameTick. *)
OrderInv ==
    /\ \A r \in Ids : runs[r].created <= now
    /\ \A q, r \in Created : q < r =>
          runs[q].created <= runs[r].created /\ (~SameTick => runs[q].created < runs[r].created)
    /\ IsFiniteSet(Created)
    /\ CountsInv

(* What a scan in progress holds, and that what was read was there. *)
ScanInv ==
    /\ scan.stage = "idle" => scan = NoScan
    /\ scan.stage # "idle" => scan.start \in 1..now
    /\ listed <= Start
    /\ scan.rows \subseteq scan.read
    /\ scan.stage # "applying" => scan.read = {} /\ ~scan.judged
    /\ \A x \in seen \cup scan.read : x[1] \in Created /\ x[2] <= Len(runs[x[1]].results)
    /\ \A x \in scan.read :
          runs[x[1]].created >= Window(scan.start) /\ runs[x[1]].created >= scan.cover
    /\ scan.stage = "applying" => scan.cover >= Window(scan.start)
    /\ scan.contiguous => ~scan.cut /\ listed # 0 /\ scan.cover <= listed

BasicInv == TypeOK /\ HistoryInv /\ OrderInv /\ ScanInv

(* A step of the forge: time passes, or runs are created, finished, re-run. *)
Grows ==
    /\ scan.stage # "applying"
    /\ now <= now' /\ now' \in 1..MaxTime
    /\ \A r \in Created :
          /\ r \in Created'
          /\ runs'[r].created = runs[r].created
          /\ Len(runs[r].results) <= Len(runs'[r].results)
          /\ \A n \in 1..Len(runs[r].results) : runs'[r].results[n] = runs[r].results[n]
    /\ \A r \in Created' \ Created :
          /\ runs'[r].created = now'
          /\ \A q \in Created : q < r /\ (~SameTick => runs[q].created < now')
          /\ Created' = Created \cup {r}
    /\ CountsInv'
    /\ UNCHANGED <<scan, storeVars, historyVars>>

(* What a scan may be. *)
Scans == [stage : {"idle", "reading", "applying"}, start : 0..MaxTime, cut : BOOLEAN,
          cover : Int, contiguous : BOOLEAN, judged : BOOLEAN,
          read : SUBSET Readings, rows : SUBSET Readings]

(* A listing. *)
Lists ==
    /\ scan.stage = "reading"
    /\ scan'.stage = "applying" /\ scan'.start = scan.start
    /\ scan'.judged = scan.judged
    /\ scan' \in Scans
    /\ scan'.cut \in BOOLEAN /\ (scan'.cut => MayCut)
    /\ scan'.cover \in Int /\ Window(scan.start) <= scan'.cover
    /\ ~scan'.cut => scan'.cover = Window(scan.start)
    /\ scan'.cut /\ scan'.read = {} => scan'.cover = scan.start
    /\ scan'.contiguous = Follows(listed, scan'.cut, scan'.cover)
    /\ scan'.read \subseteq Readings
    /\ scan'.rows = {x \in scan'.read : x[2] # 0}
    /\ \A x \in scan'.read :
          /\ x[1] \in Created /\ x[2] \in Views(x[1])
          /\ runs[x[1]].created >= scan'.cover
    /\ ~scan'.cut \/ scan'.read # {} =>
          \A q \in Created :
              \/ runs[q].created > scan'.cover
              \/ runs[q].created = scan'.cover /\ (scan'.cut => ~SameTick)
              => q \in RunsOf(scan'.read)
    /\ listed' = IF MovesListed(listed, scan'.cut, scan'.cover, Window(scan.start))
                 THEN scan.start ELSE listed
    /\ pending' \in {0} \cup {runs[r].created : r \in Created}
    /\ clipped' = clipped
          \cup (IF /\ MovesListed(listed, scan'.cut, scan'.cover, Window(scan.start))
                   /\ ~Covered(listed, scan'.cover)
                THEN GapDays(listed, scan'.cover, scan.start) ELSE {})
          \cup (IF Stranded(scan'.cut, scan'.cover, pending)
                THEN ClippedDays(pending, pending + 1, scan.start) ELSE {})
    /\ reported' = reported \cup
          (IF listed # 0 /\ ~Covered(listed, Window(scan.start))
           THEN {r \in Created : listed <= runs[r].created /\ runs[r].created < scan'.cover}
           ELSE {})
    /\ first' = IF listed = 0 THEN scan'.cover ELSE first
    /\ UNCHANGED <<forgeVars, delivered, verdict, counted, seen>>

(* A row: an older reading, or one delivered and judged. *)
Judged(r, n) ==
    /\ r \notin PullRequests
    /\ Moves(verdict, [id |-> r, created |-> runs[r].created, state |-> runs[r].results[n]])

Reaches ==
    \/ scan.contiguous
    \/ scan.judged
    \/ verdict # NoVerdict /\ verdict.created >= scan.cover

Rows(r, n) ==
    /\ scan.stage = "applying"
    /\ <<r, n>> \in scan.rows
    /\ \A x \in scan.rows : x[1] = r \/ Earlier(r, x[1])
    /\ scan' = [scan EXCEPT !.rows = @ \ {<<r, n>>},
                            !.judged = @ \/ (Fresh(r, n) /\ Judged(r, n))]
    /\ delivered' = IF Fresh(r, n) THEN [delivered EXCEPT ![r] = n] ELSE delivered
    /\ verdict' = IF Fresh(r, n) /\ Judged(r, n)
                  THEN Judge(verdict, [id |-> r, created |-> runs[r].created,
                                       state |-> runs[r].results[n]], Reaches)
                  ELSE verdict
    /\ counted' \in {counted, [counted EXCEPT ![r] = runs[r].results[n]]}
    /\ UNCHANGED <<forgeVars, listed, pending, clipped, historyVars>>

(* The end of a scan that stores: prune. *)
Ends ==
    /\ scan.stage # "idle" /\ scan' = NoScan
    /\ scan.stage = "applying" => scan.rows = {}
    /\ delivered' = [r \in Ids |-> IF runs[r].created < Window(scan.start) THEN 0 ELSE delivered[r]]
    /\ verdict' \in {verdict, NoVerdict}
    /\ pending' \in {pending, 0}
    /\ \A r \in Ids : counted'[r] \in {counted[r], ""}
    /\ counted' = [r \in Ids |-> counted'[r]]
    /\ clipped' \subseteq clipped
    /\ \/ listed' = 0
       \/ listed' = listed /\ \A d \in clipped : d >= FirstDay(scan.start) => d \in clipped'
    /\ seen' = seen \cup scan.read
    /\ UNCHANGED <<forgeVars, reported, first>>

(* The start of a scan. *)
Begins ==
    /\ scan.stage = "idle"
    /\ scan' = [NoScan EXCEPT !.stage = "reading", !.start = now]
    /\ UNCHANGED <<forgeVars, storeVars, historyVars>>

(* The end of a scan that stores nothing. *)
Drops ==
    /\ scan.stage = "reading" /\ scan' = NoScan
    /\ UNCHANGED <<forgeVars, storeVars, historyVars>>

Steps ==
    \/ Grows
    \/ Begins
    \/ Lists
    \/ \E r \in Ids, n \in 1..MaxFinishes : Rows(r, n)
    \/ Ends
    \/ Drops
    \/ UNCHANGED vars

(* The day a time is in begins by then, and days are in the order of times. *)
LEMMA Days ==
  ASSUME NEW t \in Int
  PROVE  /\ DayOf(t) \in Int
         /\ DayOf(t) * DayLength <= t
         /\ \A u \in Int : t <= u => DayOf(t) <= DayOf(u) /\ FirstDay(t) <= FirstDay(u)
<1>1. DayLength \in Nat \ {0} /\ DayRetention \in Int
  BY TimesAssumption
<1>2. \A u \in Int : DayOf(u) \in Int /\ DayOf(u) * DayLength <= u
                      /\ u < DayOf(u) * DayLength + DayLength
  BY <1>1 DEF DayOf
<1>3. ASSUME NEW u \in Int, t <= u
      PROVE  DayOf(t) <= DayOf(u)
  <2> DEFINE a == DayOf(t)
             b == DayOf(u)
  <2>1. a \in Int /\ b \in Int /\ a * DayLength <= t /\ u < b * DayLength + DayLength
    BY <1>2
  <2> HIDE DEF a, b
  <2>2. a * DayLength < b * DayLength + DayLength
    BY <2>1, <1>1, <1>3
  <2>3. a < b + 1
    <3>1. SUFFICES ASSUME b + 1 <= a PROVE FALSE
      BY <2>1
    <3>2. (b + 1) * DayLength <= a * DayLength
      BY <2>1, <1>1, <3>1
    <3>3. (b + 1) * DayLength = b * DayLength + DayLength
      BY <2>1, <1>1
    <3>4. a * DayLength \in Int /\ b * DayLength \in Int
      BY <2>1, <1>1
    <3> QED
      BY <2>2, <3>2, <3>3, <3>4, <1>1
  <2> QED
    BY <2>1, <2>3 DEF a, b
<1> QED
  BY <1>1, <1>2, <1>3 DEF FirstDay

(* The earliest of some times is one of them. *)
LEMMA Earliest ==
  ASSUME NEW S, S \subseteq Nat, S # {}
  PROVE  Min(S) \in S /\ \A t \in S : Min(S) <= t
  BY LeastExists DEF Min

(* The runs that exist are of their types. *)
LEMMA RunTypes ==
  ASSUME BasicInv
  PROVE  /\ now \in 1..MaxTime /\ now \in Nat
         /\ runs \in [Ids -> [created : 0..MaxTime, results : Seq(States), running : BOOLEAN]]
         /\ \A r \in Ids : /\ runs[r].created \in Nat /\ runs[r].created <= now
                           /\ Len(runs[r].results) \in Nat
         /\ \A r \in Created : r \in Ids /\ r \in Nat /\ runs[r].created > 0
         /\ scan.start \in 0..MaxTime /\ scan.start \in Nat /\ listed \in Nat
         /\ Window(scan.start) \in Int /\ scan.cover \in Int
<1>1. MaxTime \in Nat /\ Lookback \in Nat /\ Ids \subseteq Nat
  BY IdsAssumption, TimesAssumption
<1>2. /\ now \in 1..MaxTime
      /\ runs \in [Ids -> [created : 0..MaxTime, results : Seq(States), running : BOOLEAN]]
      /\ scan.start \in 0..MaxTime /\ scan.cover \in Int /\ listed \in 0..MaxTime
  BY DEF BasicInv, TypeOK
<1>3. \A r \in Ids : /\ runs[r].created \in 0..MaxTime /\ runs[r].results \in Seq(States)
                     /\ runs[r].created <= now
  BY <1>2 DEF BasicInv, OrderInv
<1>4. \A r \in Created : r \in Ids /\ runs[r].created > 0
  BY DEF BasicInv, HistoryInv, RunsInv, Created
<1>5. Window(scan.start) \in Int
  BY <1>1, <1>2 DEF Window
<1>6. \A r \in Ids : runs[r].created \in Nat /\ Len(runs[r].results) \in Nat
  BY <1>1, <1>3
<1>7. now \in Nat /\ scan.start \in Nat /\ listed \in Nat
  BY <1>1, <1>2
<1> HIDE DEF Created
<1>8. \A r \in Created : r \in Ids /\ r \in Nat /\ runs[r].created > 0
  BY <1>1, <1>4
<1> QED
  BY <1>2, <1>3, <1>5, <1>6, <1>7, <1>8

(* The actions of the forge. *)
LEMMA CreateGrows == ASSUME BasicInv, NEW r \in Ids, Create(r) PROVE Grows
<1>1. /\ scan.stage # "applying"
      /\ Created = {q \in Ids : q < r}
      /\ SameTick \/ \A q \in Created : runs[q].created < now
      /\ runs' = [runs EXCEPT ![r] = [created |-> now, results |-> <<>>, running |-> TRUE]]
      /\ UNCHANGED <<now, scan, storeVars, historyVars>>
  BY DEF Create
<1>2. now \in 1..MaxTime /\ r \in Nat /\ r \notin Created
  BY RunTypes, <1>1, IdsAssumption
<1>3. runs'[r] = [created |-> now, results |-> <<>>, running |-> TRUE]
      /\ \A q \in Ids : q # r => runs'[q] = runs[q]
  BY <1>1, RunTypes
<1>4. Created' = Created \cup {r}
  <2>1. runs'[r] # Absent
    BY <1>2, <1>3 DEF Absent
  <2>2. Created' = {q \in Ids : runs'[q] # Absent}
    BY DEF Created
  <2> QED
    BY <2>1, <2>2, <1>3 DEF Created
<1>5. \A q \in Created : /\ q \in Created' /\ runs'[q] = runs[q]
                         /\ Len(runs[q].results) \in Nat
  BY <1>2, <1>3, <1>4, RunTypes
<1>6. CountsInv'
  <2>1. /\ Len(runs'[r].results) = 0 /\ runs'[r].running
        /\ MaxFinishes \in Nat \ {0}
    <3>1. runs'[r].results = <<>>
      BY <1>3
    <3> QED
      BY <1>3, <3>1, TimesAssumption
  <2>2. \A q \in Created : runs'[q] = runs[q]
    BY <1>5
  <2> QED
    BY <1>4, <2>1, <2>2 DEF BasicInv, OrderInv, CountsInv
<1> QED
  BY <1>1, <1>2, <1>3, <1>4, <1>5, <1>6 DEF Grows

LEMMA RerunGrows == ASSUME BasicInv, NEW r \in Ids, Rerun(r) PROVE Grows
<1>1. /\ scan.stage # "applying"
      /\ r \in Created
      /\ runs' = [runs EXCEPT ![r].running = TRUE]
      /\ UNCHANGED <<now, scan, storeVars, historyVars>>
  BY DEF Rerun
<1>2. /\ runs'[r].created = runs[r].created /\ runs'[r].results = runs[r].results
      /\ \A q \in Ids : q # r => runs'[q] = runs[q]
      /\ runs[r].created > 0
  BY <1>1, RunTypes
<1>3. Created' = Created
  <2>1. runs'[r] # Absent
    BY <1>2 DEF Absent
  <2>2. Created' = {q \in Ids : runs'[q] # Absent}
    BY DEF Created
  <2> QED
    BY <2>1, <2>2, <1>1, <1>2 DEF Created
<1>4. \A q \in Created : /\ runs'[q].created = runs[q].created
                         /\ runs'[q].results = runs[q].results
                         /\ Len(runs[q].results) \in Nat
  BY <1>2, RunTypes
<1>5. now \in 1..MaxTime /\ now' = now
  BY <1>1, RunTypes
<1>6. CountsInv'
  <2>1. Len(runs[r].results) < MaxFinishes
    BY DEF Rerun
  <2>2. runs'[r].results = runs[r].results /\ \A q \in Created : q # r => runs'[q] = runs[q]
    BY <1>2, RunTypes
  <2>3. runs'[r].running
    BY <1>1, RunTypes
  <2>4. Len(runs[r].results) \in Nat /\ MaxFinishes \in Nat
    BY RunTypes, TimesAssumption
  <2> QED
    BY <1>3, <2>1, <2>2, <2>3, <2>4 DEF BasicInv, OrderInv, CountsInv
<1> QED
  BY <1>1, <1>3, <1>4, <1>5, <1>6 DEF Grows

LEMMA FinishGrows == ASSUME BasicInv, NEW r \in Ids, NEW s \in States, Finish(r, s) PROVE Grows
<1>1. /\ scan.stage # "applying"
      /\ runs[r].running
      /\ runs' = [runs EXCEPT ![r].running = FALSE, ![r].results = Append(@, s)]
      /\ UNCHANGED <<now, scan, storeVars, historyVars>>
  BY DEF Finish
<1>2. r \in Created /\ runs[r].created > 0 /\ runs[r].results \in Seq(States)
  <2>1. r \in Created
    BY <1>1 DEF Created, Absent
  <2> QED
    BY <2>1, RunTypes
<1>3. /\ runs'[r].created = runs[r].created
      /\ runs'[r].results = Append(runs[r].results, s)
      /\ \A q \in Ids : q # r => runs'[q] = runs[q]
  BY <1>1, RunTypes
<1>4. Created' = Created
  <2>1. runs'[r] # Absent
    BY <1>2, <1>3 DEF Absent
  <2>2. Created' = {q \in Ids : runs'[q] # Absent}
    BY DEF Created
  <2> QED
    BY <2>1, <2>2, <1>2, <1>3 DEF Created
<1>5. ASSUME NEW q \in Created
      PROVE  /\ runs'[q].created = runs[q].created
             /\ Len(runs[q].results) <= Len(runs'[q].results)
             /\ \A n \in 1..Len(runs[q].results) : runs'[q].results[n] = runs[q].results[n]
  <2>1. CASE q = r
    BY <2>1, <1>2, <1>3
  <2>2. CASE q # r
    BY <2>2, <1>3, RunTypes
  <2> QED
    BY <2>1, <2>2
<1>6. now \in 1..MaxTime /\ now' = now
  BY <1>1, RunTypes
<1>7. scan.stage # "applying" /\ UNCHANGED <<scan, storeVars, historyVars>>
  BY <1>1
<1>8. CountsInv'
  <2>1. Len(runs'[r].results) = Len(runs[r].results) + 1 /\ Len(runs[r].results) \in Nat
        /\ MaxFinishes \in Nat
    BY <1>2, <1>3, TimesAssumption
  <2>2. Len(runs[r].results) < MaxFinishes
    BY <1>1, <1>2 DEF BasicInv, OrderInv, CountsInv
  <2>3. ~runs'[r].running
    BY <1>1, RunTypes
  <2>4. \A q \in Created : q # r => runs'[q] = runs[q]
    BY <1>3, RunTypes
  <2> QED
    BY <1>4, <2>1, <2>2, <2>3, <2>4 DEF BasicInv, OrderInv, CountsInv
<1> QED
  BY <1>4, <1>5, <1>6, <1>7, <1>8 DEF Grows

LEMMA TickGrows == ASSUME BasicInv, Tick PROVE Grows
<1>1. /\ scan.stage # "applying"
      /\ now < MaxTime /\ now' = now + 1
      /\ UNCHANGED <<runs, scan, storeVars, historyVars>>
  BY DEF Tick
<1>2. Created' = Created
  BY <1>1 DEF Created
<1>3. now \in Nat /\ now \in 1..MaxTime /\ MaxTime \in Nat
  BY RunTypes, TimesAssumption
<1>4. \A q \in Created : Len(runs[q].results) \in Nat
  BY RunTypes
<1>5. CountsInv'
  BY <1>1, <1>2 DEF BasicInv, OrderInv, CountsInv
<1> QED
  BY <1>1, <1>2, <1>3, <1>4, <1>5 DEF Grows

(* What a listing makes of the scan and of the store: relist. *)
LEMMA ListLists == ASSUME BasicInv, List PROVE Lists
<1> DEFINE w == Window(scan.start)
           window == {r \in Created : runs[r].created >= w}
<1>0. PICK kept \in SUBSET window, cut \in BOOLEAN :
        /\ \A r \in kept, q \in window : Earlier(r, q) => q \in kept
        /\ IF cut THEN MayCut ELSE kept = window
        /\ \E view \in [kept -> 0..MaxFinishes] :
             /\ \A r \in kept : view[r] \in Views(r)
             /\ Relist(kept, {<<r, view[r]>> : r \in kept}, cut)
  BY DEF List
<1>1. PICK view \in [kept -> 0..MaxFinishes] :
        /\ \A r \in kept : view[r] \in Views(r)
        /\ Relist(kept, {<<r, view[r]>> : r \in kept}, cut)
  BY <1>0
<1> DEFINE rd == {<<r, view[r]>> : r \in kept}
           at == {runs[r].created : r \in kept}
           cover == IF ~cut THEN w ELSE IF kept = {} THEN scan.start ELSE Min(at)
           running == {runs[r].created : r \in {q \in kept : <<q, 0>> \in rd}}
<1>2. scan.stage = "reading" /\ UNCHANGED <<forgeVars, delivered, verdict, counted, seen>>
  BY DEF List
<1>3. w \in Int /\ w <= scan.start /\ scan.start \in Nat
  BY RunTypes, TimesAssumption DEF Window
<1>4. kept \subseteq Created /\ \A r \in kept : /\ r \in Ids /\ r \in Nat /\ runs[r].created \in Nat
                                               /\ runs[r].created >= w
  <2>1. kept \subseteq window
    BY <1>0
  <2> QED
    BY <2>1, RunTypes
<1>5. kept # {} => /\ Min(at) \in at /\ Min(at) \in Nat
                   /\ \A r \in kept : Min(at) <= runs[r].created
  <2> SUFFICES ASSUME kept # {} PROVE /\ Min(at) \in at /\ Min(at) \in Nat
                                      /\ \A r \in kept : Min(at) <= runs[r].created
    OBVIOUS
  <2>1. at \subseteq Nat /\ at # {} /\ \A r \in kept : runs[r].created \in at
    BY <1>4
  <2> HIDE DEF at
  <2> QED
    BY <2>1, Earliest
<1>6. cover \in Int /\ w <= cover /\ \A r \in kept : runs[r].created >= cover
  <2>1. CASE ~cut
    BY <2>1, <1>3, <1>4
  <2>2. CASE cut /\ kept = {}
    BY <2>2, <1>3
  <2>3. CASE cut /\ kept # {}
    <3>1. PICK r \in kept : Min(at) = runs[r].created
      BY <2>3, <1>5
    <3>2. Min(at) >= w
      BY <3>1, <1>4
    <3>3. cover = Min(at)
      BY <2>3
    <3> HIDE DEF at, cover
    <3> QED
      BY <2>3, <3>2, <3>3, <1>4, <1>5
  <2> QED
    BY <2>1, <2>2, <2>3
<1>7. ASSUME ~cut \/ kept # {}, NEW q \in Created,
             \/ runs[q].created > cover
             \/ runs[q].created = cover /\ (cut => ~SameTick)
      PROVE  q \in kept
  <2>1. q \in Ids /\ q \in Nat /\ runs[q].created \in Nat
    BY RunTypes
  <2>2. q \in window
    BY <1>6, <1>7, <1>3, <2>1
  <2>3. CASE ~cut
    BY <1>0, <2>2, <2>3
  <2>4. CASE cut /\ kept # {}
    <3>1. PICK k \in kept : cover = runs[k].created
      BY <2>4, <1>5
    <3>2. k \in Created /\ k \in Nat /\ runs[k].created \in Nat
      BY <1>4
    <3>3. q = k \/ Earlier(k, q)
      <4>1. CASE runs[q].created > cover
        BY <4>1, <3>1, <3>2, <2>1 DEF Earlier
      <4>2. CASE runs[q].created = cover /\ ~SameTick
        BY <4>2, <3>1, <3>2, <2>1 DEF BasicInv, OrderInv
      <4> QED
        BY <1>7, <2>4, <4>1, <4>2
    <3> QED
      BY <1>0, <2>2, <3>3
  <2> QED
    BY <1>7, <2>3, <2>4
<1>8. RunsOf(rd) = kept
  <2>1. \A r \in kept : <<r, view[r]>> \in rd /\ <<r, view[r]>>[1] = r
    OBVIOUS
  <2>2. \A x \in rd : x[1] \in kept
    OBVIOUS
  <2> HIDE DEF rd
  <2>3. RunsOf(rd) = {x[1] : x \in rd}
    BY DEF RunsOf
  <2>4. kept \subseteq {x[1] : x \in rd}
    <3> SUFFICES ASSUME NEW r \in kept PROVE \E x \in rd : x[1] = r
      OBVIOUS
    <3> QED
      BY <2>1
  <2> QED
    BY <2>2, <2>3, <2>4
<1>9. rd \subseteq Readings /\ \A x \in rd : x[1] \in kept /\ x[2] \in Views(x[1])
  BY <1>1, <1>4 DEF Readings
<1>10. /\ listed' = IF MovesListed(listed, cut, cover, w) THEN scan.start ELSE listed
       /\ pending' = IF running = {} THEN 0 ELSE Min(running)
       /\ clipped' = clipped
             \cup (IF MovesListed(listed, cut, cover, w) /\ ~Covered(listed, cover)
                   THEN GapDays(listed, cover, scan.start) ELSE {})
             \cup (IF Stranded(cut, cover, pending)
                   THEN ClippedDays(pending, pending + 1, scan.start) ELSE {})
       /\ reported' = reported \cup
             (IF listed # 0 /\ ~Covered(listed, w)
              THEN {r \in Created : listed <= runs[r].created /\ runs[r].created < cover}
              ELSE {})
       /\ first' = IF listed = 0 THEN cover ELSE first
       /\ scan' = [scan EXCEPT !.stage = "applying", !.cut = cut, !.cover = cover,
                       !.contiguous = Follows(listed, cut, cover),
                       !.read = rd, !.rows = {x \in rd : x[2] # 0}]
  BY <1>1 DEF Relist
<1>11. pending' \in {0} \cup {runs[r].created : r \in Created}
  <2>1. CASE running = {}
    BY <1>10, <2>1
  <2>2. CASE running # {}
    <3>1. running \subseteq Nat /\ running \subseteq {runs[r].created : r \in Created}
      BY <1>4
    <3>2. pending' = Min(running)
      BY <1>10, <2>2
    <3> HIDE DEF running
    <3>3. Min(running) \in running
      BY <2>2, <3>1, Earliest
    <3> QED
      BY <3>1, <3>2, <3>3
  <2> QED
    BY <2>1, <2>2
<1> HIDE DEF rd, cover, running, w
<1>12. /\ scan'.stage = "applying" /\ scan'.start = scan.start /\ scan'.judged = scan.judged
       /\ scan'.cut = cut /\ scan'.cover = cover /\ scan'.read = rd
       /\ scan'.rows = {x \in rd : x[2] # 0}
       /\ scan'.contiguous = Follows(listed, cut, cover)
  BY <1>10 DEF BasicInv, TypeOK
<1>17. scan' \in Scans
  <2>1. scan \in Scans
    BY DEF BasicInv, TypeOK, Scans
  <2>2. cut \in BOOLEAN /\ cover \in Int /\ Follows(listed, cut, cover) \in BOOLEAN
    BY <1>6 DEF Follows
  <2>3. rd \in SUBSET Readings /\ {x \in rd : x[2] # 0} \in SUBSET Readings
    BY <1>9
  <2> QED
    BY <1>10, <2>1, <2>2, <2>3 DEF Scans
<1>13. cut => MayCut
  BY <1>0
<1>14. /\ ~cut => cover = w
       /\ cut /\ rd = {} => cover = scan.start
  <2>1. rd = {} => kept = {}
    BY DEF rd
  <2> QED
    BY <2>1 DEF cover
<1>15. ASSUME ~cut \/ rd # {}, NEW q \in Created,
              \/ runs[q].created > cover
              \/ runs[q].created = cover /\ (cut => ~SameTick)
       PROVE  q \in RunsOf(rd)
  <2>1. rd # {} => kept # {}
    BY DEF rd
  <2> QED
    BY <1>7, <1>8, <1>15, <2>1
<1>16. \A x \in rd : x[1] \in Created /\ x[2] \in Views(x[1]) /\ runs[x[1]].created >= cover
  BY <1>4, <1>6, <1>9
<1> HIDE DEF window
<1> QED
  BY <1>2, <1>6, <1>9, <1>10, <1>11, <1>12, <1>13, <1>14, <1>15, <1>16, <1>17 DEF Lists, w

(* A row, in one formula. *)
LEMMA RowRows ==
  ASSUME BasicInv, NEW r \in Ids, NEW n \in 1..MaxFinishes, Row(r, n)
  PROVE  Rows(r, n)
<1> DEFINE run == [id |-> r, created |-> runs[r].created, state |-> runs[r].results[n]]
           judged == r \notin PullRequests /\ Moves(verdict, run)
<1>1. /\ <<r, n>> \in scan.rows
      /\ \A x \in scan.rows : x[1] = r \/ Earlier(r, x[1])
      /\ UNCHANGED <<forgeVars, listed, pending, clipped, historyVars>>
  BY DEF Row
<1>2. scan.stage = "applying"
  BY <1>1 DEF BasicInv, ScanInv
<1>3. judged <=> Judged(r, n)
  BY DEF Judged
<1>4. CASE Fresh(r, n)
  <2>1. /\ delivered' = [delivered EXCEPT ![r] = n]
        /\ counted' \in {counted, [counted EXCEPT ![r] = runs[r].results[n]]}
        /\ verdict' = IF judged THEN Judge(verdict, run, Reaches) ELSE verdict
        /\ scan' = [scan EXCEPT !.rows = @ \ {<<r, n>>}, !.judged = @ \/ judged]
    BY <1>4 DEF Row, Reaches
  <2> HIDE DEF judged
  <2> QED
    BY <1>1, <1>2, <1>3, <1>4, <2>1 DEF Rows
<1>5. CASE ~Fresh(r, n)
  <2>1. /\ scan' = [scan EXCEPT !.rows = @ \ {<<r, n>>}]
        /\ UNCHANGED <<delivered, counted, verdict>>
    BY <1>5 DEF Row
  <2>2. scan' = [scan EXCEPT !.rows = @ \ {<<r, n>>},
                             !.judged = @ \/ (Fresh(r, n) /\ Judged(r, n))]
    BY <1>5, <2>1 DEF BasicInv, TypeOK
  <2> QED
    BY <1>1, <1>2, <1>5, <2>1, <2>2 DEF Rows
<1> QED
  BY <1>4, <1>5

(* prune, of the store s or of one a discovery left the repository out of. *)
Prunes(s) ==
    /\ Stored(s)
    /\ s.delivered = delivered
    /\ s.verdict \in {verdict, NoVerdict}
    /\ s.pending \in {pending, 0}
    /\ \A r \in Ids : s.counted[r] \in {counted[r], ""}
    /\ s.clipped \subseteq clipped
    /\ s.listed = 0 \/ (s.listed = listed /\ s.clipped = clipped)
    /\ scan.stage # "idle"
    /\ scan.stage = "applying" => scan.rows = {}
    /\ seen' = seen \cup scan.read
    /\ UNCHANGED <<forgeVars, reported, first>>

LEMMA StoredEnds == ASSUME BasicInv, NEW s, Prunes(s) PROVE Ends
<1> USE DEF Prunes
<1>1. /\ scan' = NoScan
      /\ delivered' = [r \in Ids |-> IF runs[r].created < Window(scan.start) THEN 0 ELSE delivered[r]]
      /\ verdict' \in {s.verdict, NoVerdict}
      /\ listed' \in {s.listed, 0}
      /\ pending' \in {s.pending, 0}
      /\ clipped' = {d \in s.clipped : d >= FirstDay(scan.start)}
  BY DEF Stored, Pruned
<1>2. counted' = [r \in Ids |-> IF DayOf(runs[r].created) < FirstDay(scan.start)
                                THEN "" ELSE s.counted[r]]
  BY DEF Stored, Pruned
<1>3. counted' = [r \in Ids |-> counted'[r]] /\ \A r \in Ids : counted'[r] \in {s.counted[r], ""}
  BY <1>2
<1>4. \A r \in Ids : counted'[r] \in {counted[r], ""}
  BY <1>3
<1>5. \/ listed' = 0
      \/ listed' = listed /\ \A d \in clipped : d >= FirstDay(scan.start) => d \in clipped'
  BY <1>1
<1>6. clipped' \subseteq clipped /\ pending' \in {pending, 0} /\ verdict' \in {verdict, NoVerdict}
  BY <1>1
<1> QED
  BY <1>1, <1>3, <1>4, <1>5, <1>6 DEF Ends

(* The ends of a scan that store. *)
LEMMA EndsBy ==
  ASSUME BasicInv, Applied \/ Unread \/ Forget
  PROVE  Ends
<1>1. /\ Store.delivered = delivered /\ Store.verdict = verdict /\ Store.listed = listed
      /\ Store.pending = pending /\ Store.counted = counted /\ Store.clipped = clipped
  BY DEF Store
<1>2. CASE Applied
  <2>1. /\ Stored(Store) /\ scan.stage = "applying" /\ scan.rows = {}
        /\ seen' = seen \cup scan.read /\ UNCHANGED <<forgeVars, reported, first>>
    BY <1>2 DEF Applied
  <2>2. Prunes(Store)
    BY <1>1, <2>1 DEF Prunes
  <2> QED
    BY <2>2, StoredEnds
<1>3. CASE Unread \/ Forget
  <2>1. /\ scan.stage = "reading" /\ UNCHANGED <<forgeVars, seen, reported, first>>
    BY <1>3 DEF Unread, Forget, historyVars
  <2>2. seen' = seen \cup scan.read
    BY <2>1 DEF BasicInv, ScanInv
  <2>3. /\ Forgotten.delivered = delivered /\ Forgotten.verdict = NoVerdict
        /\ Forgotten.listed = 0 /\ Forgotten.pending = 0 /\ Forgotten.clipped = {}
        /\ \A r \in Ids : Forgotten.counted[r] = ""
    BY DEF Forgotten, Store
  <2>4. CASE Unread
    <3>1. Prunes(Store)
      BY <1>1, <2>1, <2>2, <2>4 DEF Prunes, Unread
    <3> QED
      BY <3>1, StoredEnds
  <2>5. CASE Forget
    <3>1. Prunes(Forgotten)
      BY <2>1, <2>2, <2>3, <2>5 DEF Prunes, Forget
    <3> QED
      BY <3>1, StoredEnds
  <2> QED
    BY <1>3, <2>4, <2>5
<1> QED
  BY <1>2, <1>3

(* Every step is one of the kinds above. *)
LEMMA StepKinds == ASSUME BasicInv, [Next]_vars PROVE Steps
<1>1. CASE \E r \in Ids : Create(r) \/ Rerun(r)
  BY <1>1, CreateGrows, RerunGrows DEF Steps
<1>2. CASE \E r \in Ids, s \in States : Finish(r, s)
  BY <1>2, FinishGrows DEF Steps
<1>3. CASE Tick
  BY <1>3, TickGrows DEF Steps
<1>4. CASE Begin
  BY <1>4 DEF Begin, Begins, Steps
<1>5. CASE List
  BY <1>5, ListLists DEF Steps
<1>6. CASE \E r \in Ids, n \in 1..MaxFinishes : Row(r, n)
  BY <1>6, RowRows DEF Steps
<1>7. CASE Applied \/ Unread \/ Forget
  BY <1>7, EndsBy DEF Steps
<1>8. CASE Abandon
  BY <1>8 DEF Abandon, Drops, Steps
<1>9. CASE UNCHANGED vars
  BY <1>9 DEF Steps
<1> QED
  BY <1>1, <1>2, <1>3, <1>4, <1>5, <1>6, <1>7, <1>8, <1>9 DEF Next
-----------------------------------------------------------------------------
(* The basic invariant. *)

LEMMA NoScanType ==
  NoScan \in Scans
<1>1. 0 \in 0..MaxTime
  BY TimesAssumption
<1> QED
  BY <1>1 DEF NoScan, Scans

(* Every variable keeps its type. *)
LEMMA TypeStep == ASSUME BasicInv, HistoryInv', Steps PROVE TypeOK'
<1> USE DEF forgeVars, storeVars, historyVars
<1>0. MaxTime \in Nat \ {0} /\ MaxFinishes \in Nat \ {0}
  BY TimesAssumption
<1>1. TypeOK /\ scan \in Scans
  BY DEF BasicInv, TypeOK, Scans
<1>2. verdict' \in Verdict \cup {NoVerdict}
  BY DEF HistoryInv, VerdictInv
<1>3. CASE Grows
  <2>1. UNCHANGED <<scan, storeVars, historyVars>> /\ now' \in 1..MaxTime
    BY <1>3 DEF Grows
  <2>2. ASSUME NEW r \in Ids PROVE runs'[r].created \in 0..MaxTime
    <3>1. CASE r \in Created
      BY <3>1, <1>3, RunTypes DEF Grows
    <3>2. CASE r \in Created' \ Created
      BY <3>2, <2>1, <1>3, <1>0 DEF Grows
    <3>3. CASE r \notin Created'
      BY <3>3, <1>0 DEF Created, Absent
    <3> QED
      BY <3>1, <3>2, <3>3
  <2>3. runs' \in [Ids -> [created : Nat, results : Seq(States), running : BOOLEAN]]
    BY DEF HistoryInv, RunsInv
  <2>4. runs' \in [Ids -> [created : 0..MaxTime, results : Seq(States), running : BOOLEAN]]
    BY <2>2, <2>3
  <2> QED
    BY <1>1, <2>1, <2>4 DEF TypeOK
<1>4. CASE Begins \/ Drops
  <2>1. UNCHANGED <<forgeVars, storeVars, historyVars>>
    BY <1>4 DEF Begins, Drops
  <2>2. scan' = NoScan \/ scan' = [NoScan EXCEPT !.stage = "reading", !.start = now]
    BY <1>4 DEF Begins, Drops
  <2>3. now \in 0..MaxTime
    BY <1>0, RunTypes
  <2>4. scan' \in Scans
    <3>1. NoScan \in Scans
      BY NoScanType
    <3> QED
      BY <2>2, <2>3, <3>1 DEF Scans
  <2> QED
    BY <1>1, <2>1, <2>4 DEF TypeOK, Scans
<1>5. CASE Lists
  <2>1. /\ scan'.stage = "applying" /\ scan'.start = scan.start /\ scan'.judged = scan.judged
        /\ scan'.cut \in BOOLEAN /\ scan'.cover \in Int
        /\ scan'.contiguous = Follows(listed, scan'.cut, scan'.cover)
        /\ scan'.read \subseteq Readings /\ scan'.rows = {x \in scan'.read : x[2] # 0}
        /\ UNCHANGED <<forgeVars, delivered, verdict, counted, seen>>
    BY <1>5 DEF Lists
  <2>4. scan' \in Scans
    BY <1>5 DEF Lists
  <2>5. listed' \in 0..MaxTime
    BY <1>5, <1>1 DEF Lists, TypeOK
  <2>6. pending' \in 0..MaxTime
    BY <1>5, <1>0, RunTypes DEF Lists
  <2>7. clipped' \subseteq Int
    <3>1. \A a, b, c : GapDays(a, b, c) \subseteq Int /\ ClippedDays(a, b, c) \subseteq Int
      BY DEF GapDays, ClippedDays
    <3> QED
      BY <1>5, <1>1, <3>1 DEF Lists, TypeOK
  <2>8. reported' \subseteq Ids /\ first' \in Int
    BY <1>5, <1>1, RunTypes DEF Lists, TypeOK
  <2> QED
    BY <1>1, <2>1, <2>4, <2>5, <2>6, <2>7, <2>8 DEF TypeOK, Scans
<1>6. ASSUME NEW r \in Ids, NEW n \in 1..MaxFinishes, Rows(r, n) PROVE TypeOK'
  <2>1. /\ scan' = [scan EXCEPT !.rows = @ \ {<<r, n>>},
                                !.judged = @ \/ (Fresh(r, n) /\ Judged(r, n))]
        /\ delivered' = IF Fresh(r, n) THEN [delivered EXCEPT ![r] = n] ELSE delivered
        /\ counted' \in {counted, [counted EXCEPT ![r] = runs[r].results[n]]}
        /\ <<r, n>> \in scan.rows
        /\ UNCHANGED <<forgeVars, listed, pending, clipped, historyVars>>
    BY <1>6 DEF Rows
  <2>2. scan' \in Scans
    BY <1>1, <2>1 DEF Scans
  <2>3. delivered' \in [Ids -> 0..MaxFinishes]
    <3>1. n \in 0..MaxFinishes
      BY <1>0
    <3>2. delivered \in [Ids -> 0..MaxFinishes]
      BY <1>1 DEF TypeOK
    <3> QED
      BY <2>1, <3>1, <3>2
  <2>4. runs[r].results[n] \in States
    <3>1. n \in 1..Len(runs[r].results) /\ runs[r].results \in Seq(States)
      BY <2>1, RunTypes DEF BasicInv, HistoryInv, FinishesInv
    <3> QED
      BY <3>1
  <2>5. counted' \in [Ids -> States \cup {""}]
    BY <1>1, <2>1, <2>4 DEF TypeOK
  <2> QED
    BY <1>1, <1>2, <2>1, <2>2, <2>3, <2>5 DEF TypeOK
<1>7. CASE Ends
  <2>1. scan' \in Scans
    BY <1>7, NoScanType DEF Ends
  <2>2. delivered' \in [Ids -> 0..MaxFinishes]
    <3>1. 0 \in 0..MaxFinishes
      BY <1>0
    <3>2. delivered \in [Ids -> 0..MaxFinishes]
      BY <1>1 DEF TypeOK
    <3> QED
      BY <1>7, <3>1, <3>2 DEF Ends
  <2>3. counted' \in [Ids -> States \cup {""}]
    BY <1>7, <1>1 DEF Ends, TypeOK
  <2>4. listed' \in 0..MaxTime /\ pending' \in 0..MaxTime
    <3>1. 0 \in 0..MaxTime
      BY <1>0
    <3>3. listed \in 0..MaxTime /\ pending \in 0..MaxTime
      BY <1>1 DEF TypeOK
    <3>2. (listed' = 0 \/ listed' = listed) /\ (pending' = 0 \/ pending' = pending)
      BY <1>7 DEF Ends
    <3> QED
      BY <3>1, <3>2, <3>3
  <2>5. clipped' \subseteq Int
    BY <1>7, <1>1 DEF Ends, TypeOK
  <2>6. seen' \subseteq Readings
    BY <1>7, <1>1 DEF Ends, TypeOK
  <2>7. UNCHANGED <<forgeVars, reported, first>>
    BY <1>7 DEF Ends
  <2> QED
    BY <1>1, <1>2, <2>1, <2>2, <2>3, <2>4, <2>5, <2>6, <2>7 DEF TypeOK, Scans
<1>8. CASE UNCHANGED vars
  BY <1>1, <1>8 DEF TypeOK, vars, Readings
<1> QED
  BY <1>3, <1>4, <1>5, <1>6, <1>7, <1>8 DEF Steps

(* A created run's creation time and finishes stay, and it stays created. *)
LEMMA RunsStay ==
  ASSUME BasicInv, Steps
  PROVE  \A r \in Created :
            /\ r \in Created' /\ runs'[r].created = runs[r].created
            /\ Len(runs[r].results) <= Len(runs'[r].results)
            /\ \A n \in 1..Len(runs[r].results) : runs'[r].results[n] = runs[r].results[n]
<1>1. CASE Grows
  BY <1>1 DEF Grows
<1>2. CASE ~Grows
  <2>1. runs' = runs
    BY <1>2 DEF Steps, Begins, Lists, Rows, Ends, Drops, vars, forgeVars
  <2>2. Created' = Created
    BY <2>1 DEF Created
  <2>3. \A r \in Created : Len(runs[r].results) \in Nat
    BY RunTypes
  <2> QED
    BY <2>1, <2>2, <2>3
<1> QED
  BY <1>1, <1>2

LEMMA OrderStep == ASSUME BasicInv, HistoryInv', Steps PROVE OrderInv'
<1>1. CASE Grows
  <2>1. /\ now <= now' /\ now \in Nat /\ now' \in Nat
    BY <1>1, RunTypes, TimesAssumption DEF Grows
  <2>2. ASSUME NEW r \in Ids PROVE runs'[r].created <= now'
    <3>1. CASE r \in Created
      <4>1. runs'[r].created = runs[r].created /\ runs[r].created <= now /\ runs[r].created \in Nat
        BY <1>1, <3>1, RunTypes DEF Grows
      <4> QED
        BY <4>1, <2>1
    <3>2. CASE r \in Created' \ Created
      <4>1. runs'[r].created = now'
        BY <1>1, <3>2 DEF Grows
      <4> QED
        BY <4>1, <2>1
    <3>3. CASE r \notin Created'
      BY <2>1, <2>2, <3>3 DEF Created, Absent
    <3> QED
      BY <3>1, <3>2, <3>3
  <2>3. ASSUME NEW q \in Created', NEW r \in Created', q < r
        PROVE  /\ runs'[q].created <= runs'[r].created
               /\ ~SameTick => runs'[q].created < runs'[r].created
    <3>0. q \in Ids /\ r \in Ids /\ q \in Nat /\ r \in Nat
      BY IdsAssumption DEF Created
    <3>1. CASE q \in Created /\ r \in Created
      <4>1. runs'[q].created = runs[q].created /\ runs'[r].created = runs[r].created
        BY <1>1, <3>1 DEF Grows
      <4> QED
        BY <4>1, <2>3, <3>1 DEF BasicInv, OrderInv
    <3>2. CASE q \in Created /\ r \notin Created
      <4>1. runs'[q].created = runs[q].created /\ runs'[r].created = now'
            /\ (~SameTick => runs[q].created < now')
        BY <1>1, <3>2 DEF Grows
      <4>2. runs[q].created <= now /\ runs[q].created \in Nat
        BY <3>2, RunTypes
      <4> QED
        BY <4>1, <4>2, <2>1
    <3>3. CASE q \notin Created /\ r \in Created
      <4>1. r < q
        BY <1>1, <3>3 DEF Grows
      <4> QED
        BY <4>1, <3>0, <2>3
    <3>4. CASE q \notin Created /\ r \notin Created
      <4>1. Created' = Created \cup {q}
        BY <1>1, <3>4 DEF Grows
      <4>2. q = r
        BY <4>1, <3>4
      <4> QED
        BY <4>2, <3>0, <2>3
    <3> QED
      BY <3>1, <3>2, <3>3, <3>4
  <2>4. IsFiniteSet(Created')
    <3>1. IsFiniteSet(Created)
      BY DEF BasicInv, OrderInv
    <3>2. CASE Created' \subseteq Created
      BY <3>1, <3>2, FS_Subset
    <3>3. CASE \E r \in Created' : r \notin Created
      <4> PICK r \in Created' : r \notin Created
        BY <3>3
      <4>1. Created' = Created \cup {r}
        BY <1>1 DEF Grows
      <4> QED
        BY <3>1, <4>1, FS_AddElement
    <3> QED
      BY <3>2, <3>3
  <2>5. CountsInv'
    BY <1>1 DEF Grows
  <2> QED
    BY <2>2, <2>3, <2>4, <2>5 DEF OrderInv
<1>2. CASE ~Grows
  <2>1. runs' = runs /\ now' = now
    BY <1>2 DEF Steps, Begins, Lists, Rows, Ends, Drops, vars, forgeVars
  <2>2. Created' = Created
    BY <2>1 DEF Created
  <2>3. OrderInv
    BY DEF BasicInv
  <2> QED
    BY <2>1, <2>2, <2>3 DEF OrderInv, CountsInv
<1> QED
  BY <1>1, <1>2

(* What was read stays there. *)
LEMMA ReadStays ==
  ASSUME BasicInv, HistoryInv', Steps
  PROVE  \A x \in seen \cup scan.read : x[1] \in Created' /\ x[2] <= Len(runs'[x[1]].results)
<1> TAKE x \in seen \cup scan.read
<1>1. x[1] \in Created /\ x[2] <= Len(runs[x[1]].results) /\ x[2] \in Nat
  <2>1. x \in Readings
    BY DEF BasicInv, TypeOK
  <2>2. x[2] \in 0..MaxFinishes
    BY <2>1 DEF Readings
  <2>3. x[2] \in Nat
    BY <2>2, TimesAssumption
  <2> QED
    BY <2>3 DEF BasicInv, ScanInv
<1>2. x[1] \in Created' /\ Len(runs[x[1]].results) <= Len(runs'[x[1]].results)
  BY <1>1, RunsStay
<1>3. Len(runs[x[1]].results) \in Nat /\ Len(runs'[x[1]].results) \in Nat
  <2>1. Len(runs[x[1]].results) \in Nat
    BY <1>1, RunTypes
  <2>2. Len(runs'[x[1]].results) \in Nat
    <3>1. runs'[x[1]].results \in Seq(States)
      BY <1>2 DEF HistoryInv, RunsInv, Created
    <3> QED
      BY <3>1
  <2> QED
    BY <2>1, <2>2
<1> QED
  BY <1>1, <1>2, <1>3

LEMMA ScanStep == ASSUME BasicInv, HistoryInv', Steps PROVE ScanInv'
<1>0. /\ MaxFinishes \in Nat \ {0} /\ MaxTime \in Nat \ {0} /\ Lookback \in Nat
      /\ now \in Nat /\ now >= 1 /\ scan.start \in Nat /\ listed \in Nat /\ scan.cover \in Int
  BY TimesAssumption, RunTypes
<1>s. ScanInv /\ Start \in Nat
  BY <1>0 DEF BasicInv, Start
<1>1. CASE Grows
  <2>1. UNCHANGED <<scan, listed, seen>> /\ now <= now' /\ now' \in Nat
    BY <1>1, <1>0 DEF Grows, storeVars, historyVars
  <2>2. scan.stage # "applying"
    BY <1>1 DEF Grows
  <2>3. listed' <= Start'
    BY <1>s, <1>0, <2>1 DEF ScanInv, Start
  <2>4. \A x \in seen' \cup scan'.read : x[1] \in Created' /\ x[2] <= Len(runs'[x[1]].results)
    BY <2>1, ReadStays
  <2>5. scan.read = {}
    BY <2>2, <1>s DEF ScanInv
  <2>6. scan'.stage # "idle" => scan'.start \in 1..now'
    BY <1>s, <1>0, <2>1 DEF ScanInv
  <2> QED
    BY <1>s, <2>1, <2>2, <2>3, <2>4, <2>5, <2>6 DEF ScanInv
<1>2. CASE Begins
  <2>1. /\ scan'.stage = "reading" /\ scan'.start = now /\ scan'.read = {} /\ scan'.rows = {}
        /\ ~scan'.judged /\ ~scan'.contiguous /\ UNCHANGED <<now, runs, listed, seen>>
    BY <1>2 DEF Begins, NoScan, forgeVars, storeVars, historyVars
  <2>2. \A x \in seen' \cup scan'.read : x[1] \in Created' /\ x[2] <= Len(runs'[x[1]].results)
    BY <2>1, ReadStays
  <2>3. listed <= now
    BY <1>2, <1>s DEF Begins, ScanInv, Start
  <2>4. Start' = now
    BY <2>1 DEF Start
  <2> QED
    BY <1>0, <2>1, <2>2, <2>3, <2>4 DEF ScanInv
<1>3. CASE Lists
  <2>1. /\ scan.stage = "reading" /\ scan'.stage = "applying" /\ scan'.start = scan.start
        /\ scan'.rows = {x \in scan'.read : x[2] # 0}
        /\ scan'.cover \in Int /\ Window(scan.start) <= scan'.cover
        /\ ~scan'.cut => scan'.cover = Window(scan.start)
        /\ scan'.contiguous = Follows(listed, scan'.cut, scan'.cover)
        /\ listed' \in {scan.start, listed}
        /\ UNCHANGED <<now, runs, seen>>
    BY <1>3 DEF Lists, forgeVars
  <2>2. ASSUME NEW x \in scan'.read
        PROVE  /\ x[1] \in Created /\ x[2] <= Len(runs[x[1]].results)
               /\ runs[x[1]].created >= scan'.cover
               /\ runs[x[1]].created >= Window(scan.start)
    <3>1. /\ x[1] \in Created /\ x[2] \in Views(x[1]) /\ runs[x[1]].created >= scan'.cover
      BY <1>3, <2>2 DEF Lists
    <3>2. Len(runs[x[1]].results) \in Nat /\ runs[x[1]].created \in Nat
      BY <3>1, RunTypes
    <3>3. x[2] \in 0..Len(runs[x[1]].results)
      BY <3>1, <3>2 DEF Views
    <3>4. Window(scan.start) \in Int
      BY RunTypes
    <3> QED
      BY <3>1, <3>2, <3>3, <3>4, <2>1
  <2>3. Created' = Created
    BY <2>1 DEF Created
  <2>4. \A x \in seen' \cup scan'.read : x[1] \in Created' /\ x[2] <= Len(runs'[x[1]].results)
    BY <2>1, <2>2, <2>3, <1>s DEF ScanInv
  <2>5. listed' <= Start' /\ scan'.start \in 1..now'
    BY <1>s, <1>0, <2>1 DEF ScanInv, Start
  <2>6. scan'.contiguous => ~scan'.cut /\ listed' # 0 /\ scan'.cover <= listed'
    <3> SUFFICES ASSUME scan'.contiguous
                 PROVE  ~scan'.cut /\ listed' # 0 /\ scan'.cover <= listed'
      OBVIOUS
    <3>1. ~scan'.cut /\ listed # 0 /\ scan'.cover <= listed
      BY <2>1 DEF Follows, Covered
    <3>2. scan'.cover <= scan.start /\ scan.start # 0
      BY <3>1, <2>1, <1>0, <1>s DEF ScanInv, Window
    <3> QED
      BY <3>1, <3>2, <2>1
  <2> QED
    BY <2>1, <2>2, <2>4, <2>5, <2>6 DEF ScanInv
<1>4. ASSUME NEW r \in Ids, NEW n \in 1..MaxFinishes, Rows(r, n) PROVE ScanInv'
  <2>1. /\ scan' = [scan EXCEPT !.rows = @ \ {<<r, n>>},
                                !.judged = @ \/ (Fresh(r, n) /\ Judged(r, n))]
        /\ scan.stage = "applying" /\ UNCHANGED <<now, runs, listed, seen>>
    BY <1>4 DEF Rows, forgeVars, historyVars
  <2>2. /\ scan'.stage = scan.stage /\ scan'.start = scan.start /\ scan'.read = scan.read
        /\ scan'.cover = scan.cover /\ scan'.cut = scan.cut /\ scan'.contiguous = scan.contiguous
        /\ scan'.rows \subseteq scan.rows
    BY <2>1 DEF BasicInv, TypeOK
  <2>3. Created' = Created
    BY <2>1 DEF Created
  <2>4. Start' = Start
    BY <2>1, <2>2 DEF Start
  <2> QED
    BY <1>s, <2>1, <2>2, <2>3, <2>4 DEF ScanInv
<1>5. CASE Ends \/ Drops
  <2>1. /\ scan.stage # "idle" /\ scan' = NoScan
        /\ listed' \in {0, listed} /\ seen' \subseteq seen \cup scan.read
        /\ UNCHANGED <<now, runs>>
    BY <1>5 DEF Ends, Drops, forgeVars, storeVars, historyVars
  <2>2. \A x \in seen' \cup scan'.read : x[1] \in Created' /\ x[2] <= Len(runs'[x[1]].results)
    BY <2>1, ReadStays DEF NoScan
  <2>3. Start' = now /\ listed <= scan.start /\ scan.start <= now
    BY <2>1, <1>s, <1>0 DEF NoScan, Start, ScanInv
  <2>4. listed' <= Start'
    BY <1>0, <2>1, <2>3
  <2> QED
    BY <2>1, <2>2, <2>4 DEF ScanInv, NoScan
<1>6. CASE UNCHANGED vars
  <2>1. UNCHANGED <<now, runs, scan, listed, seen>>
    BY <1>6 DEF vars, forgeVars, storeVars, historyVars
  <2>2. Created' = Created /\ Start' = Start
    BY <2>1 DEF Created, Start
  <2> QED
    BY <1>s, <2>1, <2>2 DEF ScanInv
<1> QED
  BY <1>1, <1>2, <1>3, <1>4, <1>5, <1>6 DEF Steps

LEMMA BasicInit == Init => BasicInv
<1> SUFFICES ASSUME Init PROVE BasicInv
  OBVIOUS
<1>1. HistoryInv
  BY HistoryInit
<1>2. /\ now = 1 /\ runs = [r \in Ids |-> Absent] /\ scan = NoScan
      /\ delivered = [r \in Ids |-> 0] /\ verdict = NoVerdict /\ listed = 0 /\ pending = 0
      /\ counted = [r \in Ids |-> ""] /\ clipped = {} /\ seen = {} /\ reported = {} /\ first = 0
  BY DEF Init
<1>3. Created = {}
  BY <1>2 DEF Created
<1>4. /\ scan.stage = "idle" /\ scan.rows = {} /\ scan.read = {} /\ ~scan.judged
      /\ ~scan.contiguous
  BY <1>2 DEF NoScan
<1>5. OrderInv
  <2>1. IsFiniteSet(Created)
    BY <1>3, FS_EmptySet
  <2>2. \A r \in Ids : runs[r].created <= now
    <3>1. \A r \in Ids : runs[r] = Absent
      BY <1>2
    <3>2. Absent.created = 0 /\ now = 1
      BY <1>2 DEF Absent
    <3> QED
      BY <3>1, <3>2
  <2> QED
    BY <1>3, <2>1, <2>2 DEF OrderInv, CountsInv
<1>6. ScanInv
  <2>1. listed = 0 /\ now = 1 /\ seen = {} /\ scan = NoScan
    BY <1>2
  <2>2. Start = 1
    BY <1>4, <2>1 DEF Start
  <2> QED
    BY <1>4, <2>1, <2>2 DEF ScanInv
<1>7. TypeOK
  <2>1. MaxTime \in Nat \ {0} /\ MaxFinishes \in Nat \ {0}
    BY TimesAssumption
  <2>2. 1 \in 1..MaxTime /\ 0 \in 0..MaxTime /\ 0 \in 0..MaxFinishes
    BY <2>1
  <2>3. <<>> \in Seq(States)
    OBVIOUS
  <2>4. runs \in [Ids -> [created : 0..MaxTime, results : Seq(States), running : BOOLEAN]]
    BY <1>2, <2>2, <2>3 DEF Absent
  <2>5. scan \in Scans
    BY <1>2, NoScanType
  <2>6. /\ delivered \in [Ids -> 0..MaxFinishes] /\ counted \in [Ids -> States \cup {""}]
    BY <1>2, <2>2
  <2>7. listed \in 0..MaxTime /\ pending \in 0..MaxTime /\ now \in 1..MaxTime /\ first \in Int
    <3>1. listed = 0 /\ pending = 0 /\ now = 1 /\ first = 0
      BY <1>2
    <3> QED
      BY <3>1, <2>2
  <2> QED
    BY <1>2, <2>4, <2>5, <2>6, <2>7 DEF TypeOK, Scans
<1> QED
  BY <1>1, <1>5, <1>6, <1>7 DEF BasicInv

LEMMA BasicStep == BasicInv /\ [Next]_vars => BasicInv' /\ Steps
<1> SUFFICES ASSUME BasicInv, [Next]_vars PROVE BasicInv' /\ Steps
  OBVIOUS
<1>1. Steps
  BY StepKinds
<1>2. HistoryInv'
  BY HistoryStep DEF BasicInv
<1> QED
  BY <1>1, <1>2, TypeStep, OrderStep, ScanStep DEF BasicInv

(* What the model remembers keeps its type. *)
THEOREM HistoryTypes == Spec => []TypeOK
<1>1. BasicInv => TypeOK
  BY DEF BasicInv
<1> QED
  BY BasicInit, BasicStep, <1>1, PTL DEF Spec
-----------------------------------------------------------------------------
(* Each reading is logged once. *)

(* The last delivery of a run still in the window is no older than any reading
   of it a save recorded, nor, while a listing is applied, than the readings
   already applied. *)
DeliveredInv ==
    /\ \A x \in seen : x[2] <= delivered[x[1]] \/ runs[x[1]].created < Window(Start)
    /\ \A x \in scan.read \ scan.rows : x[2] <= delivered[x[1]]

(* The numbers of a reading, and what a step leaves of its run. *)
LEMMA ReadingTypes ==
  ASSUME BasicInv, Steps
  PROVE  /\ \A x \in seen \cup scan.read :
              /\ x[1] \in Created /\ x[1] \in Ids /\ x[2] \in 0..MaxFinishes /\ x[2] \in Nat
              /\ x = <<x[1], x[2]>>
              /\ runs'[x[1]].created = runs[x[1]].created /\ runs[x[1]].created \in Nat
         /\ \A r \in Ids : delivered[r] \in Nat
<1>1. MaxFinishes \in Nat
  BY TimesAssumption
<1>2. ASSUME NEW x \in seen \cup scan.read
      PROVE  /\ x[1] \in Created /\ x[1] \in Ids /\ x[2] \in 0..MaxFinishes /\ x[2] \in Nat
             /\ x = <<x[1], x[2]>>
             /\ runs'[x[1]].created = runs[x[1]].created /\ runs[x[1]].created \in Nat
  <2>1. x \in Readings
    BY DEF BasicInv, TypeOK
  <2>2. x[2] \in 0..MaxFinishes /\ x = <<x[1], x[2]>> /\ x[1] \in Ids
    BY <2>1 DEF Readings
  <2>3. x[1] \in Created
    BY DEF BasicInv, ScanInv
  <2>4. runs'[x[1]].created = runs[x[1]].created /\ runs[x[1]].created \in Nat
    BY <2>3, RunsStay, RunTypes
  <2> QED
    BY <1>1, <2>2, <2>3, <2>4
<1>3. \A r \in Ids : delivered[r] \in Nat
  BY DEF BasicInv, HistoryInv, FinishesInv
<1> QED
  BY <1>2, <1>3

(* The store's clock never goes back. *)
LEMMA StartAdvances ==
  ASSUME BasicInv, Steps
  PROVE  Start \in Nat /\ Start' \in Nat /\ Start <= Start'
         /\ Window(Start) <= Window(Start') /\ Window(Start) \in Int /\ Window(Start') \in Int
<1>0. /\ now \in Nat /\ scan.start \in Nat /\ Lookback \in Nat /\ MaxTime \in Nat
  BY RunTypes, TimesAssumption
<1>1. scan.stage # "idle" => scan.start <= now
  BY <1>0 DEF BasicInv, ScanInv
<1>2. Start' \in Nat /\ Start <= Start'
  <2>1. CASE Grows
    <3>1. now <= now' /\ now' \in Nat /\ scan' = scan
      BY <2>1, <1>0 DEF Grows
    <3> QED
      BY <3>1, <1>0 DEF Start
  <2>2. CASE Begins
    <3>1. Start = now /\ Start' = now
      BY <2>2 DEF Begins, NoScan, Start
    <3> QED
      BY <3>1, <1>0
  <2>3. CASE Lists
    <3>1. Start = scan.start /\ Start' = scan.start
      BY <2>3 DEF Lists, Start
    <3> QED
      BY <3>1, <1>0
  <2>4. ASSUME NEW r \in Ids, NEW n \in 1..MaxFinishes, Rows(r, n)
        PROVE  Start' \in Nat /\ Start <= Start'
    <3>1. scan'.stage = scan.stage /\ scan'.start = scan.start /\ now' = now
      BY <2>4 DEF Rows, BasicInv, TypeOK, forgeVars
    <3>2. Start' = Start
      BY <3>1 DEF Start
    <3> QED
      BY <3>2, <1>0 DEF Start
  <2>5. CASE Ends \/ Drops
    <3>2. scan.stage # "idle" /\ scan' = NoScan /\ now' = now
      BY <2>5 DEF Ends, Drops, forgeVars
    <3>3. NoScan.stage = "idle"
      BY DEF NoScan
    <3>1. Start = scan.start /\ Start' = now
      BY <3>2, <3>3 DEF Start
    <3> QED
      BY <3>1, <3>2, <1>0, <1>1
  <2>6. CASE UNCHANGED vars
    <3>1. Start' = Start
      BY <2>6 DEF vars, forgeVars, Start
    <3> QED
      BY <3>1, <1>0 DEF Start
  <2> QED
    BY <2>1, <2>2, <2>3, <2>4, <2>5, <2>6 DEF Steps
<1> QED
  BY <1>0, <1>2 DEF Start, Window

(* What a row makes of the scan. *)
LEMMA RowScan ==
  ASSUME BasicInv, NEW r \in Ids, NEW n \in 1..MaxFinishes, Rows(r, n)
  PROVE  /\ scan'.stage = "applying" /\ scan'.start = scan.start /\ scan'.cut = scan.cut
         /\ scan'.cover = scan.cover /\ scan'.contiguous = scan.contiguous
         /\ scan'.judged = (scan.judged \/ (Fresh(r, n) /\ Judged(r, n)))
         /\ scan'.read = scan.read /\ scan'.rows = scan.rows \ {<<r, n>>}
         /\ <<r, n>> \in scan.read
         /\ n \in 1..Len(runs[r].results)
         /\ r \in Created /\ Start' = Start
         /\ scan.start = Start /\ scan.stage = "applying"
<1>1. scan' = [scan EXCEPT !.rows = @ \ {<<r, n>>},
                           !.judged = @ \/ (Fresh(r, n) /\ Judged(r, n))]
      /\ scan.stage = "applying" /\ <<r, n>> \in scan.rows /\ now' = now
  BY DEF Rows, forgeVars
<1>2. scan \in Scans
  BY DEF BasicInv, TypeOK, Scans
<1>3. /\ scan'.stage = "applying" /\ scan'.start = scan.start /\ scan'.cut = scan.cut
      /\ scan'.cover = scan.cover /\ scan'.contiguous = scan.contiguous
      /\ scan'.judged = (scan.judged \/ (Fresh(r, n) /\ Judged(r, n)))
      /\ scan'.read = scan.read /\ scan'.rows = scan.rows \ {<<r, n>>}
  BY <1>1, <1>2 DEF Scans
<1>4. <<r, n>> \in scan.read /\ n \in 1..Len(runs[r].results)
  BY <1>1 DEF BasicInv, ScanInv, HistoryInv, FinishesInv
<1>5. r \in Created
  BY <1>4 DEF BasicInv, ScanInv
<1>6. scan.start = Start /\ Start' = Start
  BY <1>1, <1>3 DEF Start
<1> QED
  BY <1>1, <1>3, <1>4, <1>5, <1>6

LEMMA DeliveredStep == ASSUME BasicInv, DeliveredInv, Steps PROVE DeliveredInv'
<1>0. /\ Start \in Nat /\ Start' \in Nat
      /\ Window(Start) <= Window(Start') /\ Window(Start) \in Int /\ Window(Start') \in Int
  BY StartAdvances
<1>1. CASE Grows \/ Begins \/ Drops \/ UNCHANGED vars
  <2>1. UNCHANGED <<delivered, seen>> /\ (scan' = scan \/ scan'.read = {})
    <3>1. UNCHANGED <<delivered, seen>>
      BY <1>1 DEF Grows, Begins, Drops, vars, storeVars, historyVars
    <3>2. CASE Grows \/ UNCHANGED vars
      BY <3>1, <3>2 DEF Grows, vars
    <3>3. CASE Begins \/ Drops
      <4>1. NoScan.read = {} /\ [NoScan EXCEPT !.stage = "reading", !.start = now].read = {}
        BY DEF NoScan
      <4> QED
        BY <3>1, <3>3, <4>1 DEF Begins, Drops
    <3> QED
      BY <1>1, <3>2, <3>3
  <2>2. \A x \in scan'.read \ scan'.rows : x[2] <= delivered[x[1]]
    BY <2>1 DEF DeliveredInv
  <2>3. ASSUME NEW x \in seen
        PROVE  x[2] <= delivered[x[1]] \/ runs'[x[1]].created < Window(Start')
    <3>1. x[2] <= delivered[x[1]] \/ runs[x[1]].created < Window(Start)
      BY DEF DeliveredInv
    <3>2. runs'[x[1]].created = runs[x[1]].created /\ runs[x[1]].created \in Nat
      BY ReadingTypes
    <3> QED
      BY <1>0, <3>1, <3>2
  <2> QED
    BY <2>1, <2>2, <2>3 DEF DeliveredInv
<1>2. CASE Lists
  <2>1. /\ Start' = Start /\ UNCHANGED <<delivered, seen, runs>>
        /\ scan'.rows = {x \in scan'.read : x[2] # 0} /\ scan'.read \subseteq Readings
    BY <1>2 DEF Lists, Start, forgeVars
  <2>2. ASSUME NEW x \in scan'.read \ scan'.rows PROVE x[2] <= delivered[x[1]]
    <3>1. x[2] = 0 /\ x[1] \in Ids
      BY <2>1 DEF Readings
    <3> QED
      BY <3>1, ReadingTypes
  <2> QED
    BY <2>1, <2>2 DEF DeliveredInv
<1>3. ASSUME NEW r \in Ids, NEW n \in 1..MaxFinishes, Rows(r, n) PROVE DeliveredInv'
  <2>1. /\ scan'.read = scan.read /\ scan'.rows = scan.rows \ {<<r, n>>} /\ Start' = Start
    BY <1>3, RowScan
  <2>2. /\ delivered' = IF Fresh(r, n) THEN [delivered EXCEPT ![r] = n] ELSE delivered
        /\ UNCHANGED <<runs, seen>>
    BY <1>3 DEF Rows, forgeVars, historyVars
  <2>3. delivered \in [Ids -> Nat] /\ n \in Nat
    BY TimesAssumption DEF BasicInv, HistoryInv, FinishesInv
  <2>4. n <= delivered'[r] /\ \A q \in Ids : delivered[q] <= delivered'[q]
    BY <2>2, <2>3 DEF Fresh
  <2>5. delivered' \in [Ids -> Nat]
    BY <2>2, <2>3
  <2>6. ASSUME NEW x \in scan'.read \ scan'.rows PROVE x[2] <= delivered'[x[1]]
    <3>1. x[1] \in Ids /\ x[2] \in Nat
      BY <2>1, ReadingTypes
    <3>2. CASE x = <<r, n>>
      BY <3>2, <2>4
    <3>3. CASE x # <<r, n>>
      <4>1. x[2] <= delivered[x[1]]
        BY <3>3, <2>1 DEF DeliveredInv
      <4> QED
        BY <4>1, <3>1, <2>3, <2>4, <2>5
    <3> QED
      BY <3>2, <3>3
  <2>7. ASSUME NEW x \in seen PROVE x[2] <= delivered'[x[1]] \/ runs[x[1]].created < Window(Start)
    <3>1. x[1] \in Ids /\ x[2] \in Nat
      BY ReadingTypes
    <3>2. x[2] <= delivered[x[1]] \/ runs[x[1]].created < Window(Start)
      BY DEF DeliveredInv
    <3> QED
      BY <3>1, <3>2, <2>3, <2>4, <2>5
  <2> QED
    BY <2>1, <2>2, <2>6, <2>7 DEF DeliveredInv
<1>4. CASE Ends
  <2>1. /\ scan.stage # "idle" /\ scan'.read = {}
        /\ scan.stage = "applying" => scan.rows = {}
        /\ delivered' = [r \in Ids |-> IF runs[r].created < Window(scan.start) THEN 0
                                       ELSE delivered[r]]
        /\ seen' = seen \cup scan.read /\ runs' = runs
    BY <1>4 DEF Ends, NoScan, forgeVars
  <2>2. Start = scan.start
    BY <2>1 DEF Start
  <2>3. ASSUME NEW x \in seen \cup scan.read
        PROVE  x[2] <= delivered'[x[1]] \/ runs[x[1]].created < Window(Start')
    <3>1. x[1] \in Ids /\ x[2] \in Nat /\ runs[x[1]].created \in Nat
      BY ReadingTypes
    <3>2. x[2] <= delivered[x[1]] \/ runs[x[1]].created < Window(Start)
      <4>1. CASE x \in seen
        BY <4>1 DEF DeliveredInv
      <4>2. CASE x \in scan.read
        <5>1. scan.rows = {}
          BY <2>1, <4>2 DEF BasicInv, ScanInv
        <5> QED
          BY <4>2, <5>1 DEF DeliveredInv
      <4> QED
        BY <4>1, <4>2
    <3> QED
      BY <1>0, <2>1, <2>2, <3>1, <3>2
  <2> QED
    BY <2>1, <2>3 DEF DeliveredInv
<1> QED
  BY <1>1, <1>2, <1>3, <1>4 DEF Steps

(* A reading logged twice is a second job line for one finish.  Whatever the
   listings of many scans repeat, no scan delivers a reading a save recorded:
   apply passes over a row older than the last delivery, and prune drops a
   delivery only once the window no longer lists its run. *)
THEOREM LoggedOnce == Spec => EachReadingLoggedOnce
<1>1. Init => DeliveredInv
  <2> SUFFICES ASSUME Init PROVE DeliveredInv
    OBVIOUS
  <2>1. seen = {} /\ scan = NoScan
    BY DEF Init
  <2> QED
    BY <2>1 DEF DeliveredInv, NoScan
<1>2. BasicInv /\ DeliveredInv /\ [Next]_vars => (BasicInv /\ DeliveredInv)'
  BY BasicStep, DeliveredStep
<1>3. BasicInv /\ DeliveredInv /\ [Next]_vars =>
        [\A r \in Ids :
            delivered'[r] \notin {0, delivered[r]} => <<r, delivered'[r]>> \notin seen]_vars
  <2> SUFFICES ASSUME BasicInv, DeliveredInv, [Next]_vars, NEW q \in Ids,
                      delivered'[q] \notin {0, delivered[q]}, <<q, delivered'[q]>> \in seen
               PROVE  FALSE
    OBVIOUS
  <2>0. Steps
    BY BasicStep
  <2>1. \E r \in Ids, n \in 1..MaxFinishes : Rows(r, n)
    <3>1. CASE Grows \/ Begins \/ Lists \/ Drops \/ UNCHANGED vars
      BY <3>1 DEF Grows, Begins, Lists, Drops, vars, storeVars
    <3>2. CASE Ends
      BY <3>2 DEF Ends
    <3> QED
      BY <2>0, <3>1, <3>2 DEF Steps
  <2>2. PICK r \in Ids : \E n \in 1..MaxFinishes : Rows(r, n)
    BY <2>1
  <2>3. PICK n \in 1..MaxFinishes : Rows(r, n)
    BY <2>2
  <2>4. /\ delivered' = IF Fresh(r, n) THEN [delivered EXCEPT ![r] = n] ELSE delivered
        /\ delivered \in [Ids -> Nat]
    BY <2>3 DEF Rows, BasicInv, HistoryInv, FinishesInv
  <2>5. Fresh(r, n) /\ q = r /\ delivered'[q] = n
    BY <2>4
  <2>6. delivered[r] <= n /\ delivered[r] # n /\ n \in Nat /\ delivered[r] \in Nat
    BY <2>4, <2>5, TimesAssumption DEF Fresh
  <2>7. <<r, n>> \in seen
    BY <2>5
  <2>8. n <= delivered[r] \/ runs[r].created < Window(Start)
    BY <2>7 DEF DeliveredInv
  <2>9. <<r, n>> \in scan.read /\ Start = scan.start
    BY <2>3, RowScan
  <2>10. runs[r].created >= Window(Start)
    BY <2>9 DEF BasicInv, ScanInv
  <2>11. runs[r].created \in Nat /\ Window(Start) \in Int
    BY <2>0, RunTypes, StartAdvances
  <2> QED
    BY <2>6, <2>8, <2>10, <2>11
<1> QED
  BY BasicInit, <1>1, <1>2, <1>3, PTL DEF Spec, EachReadingLoggedOnce
-----------------------------------------------------------------------------
(* What a listing covers. *)

(* While a listing is applied, it has every run created after its cover, or,
   when it was not cut short or no two runs share a time, from it on. *)
CoverInv == scan.stage = "applying" =>
    /\ scan.cut => MayCut
    /\ ~scan.cut => scan.cover = Window(scan.start)
    /\ scan.cut /\ scan.read = {} => scan.cover = scan.start
    /\ ~scan.cut \/ scan.read # {} =>
          \A q \in Created :
              \/ runs[q].created > scan.cover
              \/ runs[q].created = scan.cover /\ (scan.cut => ~SameTick)
              => q \in RunsOf(scan.read)

(* A scan's first and last step leave it nothing read. *)
LEMMA NothingRead ==
  /\ NoScan.stage = "idle" /\ NoScan.read = {} /\ NoScan.rows = {}
  /\ ~NoScan.judged /\ ~NoScan.contiguous
  /\ \A t : LET s == [NoScan EXCEPT !.stage = "reading", !.start = t]
            IN  /\ s.stage = "reading" /\ s.start = t /\ s.read = {} /\ s.rows = {}
                /\ ~s.judged /\ ~s.contiguous
  BY DEF NoScan

(* Only a listing reads, and what it reads stays to be recorded. *)
LEMMA ReadingsKept ==
  ASSUME BasicInv, Steps
  PROVE  \/ seen' \cup scan'.read = seen \cup scan.read
         \/ Lists /\ scan.read = {} /\ seen' = seen
<1>1. CASE Grows \/ UNCHANGED vars
  BY <1>1 DEF Grows, vars, historyVars
<1>2. CASE Begins \/ Drops
  <2>1. scan'.read = {} /\ seen' = seen
    BY <1>2, NothingRead DEF Begins, Drops, historyVars
  <2>2. scan.read = {}
    BY <1>2 DEF Begins, Drops, BasicInv, ScanInv
  <2> QED
    BY <2>1, <2>2
<1>3. CASE Lists
  BY <1>3 DEF Lists, BasicInv, ScanInv
<1>4. ASSUME NEW r \in Ids, NEW n \in 1..MaxFinishes, Rows(r, n)
      PROVE  seen' \cup scan'.read = seen \cup scan.read
  BY <1>4, RowScan DEF Rows, historyVars
<1>5. CASE Ends
  <2>1. scan'.read = {} /\ seen' = seen \cup scan.read
    BY <1>5, NothingRead DEF Ends
  <2> QED
    BY <2>1
<1> QED
  BY <1>1, <1>2, <1>3, <1>4, <1>5 DEF Steps

LEMMA CoverStep == ASSUME BasicInv, CoverInv, Steps PROVE CoverInv'
<1>1. CASE Grows \/ Begins \/ Ends \/ Drops
  <2>1. scan'.stage # "applying"
    BY <1>1, NothingRead DEF Grows, Begins, Ends, Drops
  <2> QED
    BY <2>1 DEF CoverInv
<1>2. CASE Lists
  <2>1. /\ scan'.start = scan.start /\ runs' = runs /\ Created' = Created
        /\ RunsOf(scan'.read) = RunsOf(scan.read)'
    BY <1>2 DEF Lists, forgeVars, Created, RunsOf
  <2>2. /\ scan'.cut => MayCut
        /\ ~scan'.cut => scan'.cover = Window(scan.start)
        /\ scan'.cut /\ scan'.read = {} => scan'.cover = scan.start
        /\ ~scan'.cut \/ scan'.read # {} =>
              \A q \in Created :
                  \/ runs[q].created > scan'.cover
                  \/ runs[q].created = scan'.cover /\ (scan'.cut => ~SameTick)
                  => q \in RunsOf(scan'.read)
    BY <1>2 DEF Lists
  <2> QED
    BY <2>1, <2>2 DEF CoverInv, Window
<1>3. ASSUME NEW r \in Ids, NEW n \in 1..MaxFinishes, Rows(r, n) PROVE CoverInv'
  <2>1. /\ scan'.stage = scan.stage /\ scan'.start = scan.start /\ scan'.cut = scan.cut
        /\ scan'.cover = scan.cover /\ scan'.read = scan.read /\ runs' = runs
    BY <1>3, RowScan DEF Rows, forgeVars
  <2>2. Created' = Created /\ RunsOf(scan.read)' = RunsOf(scan.read)
    BY <2>1 DEF Created, RunsOf
  <2> QED
    BY <2>1, <2>2 DEF CoverInv, Window
<1>4. CASE UNCHANGED vars
  <2>1. scan' = scan /\ runs' = runs
    BY <1>4 DEF vars, forgeVars
  <2>2. Created' = Created /\ RunsOf(scan.read)' = RunsOf(scan.read)
    BY <2>1 DEF Created, RunsOf
  <2> QED
    BY <2>1, <2>2 DEF CoverInv, Window
<1> QED
  BY <1>1, <1>2, <1>3, <1>4 DEF Steps

LEMMA CoverInit == Init => CoverInv
<1>1. Init => scan = NoScan
  BY DEF Init
<1> QED
  BY <1>1, NothingRead DEF CoverInv
-----------------------------------------------------------------------------
(* A vouched verdict is current. *)

(* With no late listing, what was read of a finished run is its last finish,
   and the finished runs already applied are no newer than the verdict. *)
CurrentInv ==
    /\ \A x \in scan.read :
          \/ runs[x[1]].running
          \/ x[2] = Len(runs[x[1]].results) /\ x[2] # 0
    /\ \A x \in scan.read : x[2] # 0 => x[2] = Len(runs[x[1]].results)
    /\ \A x \in scan.read \ scan.rows :
          x[2] # 0 /\ x[1] \notin PullRequests =>
              verdict # NoVerdict /\ runs[x[1]].created <= verdict.created

(* A row that is not older moves the verdict to its run, or is of a run no
   newer than the verdict's; the verdict's run never gets older. *)
LEMMA RowJudges ==
  ASSUME BasicInv, NEW r \in Ids, NEW n \in 1..MaxFinishes, Rows(r, n)
  PROVE  /\ verdict # NoVerdict => /\ verdict' # NoVerdict
                                   /\ verdict.created <= verdict'.created
                                   /\ verdict.created \in Nat /\ verdict'.created \in Nat
         /\ Fresh(r, n) /\ r \notin PullRequests =>
               verdict' # NoVerdict /\ runs[r].created <= verdict'.created
<1> DEFINE run == [id |-> r, created |-> runs[r].created, state |-> runs[r].results[n]]
<1>1. verdict' = IF Fresh(r, n) /\ Judged(r, n) THEN Judge(verdict, run, Reaches) ELSE verdict
  BY DEF Rows
<1>2. runs[r].created \in Nat
  BY RunTypes
<1>3. verdict # NoVerdict => /\ verdict.created \in Nat /\ verdict.id \in Nat
                             /\ verdict.created = runs[verdict.id].created
  BY DEF BasicInv, HistoryInv, VerdictInv, Verdict
<1>4. r \in Nat
  BY IdsAssumption
<1>5. CASE Fresh(r, n) /\ Judged(r, n)
  <2>1. Moves(verdict, run) /\ verdict' = Judge(verdict, run, Reaches)
    BY <1>1, <1>5 DEF Judged
  <2>2. verdict'.created = runs[r].created /\ verdict'.id = r
    BY <2>1 DEF Judge
  <2>3. verdict' # NoVerdict
    <3>1. /\ run \in FinishedRun
      <4>1. n \in 1..Len(runs[r].results) /\ r \in Created
        BY RowScan
      <4>2. runs[r].results \in Seq(States) /\ runs[r].created \in Nat \ {0}
        BY <4>1, RunTypes
      <4>3. runs[r].results[n] \in States
        BY <4>1, <4>2
      <4> QED
        BY <4>2, <4>3, IdsAssumption DEF FinishedRun
    <3>2. verdict # NoVerdict => verdict \in Verdict /\ ValidVerdict(verdict)
                                 /\ (verdict.id = run.id => verdict.created = run.created)
      BY DEF BasicInv, HistoryInv, VerdictInv
    <3>3. Reaches \in BOOLEAN
      <4>1. scan \in Scans
        BY DEF BasicInv, TypeOK, Scans
      <4>2. scan.contiguous \in BOOLEAN /\ scan.judged \in BOOLEAN
        BY <4>1 DEF Scans
      <4> QED
        BY <4>2 DEF Reaches
    <3> HIDE DEF run
    <3>4. verdict' \in Verdict
      BY <2>1, <3>1, <3>2, <3>3, JudgeValid
    <3> QED
      BY <3>4, NoVerdictAssumption
  <2>4. verdict # NoVerdict => verdict.created <= runs[r].created
    BY <2>1, <1>2, <1>3 DEF Moves, Precedes
  <2> QED
    BY <1>2, <1>3, <2>2, <2>3, <2>4
<1>6. CASE ~(Fresh(r, n) /\ Judged(r, n))
  <2>1. verdict' = verdict
    BY <1>1, <1>6
  <2>2. ASSUME Fresh(r, n), r \notin PullRequests
        PROVE  verdict # NoVerdict /\ runs[r].created <= verdict.created
    <3>1. ~Moves(verdict, run)
      BY <2>2, <1>6 DEF Judged
    <3>2. verdict # NoVerdict
      BY <3>1 DEF Moves
    <3>3. verdict.id = r \/ ~Precedes(verdict, run)
      BY <3>1, <3>2 DEF Moves
    <3> QED
      BY <3>2, <3>3, <1>2, <1>3, <1>4 DEF Precedes
  <2> QED
    BY <1>2, <1>3, <2>1, <2>2
<1> QED
  BY <1>5, <1>6

LEMMA CurrentStep ==
  ASSUME Late = {}, BasicInv, CurrentInv, Steps PROVE CurrentInv'
<1>1. CASE Grows \/ Begins \/ Ends \/ Drops
  <2>1. scan'.read = {}
    <3>1. CASE Grows
      BY <3>1 DEF Grows, BasicInv, ScanInv
    <3>2. CASE Begins \/ Ends \/ Drops
      BY <3>2, NothingRead DEF Begins, Ends, Drops
    <3> QED
      BY <1>1, <3>1, <3>2
  <2> QED
    BY <2>1 DEF CurrentInv
<1>2. CASE Lists
  <2>1. runs' = runs /\ scan'.rows = {x \in scan'.read : x[2] # 0}
    BY <1>2 DEF Lists, forgeVars
  <2>2. ASSUME NEW x \in scan'.read
        PROVE  /\ \/ runs[x[1]].running
                  \/ x[2] = Len(runs[x[1]].results) /\ x[2] # 0
               /\ x[2] # 0 => x[2] = Len(runs[x[1]].results)
    <3>1. x[1] \in Created /\ x[2] \in Views(x[1])
      BY <1>2, <2>2 DEF Lists
    <3>2. x[2] = IF runs[x[1]].running THEN 0 ELSE Len(runs[x[1]].results)
      BY <3>1 DEF Views
    <3>3. ~runs[x[1]].running => Len(runs[x[1]].results) >= 1
      BY <3>1 DEF BasicInv, OrderInv, CountsInv
    <3>4. Len(runs[x[1]].results) \in Nat
      BY <3>1, RunTypes
    <3> QED
      BY <3>2, <3>3, <3>4
  <2>3. \A x \in scan'.read \ scan'.rows : x[2] = 0
    BY <2>1
  <2> QED
    BY <2>1, <2>2, <2>3 DEF CurrentInv
<1>3. ASSUME NEW r \in Ids, NEW n \in 1..MaxFinishes, Rows(r, n) PROVE CurrentInv'
  <2>1. /\ scan'.read = scan.read /\ scan'.rows = scan.rows \ {<<r, n>>}
        /\ <<r, n>> \in scan.read /\ n \in 1..Len(runs[r].results) /\ runs' = runs
    BY <1>3, RowScan DEF Rows, forgeVars
  <2>2. Fresh(r, n)
    <3>1. n = Len(runs[r].results)
      <4>1. <<r, n>>[2] # 0 /\ <<r, n>>[1] = r
        BY <2>1
      <4> QED
        BY <2>1, <4>1 DEF CurrentInv
    <3>2. delivered[r] <= Len(runs[r].results)
      BY DEF BasicInv, HistoryInv, FinishesInv
    <3> QED
      BY <3>1, <3>2 DEF Fresh
  <2>3. ASSUME NEW x \in scan'.read \ scan'.rows, x[2] # 0, x[1] \notin PullRequests
        PROVE  verdict' # NoVerdict /\ runs[x[1]].created <= verdict'.created
    <3>1. CASE x = <<r, n>>
      BY <3>1, <2>2, <2>3, <1>3, RowJudges
    <3>2. CASE x # <<r, n>>
      <4>1. verdict # NoVerdict /\ runs[x[1]].created <= verdict.created
        BY <3>2, <2>1, <2>3 DEF CurrentInv
      <4>2. runs[x[1]].created \in Nat
        BY <2>1, ReadingTypes, <1>3 DEF Steps
      <4>3. /\ verdict' # NoVerdict /\ verdict.created <= verdict'.created
            /\ verdict.created \in Nat /\ verdict'.created \in Nat
        BY <4>1, <1>3, RowJudges
      <4> QED
        BY <4>1, <4>2, <4>3
    <3> QED
      BY <3>1, <3>2
  <2> QED
    BY <2>1, <2>3 DEF CurrentInv
<1>4. CASE UNCHANGED vars
  BY <1>4 DEF vars, forgeVars, storeVars, CurrentInv
<1> QED
  BY <1>1, <1>2, <1>3, <1>4 DEF Steps

(* A verdict shown as the workflow's state, when the listing vouches for it, is
   of the newest run of the window that had finished: a listing cut short has
   every run after its cover, and rows are judged in the order of creation.  A
   late listing may show an earlier state of a run, so that a finished one is
   read as pending, and there the property is false: it is stated for listings
   that are not late. *)
THEOREM VouchedCurrent == ASSUME Late = {} PROVE Spec => VouchedIsCurrent
<1>1. Init => CurrentInv
  <2>1. Init => scan = NoScan
    BY DEF Init
  <2> QED
    BY <2>1, NothingRead DEF CurrentInv
<1> DEFINE Inv == BasicInv /\ CoverInv /\ CurrentInv
<1>2. Inv /\ [Next]_vars => Inv'
  BY BasicStep, CoverStep, CurrentStep
<1>3. Inv /\ [Next]_vars =>
        [scan.stage = "applying" /\ scan'.stage = "idle" /\ verdict' # NoVerdict
              /\ Vouched(scan.cut, scan.cover, verdict'.created) =>
          \A r \in Created \ PullRequests :
              runs[r].created \in Window(scan.start)..scan.start
                  /\ runs[r].created > verdict'.created
              => runs[r].running]_vars
  <2> SUFFICES ASSUME Inv, [Next]_vars,
                      scan.stage = "applying", scan'.stage = "idle", verdict' # NoVerdict,
                      Vouched(scan.cut, scan.cover, verdict'.created),
                      NEW r \in Created \ PullRequests,
                      runs[r].created \in Window(scan.start)..scan.start,
                      runs[r].created > verdict'.created
               PROVE  runs[r].running
    OBVIOUS
  <2>0. Steps
    BY BasicStep
  <2>1. Ends
    <3>1. ~Grows /\ ~Begins /\ ~Drops /\ ~Lists
      BY DEF Grows, Begins, Drops, Lists
    <3>2. ~UNCHANGED vars
      BY DEF vars
    <3>3. ASSUME NEW q \in Ids, NEW n \in 1..MaxFinishes, Rows(q, n) PROVE FALSE
      BY <3>3, RowScan
    <3> QED
      BY <2>0, <3>1, <3>2, <3>3 DEF Steps
  <2>2. verdict' = verdict /\ scan.rows = {}
    BY <2>1 DEF Ends
  <2>3. /\ runs[r].created \in Nat /\ scan.cover \in Int /\ Window(scan.start) \in Int
        /\ scan.start \in Nat
    BY RunTypes
  <2>4. verdict.created \in Nat
    BY <2>2 DEF BasicInv, HistoryInv, VerdictInv, Verdict
  <2>5. r \in RunsOf(scan.read)
    <3>1. CASE ~scan.cut
      <4>1. scan.cover = Window(scan.start)
        BY <3>1 DEF CoverInv
      <4>2. \/ runs[r].created > scan.cover
            \/ runs[r].created = scan.cover /\ (scan.cut => ~SameTick)
        BY <3>1, <4>1, <2>3
      <4> QED
        BY <3>1, <4>2 DEF CoverInv
    <3>2. CASE scan.cut
      <4>1. scan.cover <= verdict.created
        BY <3>2, <2>2 DEF Vouched
      <4>2. runs[r].created > scan.cover
        BY <4>1, <2>2, <2>3, <2>4
      <4>3. scan.read # {}
        BY <3>2, <4>2, <2>3 DEF CoverInv
      <4> QED
        BY <4>2, <4>3 DEF CoverInv
    <3> QED
      BY <3>1, <3>2
  <2>6. PICK x \in scan.read : x[1] = r
    BY <2>5 DEF RunsOf
  <2>7. CASE x[2] # 0
    <3>1. runs[r].created <= verdict.created
      BY <2>2, <2>6, <2>7 DEF CurrentInv
    <3> QED
      BY <3>1, <2>2, <2>3, <2>4
  <2>8. CASE x[2] = 0
    BY <2>6, <2>8 DEF CurrentInv
  <2> QED
    BY <2>7, <2>8
<1> HIDE DEF Inv
<1>4. Init => Inv
  BY <1>1, BasicInit, CoverInit DEF Inv
<1> QED
  BY <1>2, <1>3, <1>4, PTL DEF Spec, VouchedIsCurrent
-----------------------------------------------------------------------------
(* Days no listing covered are marked. *)

(* A cut listing leaves unlisted only runs older than its oldest row: no two
   runs share a time, or no listing is cut short. *)
CutsApart == SameTick => ~MayCut

(* The retained day of a run no listing returned, created before the listing
   time but no earlier than the first listing's cover, is marked clipped. *)
UnlistedInv == listed # 0 =>
    \A r \in Created \ RunsOf(seen \cup scan.read) :
        /\ first <= runs[r].created /\ runs[r].created < listed
        /\ DayOf(runs[r].created) >= FirstDay(Start)
        => DayOf(runs[r].created) \in clipped

(* A listing being applied has every run created since its cover. *)
LEMMA CoveredRead ==
  ASSUME CutsApart, BasicInv, Lists, NEW q \in Created,
         runs[q].created >= scan'.cover, runs[q].created < scan.start
  PROVE  q \in RunsOf(scan'.read)
<1>1. runs[q].created \in Nat /\ scan'.cover \in Int /\ scan.start \in Nat
  BY RunTypes DEF Lists
<1>2. /\ scan'.cut => MayCut
      /\ scan'.cut /\ scan'.read = {} => scan'.cover = scan.start
      /\ ~scan'.cut \/ scan'.read # {} =>
            \A p \in Created :
                \/ runs[p].created > scan'.cover
                \/ runs[p].created = scan'.cover /\ (scan'.cut => ~SameTick)
                => p \in RunsOf(scan'.read)
  BY DEF Lists
<1>3. ~scan'.cut \/ scan'.read # {}
  BY <1>1, <1>2
<1>4. scan'.cut => ~SameTick
  BY <1>2 DEF CutsApart
<1>5. runs[q].created > scan'.cover \/ runs[q].created = scan'.cover
  BY <1>1
<1> QED
  BY <1>2, <1>3, <1>4, <1>5

(* The days of a gap are marked as its listing is recorded. *)
LEMMA GapMarked ==
  ASSUME NEW from \in Nat \ {0}, NEW to \in Int, NEW start \in Nat, NEW t \in Nat,
         from <= t, t < to, t <= MaxTime, DayOf(t) >= FirstDay(start)
  PROVE  DayOf(t) \in GapDays(from, to, start)
<1>1. MaxTime \in Int /\ DayLength \in Int
  BY TimesAssumption
<1>2. DayOf(t) \in Int /\ DayOf(t) * DayLength <= t /\ DayOf(t) <= DayOf(MaxTime)
  BY <1>1, Days
<1>3. DayOf(from) <= DayOf(t) /\ DayOf(from) \in Int /\ DayOf(MaxTime) \in Int
  BY <1>1, Days
<1>4. FirstDay(start) \in Int
  BY Days, TimesAssumption DEF FirstDay
<1> DEFINE d == DayOf(t)
<1>5. d \in FirstDay(start)..DayOf(MaxTime)
  BY <1>2, <1>3, <1>4
<1>6. d * DayLength \in Int
  BY <1>1, <1>2
<1>7. d * DayLength < to
  BY <1>2, <1>6
<1> QED
  BY <1>3, <1>5, <1>7 DEF GapDays, ClippedDays

LEMMA UnlistedStep ==
  ASSUME CutsApart, BasicInv, UnlistedInv, Steps PROVE UnlistedInv'
<1>0. Start \in Nat /\ Start' \in Nat /\ Start <= Start'
  BY StartAdvances
<1>d. FirstDay(Start) <= FirstDay(Start') /\ FirstDay(Start) \in Int /\ FirstDay(Start') \in Int
  BY <1>0, Days, TimesAssumption DEF FirstDay
<1>1. CASE Lists
  <2>1. /\ scan.stage = "reading" /\ scan'.start = scan.start /\ Start' = Start /\ Start = scan.start
        /\ UNCHANGED <<runs, seen>> /\ Created' = Created
    BY <1>1 DEF Lists, Start, forgeVars, Created
  <2>2. RunsOf(seen \cup scan.read)' = RunsOf(seen \cup scan.read) \cup RunsOf(scan'.read)
    <3>1. scan.read = {}
      BY <2>1 DEF BasicInv, ScanInv
    <3> QED
      BY <2>1, <3>1 DEF RunsOf
  <2>3. scan.start \in Nat \ {0} /\ listed \in Nat /\ scan'.cover \in Int /\ first \in Int
    <3>1. scan.start # 0
      BY <2>1, RunTypes DEF BasicInv, ScanInv
    <3>2. first \in Int
      BY DEF BasicInv, TypeOK
    <3> QED
      BY <3>1, <3>2, <1>1, RunTypes DEF Lists
  <2>4. SUFFICES ASSUME listed' # 0, NEW r \in Created, r \notin RunsOf(seen \cup scan.read),
                        r \notin RunsOf(scan'.read),
                        first' <= runs[r].created, runs[r].created < listed',
                        DayOf(runs[r].created) >= FirstDay(scan.start)
                 PROVE  DayOf(runs[r].created) \in clipped'
    BY <2>1, <2>2 DEF UnlistedInv
  <2>5. runs[r].created \in Nat /\ runs[r].created <= MaxTime
    BY RunTypes, TimesAssumption
  <2>6. clipped \subseteq clipped' /\ first' = IF listed = 0 THEN scan'.cover ELSE first
    BY <1>1 DEF Lists
  <2>7. CASE listed # 0 /\ runs[r].created < listed
    <3>1. DayOf(runs[r].created) \in clipped
      BY <2>1, <2>4, <2>6, <2>7 DEF UnlistedInv
    <3> QED
      BY <3>1, <2>6
  <2>8. CASE listed = 0 \/ runs[r].created >= listed
    <3>1. listed' = scan.start /\ MovesListed(listed, scan'.cut, scan'.cover, Window(scan.start))
      BY <1>1, <2>3, <2>4, <2>5, <2>8 DEF Lists
    <3>2. runs[r].created < scan'.cover
      <4>1. ~(runs[r].created >= scan'.cover)
        BY <1>1, <2>4, <3>1, CoveredRead
      <4> QED
        BY <4>1, <2>3, <2>5
    <3>3. listed # 0 /\ listed <= runs[r].created
      BY <2>3, <2>4, <2>5, <2>6, <2>8, <3>2
    <3>4. ~Covered(listed, scan'.cover)
      BY <2>3, <2>5, <3>2, <3>3 DEF Covered
    <3>5. GapDays(listed, scan'.cover, scan.start) \subseteq clipped'
      BY <1>1, <3>1, <3>4 DEF Lists
    <3>6. DayOf(runs[r].created) \in GapDays(listed, scan'.cover, scan.start)
      BY <2>3, <2>4, <2>5, <3>2, <3>3, GapMarked
    <3> QED
      BY <3>5, <3>6
  <2> QED
    BY <2>3, <2>5, <2>7, <2>8
<1>2. CASE ~Lists
  <2>1. RunsOf(seen \cup scan.read)' = RunsOf(seen \cup scan.read)
    <3>1. seen' \cup scan'.read = seen \cup scan.read
      BY <1>2, ReadingsKept
    <3> QED
      BY <3>1 DEF RunsOf
  <2>2. /\ first' = first /\ listed' \in {listed, 0}
        /\ listed' # 0 => \A d \in clipped : d >= FirstDay(Start) => d \in clipped'
    <3>1. CASE Grows \/ Begins \/ Drops \/ UNCHANGED vars
      BY <3>1 DEF Grows, Begins, Drops, vars, storeVars, historyVars
    <3>2. ASSUME NEW r \in Ids, NEW n \in 1..MaxFinishes, Rows(r, n)
          PROVE  UNCHANGED <<first, listed, clipped>>
      BY <3>2 DEF Rows, historyVars
    <3>3. CASE Ends
      <4>1. Start = scan.start
        BY <3>3 DEF Ends, Start
      <4> QED
        BY <3>3, <4>1 DEF Ends
    <3> QED
      BY <1>2, <3>1, <3>2, <3>3 DEF Steps
  <2>3. SUFFICES ASSUME listed' # 0, NEW r \in Created', r \notin RunsOf(seen \cup scan.read),
                        first <= runs'[r].created, runs'[r].created < listed,
                        DayOf(runs'[r].created) >= FirstDay(Start')
                 PROVE  DayOf(runs'[r].created) \in clipped'
    BY <2>1, <2>2 DEF UnlistedInv
  <2>4. r \in Created
    <3>1. SUFFICES ASSUME r \notin Created PROVE FALSE
      OBVIOUS
    <3>2. CASE Grows
      <4>1. runs'[r].created = now' /\ now <= now' /\ now' \in Nat /\ now \in Nat
        BY <3>1, <3>2, RunTypes, TimesAssumption DEF Grows
      <4>2. listed <= now
        <5>1. listed <= Start /\ Start <= now
          BY RunTypes DEF BasicInv, ScanInv, Start
        <5> QED
          BY <5>1, <4>1, <1>0, RunTypes
      <4> QED
        BY <4>1, <4>2, <2>3, RunTypes
    <3>3. CASE ~Grows
      <4>1. runs' = runs
        BY <3>3 DEF Steps, Begins, Lists, Rows, Ends, Drops, vars, forgeVars
      <4> QED
        BY <4>1, <3>1 DEF Created
    <3> QED
      BY <3>2, <3>3
  <2>5. runs'[r].created = runs[r].created /\ runs[r].created \in Nat
    BY <2>4, RunsStay, RunTypes
  <2>6. DayOf(runs[r].created) \in Int
    BY <2>5, Days
  <2>7. DayOf(runs[r].created) >= FirstDay(Start)
    BY <2>3, <2>5, <2>6, <1>d
  <2>8. DayOf(runs[r].created) \in clipped
    BY <2>2, <2>3, <2>4, <2>5, <2>7 DEF UnlistedInv
  <2> QED
    BY <2>2, <2>3, <2>5, <2>7, <2>8
<1> QED
  BY <1>1, <1>2

(* A retained day some run of which no listing returned is marked clipped,
   whatever scans were cut short, failed or came too late to reach back to the
   one before.  Runs of one second on both sides of a cut are out of it: the
   cover of a cut listing is its oldest row's time. *)
THEOREM UnlistedClipped == ASSUME SameTick => ~MayCut PROVE Spec => []UnlistedRunIsClipped
<1>1. Init => BasicInv /\ UnlistedInv
  BY BasicInit DEF Init, UnlistedInv
<1>2. BasicInv /\ UnlistedInv /\ [Next]_vars => (BasicInv /\ UnlistedInv)'
  BY BasicStep, UnlistedStep DEF CutsApart
<1>3. BasicInv /\ UnlistedInv => UnlistedRunIsClipped
  <2> SUFFICES ASSUME BasicInv, UnlistedInv, scan.stage = "idle", listed # 0
               PROVE  \A r \in Created \ Returned :
                         /\ first <= runs[r].created /\ runs[r].created < listed
                         /\ DayOf(runs[r].created) >= FirstDay(now)
                         => DayOf(runs[r].created) \in clipped
    BY DEF UnlistedRunIsClipped
  <2>1. scan.read = {}
    BY DEF BasicInv, ScanInv
  <2>2. RunsOf(seen \cup scan.read) = Returned /\ Start = now
    BY <2>1 DEF RunsOf, Returned, Start
  <2> QED
    BY <2>2 DEF UnlistedInv
<1> QED
  BY <1>1, <1>2, <1>3, PTL DEF Spec
-----------------------------------------------------------------------------
(* An unclipped streak skips only gaps. *)

(* The runs listed, in a logged gap, or older than the first listing. *)
Known == {r \in Created : \/ r \in RunsOf(seen \cup scan.read)
                          \/ r \in reported
                          \/ runs[r].created < first}

(* Run r was read in state s. *)
Said(r, s) == \E x \in seen \cup scan.read : x[1] = r /\ x[2] # 0 /\ runs[r].results[x[2]] = s

(* The runs of the workflow between two, and those read failing. *)
Between(p, r) == {q \in Created \ PullRequests : p < q /\ q < r}
Failing(p, r) == {q \in Between(p, r) : Said(q, "failing")}

(* The streak b, which run r follows and is not marked clipped, began after a
   run p read passing, with every run from p to r known. *)
Started(b, r) ==
    b # Unlisted /\ ~b.clipped =>
        \E p \in Created \ PullRequests :
            /\ p < r
            /\ Said(p, "passing")
            /\ b.count > 0 => runs[p].created <= b.since
            /\ Between(p, r) \subseteq Known
            /\ b.count <= Cardinality(Failing(p, r))

(* The runs created after the verdict's and before the listing time are known. *)
SinceKnown == listed # 0 =>
    \A q \in Created \ PullRequests :
        verdict.id < q /\ runs[q].created < listed => q \in Known

(* What a verdict stands on. *)
StreakInv == verdict # NoVerdict =>
    /\ Said(verdict.id, verdict.state)
    /\ verdict.created <= Start \/ scan.stage = "applying"
    /\ scan.judged => verdict.created >= scan.cover
    /\ SinceKnown
    /\ Started(verdict.base, verdict.id)

(* The order of creation is that of the IDs. *)
LEMMA EarlierIds ==
  ASSUME BasicInv, NEW q \in Created, NEW r \in Created
  PROVE  /\ Earlier(q, r) <=> q < r
         /\ q < r => /\ runs[q].created <= runs[r].created
                     /\ ~SameTick => runs[q].created < runs[r].created
<1>1. q \in Nat /\ r \in Nat /\ runs[q].created \in Nat /\ runs[r].created \in Nat
  BY RunTypes
<1>2. /\ q < r => /\ runs[q].created <= runs[r].created
                  /\ ~SameTick => runs[q].created < runs[r].created
      /\ r < q => runs[r].created <= runs[q].created
  BY DEF BasicInv, OrderInv
<1> QED
  BY <1>1, <1>2 DEF Earlier

(* The run a verdict is of. *)
LEMMA VerdictRun ==
  ASSUME BasicInv, verdict # NoVerdict
  PROVE  /\ verdict.id \in Created \ PullRequests /\ verdict.id \in Nat
         /\ verdict.created = runs[verdict.id].created /\ verdict.created \in Nat
         /\ verdict.state \in States /\ verdict.base \in Streak \cup {Unlisted}
         /\ BaseOf(verdict.base, verdict.created)
         /\ verdict.streak = NextStreak(verdict.base, verdict.state, verdict.created)
<1>1. /\ verdict \in Verdict /\ verdict.id \in Ids \ PullRequests
      /\ verdict.created = runs[verdict.id].created /\ ValidVerdict(verdict)
  BY DEF BasicInv, HistoryInv, VerdictInv
<1>2. /\ verdict.created > 0 /\ BaseOf(verdict.base, verdict.created)
      /\ verdict.streak = NextStreak(verdict.base, verdict.state, verdict.created)
  BY <1>1, ValidVerdictBase
<1>3. /\ verdict.id \in Nat /\ verdict.created \in Nat /\ verdict.state \in States
      /\ verdict.base \in Streak \cup {Unlisted}
  BY <1>1 DEF Verdict
<1>4. verdict.id \in Created
  BY <1>1, <1>2, <1>3 DEF Created, Absent
<1> QED
  BY <1>1, <1>2, <1>3, <1>4

(* A failing run more. *)
LEMMA OneMore ==
  ASSUME BasicInv, NEW p \in Nat, NEW v \in Created, NEW T,
         Failing(p, v) \cup {v} \subseteq T, T \subseteq Created
  PROVE  /\ Cardinality(Failing(p, v)) \in Nat /\ Cardinality(T) \in Nat
         /\ Cardinality(Failing(p, v)) + 1 <= Cardinality(T)
<1>1. IsFiniteSet(T)
  BY FS_Subset DEF BasicInv, OrderInv
<1> DEFINE F == Failing(p, v)
<1>2. v \notin F
  <2>1. v \in Nat
    BY RunTypes
  <2> QED
    BY <2>1 DEF Failing, Between
<1> HIDE DEF F
<1>3. F \subseteq T /\ F \cup {v} \subseteq T
  BY DEF F
<1>4. IsFiniteSet(F)
  BY <1>1, <1>3, FS_Subset
<1>5. Cardinality(F \cup {v}) = Cardinality(F) + 1
  BY <1>2, <1>4, FS_AddElement
<1>6. Cardinality(F \cup {v}) <= Cardinality(T)
  BY <1>1, <1>3, FS_Subset
<1>7. Cardinality(F) \in Nat /\ Cardinality(T) \in Nat
  BY <1>1, <1>4, FS_CardinalityType
<1> QED
  BY <1>5, <1>6, <1>7 DEF F

(* What was said stays said. *)
LEMMA SaidStays ==
  ASSUME BasicInv, Steps, NEW r, NEW s, Said(r, s)
  PROVE  Said(r, s)' /\ r \in Created
<1>1. PICK x \in seen \cup scan.read : x[1] = r /\ x[2] # 0 /\ runs[r].results[x[2]] = s
  BY DEF Said
<1>2. r \in Created /\ x[2] \in Nat /\ x[2] <= Len(runs[r].results)
  BY <1>1, ReadingTypes DEF BasicInv, ScanInv
<1>3. x[2] \in 1..Len(runs[r].results)
  <2>1. Len(runs[r].results) \in Nat
    BY <1>2, RunTypes
  <2> QED
    BY <2>1, <1>1, <1>2
<1>4. runs'[r].results[x[2]] = s
  BY <1>1, <1>2, <1>3, RunsStay
<1>5. x \in seen' \cup scan'.read
  BY ReadingsKept
<1> QED
  BY <1>1, <1>2, <1>4, <1>5 DEF Said

(* No run is created between others. *)
LEMMA BetweenStays ==
  ASSUME BasicInv, Steps, NEW p \in Created, NEW r \in Created
  PROVE  Between(p, r)' = Between(p, r)
<1>1. ASSUME NEW q \in Created', q < r PROVE q \in Created
  <2>1. CASE Grows
    <3>1. r \in Nat /\ q \in Nat
      BY RunTypes, IdsAssumption DEF Created
    <3> SUFFICES ASSUME q \notin Created PROVE FALSE
      OBVIOUS
    <3>2. r < q
      BY <2>1 DEF Grows
    <3> QED
      BY <1>1, <3>1, <3>2
  <2>2. CASE ~Grows
    BY <2>2 DEF Steps, Begins, Lists, Rows, Ends, Drops, vars, forgeVars, Created
  <2> QED
    BY <2>1, <2>2
<1>2. Created \subseteq Created'
  BY RunsStay
<1> QED
  BY <1>1, <1>2 DEF Between

(* A run known stays known, but that a listing that follows none has its own
   cover for the first. *)
LEMMA KnownStays ==
  ASSUME BasicInv, Steps, ~(Lists /\ listed = 0)
  PROVE  Known \subseteq Known'
<1>1. first' = first /\ reported \subseteq reported'
  <2>1. CASE Grows \/ Begins \/ Drops \/ UNCHANGED vars
    BY <2>1 DEF Grows, Begins, Drops, vars, historyVars
  <2>2. CASE Lists
    BY <2>2 DEF Lists
  <2>3. ASSUME NEW r \in Ids, NEW n \in 1..MaxFinishes, Rows(r, n)
        PROVE  first' = first /\ reported \subseteq reported'
    BY <2>3 DEF Rows, historyVars
  <2>4. CASE Ends
    BY <2>4 DEF Ends
  <2> QED
    BY <2>1, <2>2, <2>3, <2>4 DEF Steps
<1>2. RunsOf(seen \cup scan.read) \subseteq RunsOf(seen \cup scan.read)'
  <2>1. seen \cup scan.read \subseteq seen' \cup scan'.read
    BY ReadingsKept
  <2> QED
    BY <2>1 DEF RunsOf
<1>3. \A r \in Created : r \in Created' /\ runs'[r].created = runs[r].created
  BY RunsStay
<1> QED
  BY <1>1, <1>2, <1>3 DEF Known

(* A streak stays begun as the runs between stay known. *)
LEMMA StartedStays ==
  ASSUME BasicInv, BasicInv', Steps, NEW b \in Streak \cup {Unlisted}, NEW r \in Created,
         Started(b, r), \A q \in Known : q < r => q \in Known'
  PROVE  Started(b, r)'
<1> SUFFICES ASSUME b # Unlisted, ~b.clipped
             PROVE  \E p \in Created' \ PullRequests :
                      /\ p < r
                      /\ Said(p, "passing")'
                      /\ b.count > 0 => runs'[p].created <= b.since
                      /\ Between(p, r)' \subseteq Known'
                      /\ b.count <= Cardinality(Failing(p, r)')
  BY DEF Started
<1>1. PICK p \in Created \ PullRequests :
        /\ p < r
        /\ Said(p, "passing")
        /\ b.count > 0 => runs[p].created <= b.since
        /\ Between(p, r) \subseteq Known
        /\ b.count <= Cardinality(Failing(p, r))
  BY DEF Started
<1>2. p \in Created' /\ runs'[p].created = runs[p].created
  BY RunsStay
<1>3. Said(p, "passing")'
  BY <1>1, SaidStays
<1>4. Between(p, r)' = Between(p, r)
  BY BetweenStays
<1>5. Between(p, r) \subseteq Known'
  BY <1>1 DEF Between
<1>6. Failing(p, r) \subseteq Failing(p, r)'
  <2> SUFFICES ASSUME NEW q \in Failing(p, r) PROVE q \in Failing(p, r)'
    OBVIOUS
  <2>1. q \in Between(p, r) /\ Said(q, "failing")
    BY DEF Failing
  <2>2. Said(q, "failing")'
    BY <2>1, SaidStays
  <2> QED
    BY <1>4, <2>1, <2>2 DEF Failing
<1>7. IsFiniteSet(Failing(p, r)')
  <2>1. IsFiniteSet(Created)
    BY DEF BasicInv, OrderInv
  <2>2. Failing(p, r)' \subseteq Created
    BY <1>4 DEF Failing, Between
  <2> QED
    BY <2>1, <2>2, FS_Subset
<1>8. /\ Cardinality(Failing(p, r)) <= Cardinality(Failing(p, r)')
      /\ Cardinality(Failing(p, r)) \in Nat /\ Cardinality(Failing(p, r)') \in Nat
  BY <1>6, <1>7, FS_Subset, FS_CardinalityType
<1>9. b.count <= Cardinality(Failing(p, r)')
  <2>1. b.count \in Nat
    BY DEF Streak, NoStreak
  <2> QED
    BY <1>1, <1>8, <2>1
<1> QED
  BY <1>1, <1>2, <1>3, <1>4, <1>5, <1>9

(* A verdict kept keeps what it was read from. *)
LEMMA VerdictKept ==
  ASSUME BasicInv, BasicInv', Steps, StreakInv, verdict # NoVerdict, verdict' = verdict,
         \A q \in Known : q < verdict.id => q \in Known'
  PROVE  Said(verdict.id, verdict.state)' /\ Started(verdict.base, verdict.id)'
<1>1. PICK r \in Created : r = verdict.id
  BY VerdictRun
<1>2. PICK b \in Streak \cup {Unlisted} : b = verdict.base
  BY VerdictRun
<1>3. PICK s \in States : s = verdict.state
  BY VerdictRun
<1>4. Said(r, s) /\ Started(b, r)
  BY <1>1, <1>2, <1>3 DEF StreakInv
<1>5. Said(r, s)'
  BY <1>4, SaidStays
<1>6. \A q \in Known : q < r => q \in Known'
  BY <1>1
<1>7. Started(b, r)'
  BY <1>4, <1>6, StartedStays
<1>8. verdict'.id = r /\ verdict'.base = b /\ verdict'.state = s
  BY <1>1, <1>2, <1>3
<1> QED
  BY <1>5, <1>7, <1>8

(* A listing. *)
LEMMA StreakLists ==
  ASSUME CutsApart, BasicInv, BasicInv', CoverInv, StreakInv, Lists PROVE StreakInv'
<1>0. /\ scan.stage = "reading" /\ scan'.stage = "applying" /\ scan'.judged = scan.judged
      /\ UNCHANGED <<now, runs, verdict, seen>>
      /\ Steps
  BY DEF Lists, forgeVars, Steps
<1>1. SUFFICES ASSUME verdict # NoVerdict
               PROVE  /\ Said(verdict.id, verdict.state)' /\ Started(verdict.base, verdict.id)'
                      /\ ~scan.judged
                      /\ listed' # 0 =>
                            \A q \in Created \ PullRequests :
                               verdict.id < q /\ runs[q].created < listed' => q \in Known'
  BY <1>0 DEF StreakInv, SinceKnown, Created
<1>2. ~scan.judged
  BY <1>0 DEF BasicInv, ScanInv
<1>3. /\ verdict.id \in Created /\ verdict.id \in Nat /\ verdict.created = runs[verdict.id].created
      /\ verdict.created \in Nat /\ verdict.created <= scan.start
  BY <1>0, <1>1, VerdictRun DEF StreakInv, Start
<1>4. /\ scan.start \in Nat /\ listed \in Nat /\ scan'.cover \in Int
      /\ Window(scan.start) \in Int
  BY RunTypes DEF Lists
<1>5. Created' = Created
  BY <1>0 DEF Created
<1>6. \A q \in RunsOf(scan'.read) : q \in Created => q \in Known'
  <2>1. RunsOf(scan'.read) \subseteq RunsOf(seen \cup scan.read)'
    BY DEF RunsOf
  <2> QED
    BY <1>5, <2>1 DEF Known
<1>7. CASE listed = 0
  <2>1. first' = scan'.cover
    BY <1>7 DEF Lists
  <2>2. ASSUME NEW q \in Created, runs[q].created < scan.start PROVE q \in Known'
    <3>1. CASE runs[q].created < scan'.cover
      BY <1>0, <1>5, <2>1, <3>1 DEF Known
    <3>2. CASE ~(runs[q].created < scan'.cover)
      <4>1. runs[q].created >= scan'.cover
        BY <3>2, <1>4, RunTypes
      <4>2. q \in RunsOf(scan'.read)
        BY <2>2, <4>1, CoveredRead
      <4> QED
        BY <1>6, <4>2
    <3> QED
      BY <3>1, <3>2
  <2>3. ASSUME NEW q \in Known, q < verdict.id PROVE q \in Known'
    <3>1. q \in Created /\ runs[q].created \in Nat
      BY RunTypes DEF Known
    <3>2. CASE runs[q].created < scan.start
      BY <2>2, <3>1, <3>2
    <3>3. CASE ~(runs[q].created < scan.start)
      <4>1. runs[q].created <= verdict.created
        BY <1>3, <2>3, <3>1, EarlierIds
      <4>2. runs[q].created = scan.start /\ runs[q].created = verdict.created
        BY <4>1, <3>1, <3>3, <1>3, <1>4
      <4>3. SameTick
        BY <4>2, <1>3, <2>3, <3>1, EarlierIds
      <4>4. ~scan'.cut
        BY <4>3 DEF Lists, CutsApart
      <4>5. scan'.cover = Window(scan.start)
        BY <4>4 DEF Lists
      <4>6. runs[q].created > scan'.cover
        <5>1. Lookback \in Nat \ {0}
          BY TimesAssumption
        <5>2. scan.start - Lookback < scan.start
          BY <5>1, <1>4
        <5>3. scan'.cover < scan.start
          BY <4>5, <5>2 DEF Window
        <5> QED
          BY <4>2, <5>3
      <4>7. q \in RunsOf(scan'.read)
        BY <4>4, <4>6, <3>1 DEF Lists
      <4> QED
        BY <1>6, <3>1, <4>7
    <3> QED
      BY <3>2, <3>3
  <2>4. listed' \in {0, scan.start}
    BY <1>7 DEF Lists
  <2> QED
    BY <1>0, <1>1, <1>2, <2>2, <2>3, <2>4, VerdictKept
<1>8. CASE listed # 0
  <2>1. Known \subseteq Known'
    BY <1>0, <1>8, KnownStays
  <2>2. ASSUME NEW q \in Created \ PullRequests, verdict.id < q, runs[q].created < listed'
        PROVE  q \in Known'
    <3>0. runs[q].created \in Nat
      BY RunTypes
    <3>1. CASE runs[q].created < listed
      <4>1. q \in Known
        BY <1>1, <1>8, <2>2, <3>1 DEF StreakInv, SinceKnown
      <4> QED
        BY <2>1, <4>1
    <3>2. CASE runs[q].created >= listed
      <4>1. listed' = scan.start /\ MovesListed(listed, scan'.cut, scan'.cover, Window(scan.start))
        BY <1>4, <2>2, <3>0, <3>2 DEF Lists
      <4>2. CASE runs[q].created >= scan'.cover
        <5>1. q \in RunsOf(scan'.read)
          BY <2>2, <4>1, <4>2, CoveredRead
        <5> QED
          BY <1>6, <5>1
      <4>3. CASE runs[q].created < scan'.cover
        <5>1. ~Covered(listed, scan'.cover)
          BY <1>4, <3>0, <3>2, <4>3 DEF Covered
        <5>2. ~Covered(listed, Window(scan.start))
          <6>1. ~scan'.cut => scan'.cover = Window(scan.start)
            BY DEF Lists
          <6> QED
            BY <4>1, <5>1, <6>1 DEF MovesListed
        <5>3. q \in reported'
          BY <1>8, <3>2, <4>3, <5>2 DEF Lists
        <5> QED
          BY <1>5, <5>3 DEF Known
      <4> QED
        BY <3>0, <1>4, <4>2, <4>3
    <3> QED
      BY <3>0, <1>4, <3>1, <3>2
  <2> QED
    BY <1>0, <1>1, <1>2, <2>1, <2>2, VerdictKept
<1> QED
  BY <1>7, <1>8

(* The runs after the verdict's, up to a row the verdict's streak reaches, are
   known. *)
LEMMA ReachedKnown ==
  ASSUME CutsApart, BasicInv, CoverInv, StreakInv, verdict # NoVerdict,
         scan.stage = "applying", scan.read # {}, Reaches,
         NEW q \in Created \ PullRequests, verdict.id < q
  PROVE  q \in Known
<1>1. /\ runs[q].created \in Nat /\ scan.cover \in Int /\ listed \in Nat
  BY RunTypes
<1>2. ASSUME runs[q].created >= scan.cover PROVE q \in Known
  <2>1. runs[q].created > scan.cover \/ runs[q].created = scan.cover
    BY <1>1, <1>2
  <2>2. scan.cut => ~SameTick
    BY DEF CoverInv, CutsApart
  <2>3. q \in RunsOf(scan.read)
    BY <2>1, <2>2 DEF CoverInv
  <2> QED
    BY <2>3 DEF Known, RunsOf
<1>3. CASE scan.contiguous
  <2>1. listed # 0 /\ scan.cover <= listed
    BY <1>3 DEF BasicInv, ScanInv
  <2>2. CASE runs[q].created < listed
    BY <2>1, <2>2 DEF StreakInv, SinceKnown
  <2>3. CASE runs[q].created >= listed
    BY <1>1, <1>2, <2>1, <2>3
  <2> QED
    BY <1>1, <2>2, <2>3
<1>4. CASE ~scan.contiguous
  <2>1. verdict.created >= scan.cover
    BY <1>4 DEF Reaches, StreakInv
  <2>2. verdict.created <= runs[q].created /\ verdict.created \in Nat
    BY VerdictRun, EarlierIds
  <2> QED
    BY <1>1, <1>2, <2>1, <2>2
<1> QED
  BY <1>3, <1>4

(* A run judged after the verdict's follows its streak. *)
LEMMA StreakFollowed ==
  ASSUME CutsApart, BasicInv, CoverInv, StreakInv, verdict # NoVerdict,
         scan.stage = "applying", scan.read # {}, Reaches,
         NEW r \in Created \ PullRequests, verdict.id < r
  PROVE  Started(verdict.streak, r)
<1> DEFINE v == verdict.id
           b == verdict.base
<1>1. /\ v \in Created \ PullRequests /\ v \in Nat /\ r \in Nat
      /\ verdict.created = runs[v].created /\ verdict.created \in Nat
      /\ verdict.state \in States /\ b \in Streak \cup {Unlisted}
      /\ verdict.streak = NextStreak(b, verdict.state, verdict.created)
      /\ Said(v, verdict.state) /\ Started(b, v)
  BY VerdictRun, RunTypes DEF StreakInv
<1>2. \A q \in Between(v, r) : q \in Known
  BY ReachedKnown DEF Between
<1>3. v \in Known
  BY <1>1 DEF Known, Said, RunsOf
<1> HIDE DEF v, b
<1>4. CASE verdict.state = "passing"
  <2>1. verdict.streak = NoStreak /\ NoStreak.count = 0
    BY <1>1, <1>4 DEF NextStreak, NoStreak
  <2>2. 0 <= Cardinality(Failing(v, r))
    <3>1. Failing(v, r) \subseteq Created /\ IsFiniteSet(Created)
      BY DEF Failing, Between, BasicInv, OrderInv
    <3>2. IsFiniteSet(Failing(v, r))
      BY <3>1, FS_Subset
    <3>3. Cardinality(Failing(v, r)) \in Nat
      BY <3>2, FS_CardinalityType
    <3> QED
      BY <3>3
  <2>3. v < r /\ Said(v, "passing") /\ Between(v, r) \subseteq Known
    BY <1>1, <1>2, <1>4 DEF v
  <2> QED
    BY <1>1, <2>1, <2>2, <2>3 DEF Started
<1>5. CASE verdict.state = "failing"
  <2>1. SUFFICES ASSUME verdict.streak # Unlisted, ~verdict.streak.clipped
                 PROVE  \E p \in Created \ PullRequests :
                          /\ p < r
                          /\ Said(p, "passing")
                          /\ verdict.streak.count > 0 => runs[p].created <= verdict.streak.since
                          /\ Between(p, r) \subseteq Known
                          /\ verdict.streak.count <= Cardinality(Failing(p, r))
    BY DEF Started
  <2>2. /\ b # Unlisted /\ b \in Streak /\ b.count \in Nat /\ ~b.clipped
        /\ verdict.streak.count = b.count + 1
        /\ b.count > 0 => verdict.streak.since = b.since
        /\ b.count = 0 => verdict.streak.since = verdict.created
    <3>1. b # Unlisted
      BY <1>1, <1>5, <2>1 DEF NextStreak
    <3>2. b \in Streak /\ b.count \in Nat
      BY <1>1, <3>1 DEF Streak, NoStreak
    <3>3. CASE b.count > 0
      <4>1. verdict.streak = [count |-> b.count + 1, since |-> b.since, clipped |-> b.clipped]
        BY <1>1, <1>5, <3>1, <3>3 DEF NextStreak
      <4> QED
        BY <2>1, <3>1, <3>2, <3>3, <4>1
    <3>4. CASE b.count = 0
      <4>1. verdict.streak = [count |-> 1, since |-> verdict.created, clipped |-> FALSE]
        BY <1>1, <1>5, <3>1, <3>4 DEF NextStreak
      <4>2. b = NoStreak
        BY <3>2, <3>4 DEF Streak
      <4>3. ~b.clipped
        BY <4>2 DEF NoStreak
      <4> QED
        BY <3>1, <3>2, <3>4, <4>1, <4>3
    <3> QED
      BY <3>2, <3>3, <3>4
  <2>3. PICK p \in Created \ PullRequests :
          /\ p < v
          /\ Said(p, "passing")
          /\ b.count > 0 => runs[p].created <= b.since
          /\ Between(p, v) \subseteq Known
          /\ b.count <= Cardinality(Failing(p, v))
    BY <1>1, <2>2 DEF Started
  <2>4. p \in Nat /\ p < r /\ v < r
    <3>1. p \in Nat /\ v < r
      BY RunTypes DEF v
    <3> QED
      BY <1>1, <2>3, <3>1
  <2>5. runs[p].created <= verdict.streak.since
    <3>1. runs[p].created <= runs[v].created
      BY <1>1, <2>3, EarlierIds
    <3> QED
      BY <1>1, <2>2, <2>3, <3>1
  <2>6. Between(p, r) \subseteq Known
    <3> SUFFICES ASSUME NEW q \in Between(p, r) PROVE q \in Known
      OBVIOUS
    <3>1. q \in Created \ PullRequests /\ q \in Nat /\ p < q /\ q < r
      BY RunTypes DEF Between
    <3>2. q < v \/ q = v \/ v < q
      BY <1>1, <3>1
    <3>3. q < v => q \in Between(p, v)
      BY <3>1 DEF Between
    <3>4. v < q => q \in Between(v, r)
      BY <3>1 DEF Between
    <3> QED
      BY <1>2, <1>3, <2>3, <3>2, <3>3, <3>4
  <2>7. Failing(p, v) \cup {v} \subseteq Failing(p, r)
    <3>1. v \in Failing(p, r)
      BY <1>1, <1>5, <2>3, <2>4 DEF Failing, Between
    <3>2. ASSUME NEW q \in Failing(p, v) PROVE q \in Failing(p, r)
      <4>1. q \in Created \ PullRequests /\ p < q /\ q < v /\ Said(q, "failing") /\ q \in Nat
        BY RunTypes DEF Failing, Between
      <4>2. q < r
        BY <1>1, <2>4, <4>1
      <4> QED
        BY <4>1, <4>2 DEF Failing, Between
    <3> QED
      BY <3>1, <3>2
  <2>8. /\ Cardinality(Failing(p, v)) \in Nat /\ Cardinality(Failing(p, r)) \in Nat
        /\ Cardinality(Failing(p, v)) + 1 <= Cardinality(Failing(p, r))
    <3>1. Failing(p, r) \subseteq Created
      BY DEF Failing, Between
    <3> QED
      BY <1>1, <2>4, <2>7, <3>1, OneMore
  <2>9. verdict.streak.count <= Cardinality(Failing(p, r))
    BY <2>2, <2>3, <2>8
  <2> QED
    BY <2>3, <2>4, <2>5, <2>6, <2>9
<1> QED
  BY <1>1, <1>4, <1>5 DEF States

(* A row judged. *)
LEMMA StreakJudged ==
  ASSUME CutsApart, BasicInv, BasicInv', CoverInv, StreakInv,
         NEW r \in Ids, NEW n \in 1..MaxFinishes, Rows(r, n), Fresh(r, n), Judged(r, n)
  PROVE  StreakInv'
<1> DEFINE run == [id |-> r, created |-> runs[r].created, state |-> runs[r].results[n]]
<1>0. Steps
  BY DEF Steps
<1>1. /\ scan'.stage = "applying" /\ scan'.cover = scan.cover /\ scan'.read = scan.read
      /\ <<r, n>> \in scan.read /\ n \in 1..Len(runs[r].results) /\ r \in Created
      /\ scan.stage = "applying"
  BY RowScan
<1>2. verdict' = Judge(verdict, run, Reaches) /\ Moves(verdict, run) /\ r \notin PullRequests
      /\ UNCHANGED <<runs, now, listed, seen, reported, first>>
  BY DEF Rows, Judged, forgeVars, historyVars
<1>3. /\ verdict'.id = r /\ verdict'.created = runs[r].created
      /\ verdict'.state = runs[r].results[n] /\ verdict'.base = Base(verdict, run, Reaches)
  BY <1>2 DEF Judge
<1>4. Created' = Created
  BY <1>2 DEF Created
<1>5. Said(r, runs[r].results[n])'
  <2>1. <<r, n>>[1] = r /\ <<r, n>>[2] = n /\ n # 0 /\ <<r, n>> \in seen' \cup scan'.read
    BY <1>1
  <2> QED
    BY <1>2, <2>1 DEF Said
<1>6. runs[r].created >= scan.cover
  <2>1. <<r, n>>[1] = r
    OBVIOUS
  <2> QED
    BY <1>1, <2>1 DEF BasicInv, ScanInv
<1>7. Known' = Known
  BY <1>1, <1>2, <1>4 DEF Known, RunsOf
<1>8. ASSUME NEW q \in Created, r < q PROVE q \in Known
  <2>1. /\ runs[r].created <= runs[q].created /\ runs[q].created \in Nat /\ runs[r].created \in Nat
        /\ scan.cover \in Int
    BY <1>1, <1>8, EarlierIds, RunTypes
  <2>2. runs[q].created > scan.cover \/ runs[q].created = scan.cover
    BY <1>6, <2>1
  <2>3. scan.cut => ~SameTick
    BY <1>1 DEF CoverInv, CutsApart
  <2>4. q \in RunsOf(scan.read)
    BY <1>1, <2>2, <2>3 DEF CoverInv
  <2> QED
    BY <2>4 DEF Known, RunsOf
<1>9. Started(Base(verdict, run, Reaches), r)
  <2>1. CASE Base(verdict, run, Reaches) = Unlisted
    BY <2>1 DEF Started
  <2>2. CASE verdict # NoVerdict /\ verdict.id = r
    BY <2>2 DEF Base, StreakInv
  <2>3. CASE verdict # NoVerdict /\ verdict.id # r /\ Reaches
    <3>1. Base(verdict, run, Reaches) = verdict.streak
      BY <2>3 DEF Base
    <3>2. Earlier(verdict.id, r)
      BY <1>2, <2>3, VerdictRun DEF Moves, Precedes, Earlier
    <3>3. verdict.id < r
      BY <1>1, <2>3, <3>2, VerdictRun, EarlierIds
    <3>4. scan.read # {}
      BY <1>1
    <3> QED
      BY <1>1, <1>2, <2>3, <3>1, <3>3, <3>4, StreakFollowed
  <2> QED
    BY <2>1, <2>2, <2>3 DEF Base
<1>10. PICK b : b = Base(verdict, run, Reaches)
  OBVIOUS
<1>11. Started(b, r)'
  <2>1. /\ \A s : Said(r, s)' <=> Said(r, s)
        /\ \A p, s : Said(p, s)' <=> Said(p, s)
    BY <1>1, <1>2 DEF Said
  <2>2. \A p : Between(p, r)' = Between(p, r)
    BY <1>4 DEF Between
  <2>3. \A p : Failing(p, r)' = Failing(p, r)
    BY <2>1, <2>2 DEF Failing
  <2>4. Started(b, r)
    BY <1>9, <1>10
  <2> QED
    BY <1>2, <1>4, <1>7, <2>1, <2>2, <2>3, <2>4 DEF Started
<1>12. /\ Said(verdict.id, verdict.state)'
       /\ Started(verdict.base, verdict.id)'
  <2>1. verdict'.base = b
    BY <1>3, <1>10
  <2> HIDE DEF run
  <2> QED
    BY <1>2, <1>3, <1>5, <1>11, <2>1
<1>13. SinceKnown'
  BY <1>2, <1>3, <1>4, <1>7, <1>8 DEF SinceKnown
<1>14. scan'.judged => verdict'.created >= scan'.cover
  BY <1>1, <1>3, <1>6
<1> QED
  BY <1>1, <1>12, <1>13, <1>14 DEF StreakInv

LEMMA StreakStep ==
  ASSUME CutsApart, BasicInv, BasicInv', CoverInv, StreakInv, Steps PROVE StreakInv'
<1>0. /\ Start \in Nat /\ Start' \in Nat /\ Start <= Start'
  BY StartAdvances
<1>1. CASE Lists
  BY <1>1, StreakLists
<1>2. ASSUME NEW r \in Ids, NEW n \in 1..MaxFinishes, Rows(r, n) PROVE StreakInv'
  <2>1. CASE Fresh(r, n) /\ Judged(r, n)
    BY <1>2, <2>1, StreakJudged
  <2>2. CASE ~(Fresh(r, n) /\ Judged(r, n))
    <3>1. /\ verdict' = verdict /\ scan'.stage = "applying" /\ scan.stage = "applying"
          /\ scan'.judged => scan.judged
          /\ scan'.cover = scan.cover /\ scan'.read = scan.read
          /\ UNCHANGED <<runs, listed, seen, reported, first>>
      BY <1>2, <2>2, RowScan DEF Rows, forgeVars, historyVars
    <3>2. Created' = Created
      BY <3>1 DEF Created
    <3>3. Known' = Known
      BY <3>1, <3>2 DEF Known, RunsOf
    <3>4. verdict # NoVerdict =>
            Said(verdict.id, verdict.state)' /\ Started(verdict.base, verdict.id)'
      BY <3>1, <3>3, VerdictKept
    <3>5. verdict # NoVerdict => SinceKnown'
      BY <3>1, <3>2, <3>3 DEF StreakInv, SinceKnown
    <3>6. verdict # NoVerdict => (scan.judged => verdict.created >= scan.cover)
      BY DEF StreakInv
    <3> QED
      BY <3>1, <3>4, <3>5, <3>6 DEF StreakInv
  <2> QED
    BY <2>1, <2>2
<1>3. CASE Grows \/ Begins \/ Ends \/ Drops \/ UNCHANGED vars
  <2>1. SUFFICES ASSUME verdict' # NoVerdict PROVE StreakInv'
    BY DEF StreakInv
  <2>2. /\ verdict' = verdict /\ verdict # NoVerdict /\ listed' \in {listed, 0}
    <3>1. CASE Grows \/ Begins \/ Drops \/ UNCHANGED vars
      BY <3>1, <2>1 DEF Grows, Begins, Drops, vars, storeVars
    <3>2. CASE Ends
      BY <3>2, <2>1 DEF Ends
    <3> QED
      BY <1>3, <3>1, <3>2
  <2>3. ~Lists
    <3>1. Lists => scan'.stage = "applying" /\ scan.stage = "reading"
      BY DEF Lists
    <3>2. CASE Grows \/ UNCHANGED vars
      BY <3>1, <3>2 DEF Grows, vars
    <3>3. CASE Begins \/ Ends \/ Drops
      BY <3>1, <3>3, NothingRead DEF Begins, Ends, Drops
    <3> QED
      BY <1>3, <3>2, <3>3
  <2>4. Known \subseteq Known'
    BY <2>3, KnownStays
  <2>5. Said(verdict.id, verdict.state)' /\ Started(verdict.base, verdict.id)'
    BY <2>2, <2>4, VerdictKept
  <2>6. verdict.id \in Nat /\ verdict.created \in Nat /\ verdict.created = runs[verdict.id].created
        /\ verdict.id \in Ids
    BY <2>2, VerdictRun DEF Created
  <2>7. verdict.created <= Start' \/ scan'.stage = "applying"
    <3>1. CASE Ends
      <4>1. Start' = now
        BY <3>1, NothingRead DEF Ends, Start, forgeVars
      <4>2. runs[verdict.id].created <= now
        BY <2>6, RunTypes
      <4> QED
        BY <2>6, <4>1, <4>2
    <3>2. CASE Grows \/ Begins \/ Drops
      <4>1. scan.stage # "applying"
        BY <3>2 DEF Grows, Begins, Drops
      <4>2. verdict.created <= Start
        BY <2>2, <4>1 DEF StreakInv
      <4> QED
        BY <2>6, <4>2, <1>0
    <3>3. CASE UNCHANGED vars
      <4>1. Start' = Start /\ scan' = scan
        BY <3>3 DEF vars, forgeVars, Start
      <4> QED
        BY <2>2, <4>1 DEF StreakInv
    <3> QED
      BY <1>3, <3>1, <3>2, <3>3
  <2>8. scan'.judged => verdict.created >= scan'.cover
    <3>1. CASE Grows \/ UNCHANGED vars
      <4>1. scan' = scan
        BY <3>1 DEF Grows, vars
      <4> QED
        BY <2>2, <4>1 DEF StreakInv
    <3>2. CASE Begins \/ Ends \/ Drops
      BY <3>2, NothingRead DEF Begins, Ends, Drops
    <3> QED
      BY <1>3, <3>1, <3>2
  <2>9. SinceKnown'
    <3> SUFFICES ASSUME listed' # 0, NEW q \in Created' \ PullRequests,
                        verdict.id < q, runs'[q].created < listed'
                 PROVE  q \in Known'
      BY <2>2 DEF SinceKnown
    <3>1. listed' = listed /\ listed # 0
      BY <2>2
    <3>2. CASE q \in Created
      <4>1. runs'[q].created = runs[q].created
        BY <3>2, RunsStay
      <4>2. q \in Known
        BY <2>2, <3>1, <3>2, <4>1 DEF StreakInv, SinceKnown
      <4> QED
        BY <2>4, <4>2
    <3>3. CASE q \notin Created
      <4>1. Grows
        <5>1. SUFFICES ASSUME ~Grows PROVE FALSE
          OBVIOUS
        <5>2. runs' = runs
          BY <5>1 DEF Steps, Begins, Lists, Rows, Ends, Drops, vars, forgeVars
        <5> QED
          BY <5>2, <3>3 DEF Created
      <4>2. runs'[q].created = now' /\ now <= now' /\ now' \in Nat /\ now \in Nat
        BY <3>3, <4>1, RunTypes, TimesAssumption DEF Grows
      <4>3. listed <= now /\ listed \in Nat
        <5>1. listed <= Start /\ Start <= now /\ scan.start \in Nat /\ now \in Nat /\ listed \in Nat
          BY RunTypes DEF BasicInv, ScanInv, Start
        <5> QED
          BY <5>1, <1>0
      <4> QED
        BY <3>1, <4>2, <4>3
    <3> QED
      BY <3>2, <3>3
  <2> QED
    BY <2>2, <2>5, <2>7, <2>8, <2>9 DEF StreakInv
<1> QED
  BY <1>1, <1>2, <1>3 DEF Steps

(* A failure streak shown without failing_since_clipped skips no run but those
   of logged gaps and those older than the first listing, and counts no failing
   run twice, however many scans, failed, cut short or late, brought its runs.
   Runs of one second on both sides of a cut are out of it. *)
THEOREM StreakSkipsOnlyGaps ==
  ASSUME SameTick => ~MayCut PROVE Spec => []UnclippedStreakSkipsOnlyGaps
<1> DEFINE Inv == BasicInv /\ CoverInv /\ StreakInv
<1>1. Init => Inv
  <2>1. Init => StreakInv
    BY DEF Init, StreakInv
  <2> QED
    BY <2>1, BasicInit, CoverInit
<1>2. Inv /\ [Next]_vars => Inv'
  BY BasicStep, CoverStep, StreakStep DEF CutsApart
<1>3. Inv => UnclippedStreakSkipsOnlyGaps
  <2> SUFFICES ASSUME Inv, scan.stage = "idle", verdict # NoVerdict,
                      verdict.streak.count > 0, ~verdict.streak.clipped
               PROVE  \E p \in Created \ PullRequests :
                        StreakFollows(p, reported \cup {r \in Created : runs[r].created < first})
    BY DEF UnclippedStreakSkipsOnlyGaps, Unclipped
  <2> DEFINE v == verdict.id
             b == verdict.base
  <2>1. /\ v \in Created \ PullRequests /\ v \in Nat /\ verdict.created = runs[v].created
        /\ verdict.created \in Nat /\ verdict.state \in States /\ b \in Streak \cup {Unlisted}
        /\ verdict.streak = NextStreak(b, verdict.state, verdict.created)
        /\ Said(v, verdict.state) /\ Started(b, v)
    BY VerdictRun DEF StreakInv
  <2> HIDE DEF v, b
  <2>2. verdict.state = "failing" /\ b # Unlisted
    BY <2>1 DEF NextStreak, NoStreak, States
  <2>3. /\ b \in Streak /\ b.count \in Nat /\ ~b.clipped
        /\ verdict.streak.count = b.count + 1
        /\ b.count > 0 => verdict.streak.since = b.since
        /\ b.count = 0 => verdict.streak.since = verdict.created
    <3>1. b \in Streak /\ b.count \in Nat
      BY <2>1, <2>2 DEF Streak, NoStreak
    <3>2. CASE b.count > 0
      <4>1. verdict.streak = [count |-> b.count + 1, since |-> b.since, clipped |-> b.clipped]
        BY <2>1, <2>2, <3>2 DEF NextStreak
      <4> QED
        BY <3>1, <3>2, <4>1
    <3>3. CASE b.count = 0
      <4>1. verdict.streak = [count |-> 1, since |-> verdict.created, clipped |-> FALSE]
        BY <2>1, <2>2, <3>3 DEF NextStreak
      <4>2. b = NoStreak
        BY <3>1, <3>3 DEF Streak
      <4>3. ~b.clipped
        BY <4>2 DEF NoStreak
      <4> QED
        BY <3>1, <3>3, <4>1, <4>3
    <3> QED
      BY <3>1, <3>2, <3>3
  <2>4. PICK p \in Created \ PullRequests :
          /\ p < v
          /\ Said(p, "passing")
          /\ b.count > 0 => runs[p].created <= b.since
          /\ Between(p, v) \subseteq Known
          /\ b.count <= Cardinality(Failing(p, v))
    BY <2>1, <2>2, <2>3 DEF Started
  <2>5. scan.read = {}
    BY DEF BasicInv, ScanInv
  <2>6. ASSUME NEW q, NEW s, Said(q, s) PROVE Told(q, s) /\ q \in Returned
    <3>1. PICK x \in seen : x[1] = q /\ x[2] # 0 /\ runs[q].results[x[2]] = s
      BY <2>5, <2>6 DEF Said
    <3>2. x[2] \in 0..MaxFinishes /\ x = <<x[1], x[2]>>
      <4>1. x \in Readings
        BY DEF BasicInv, TypeOK
      <4> QED
        BY <4>1 DEF Readings
    <3>3. x[2] \in 1..MaxFinishes /\ <<q, x[2]>> \in seen
      BY <3>1, <3>2, TimesAssumption
    <3> QED
      BY <3>1, <3>3 DEF Told, Returned
  <2>7. Earlier(p, v)
    BY <2>1, <2>4, EarlierIds
  <2>8. runs[p].created <= verdict.streak.since
    <3>1. runs[p].created <= runs[v].created
      BY <2>1, <2>4, EarlierIds
    <3> QED
      BY <2>1, <2>3, <2>4, <3>1
  <2>9. After(p) = Between(p, v) \cup {v}
    <3>1. ASSUME NEW q \in Created \ PullRequests
          PROVE  q \in After(p) <=> q \in Between(p, v) \cup {v}
      <4>1. Earlier(p, q) <=> p < q
        BY EarlierIds
      <4>2. Earlier(q, v) <=> q < v
        BY <2>1, EarlierIds
      <4>3. q \in After(p) <=> Earlier(p, q) /\ (q = v \/ Earlier(q, v))
        BY DEF After, v
      <4> QED
        BY <2>4, <4>1, <4>2, <4>3 DEF Between
    <3>2. After(p) \subseteq Created \ PullRequests
      BY DEF After
    <3>3. Between(p, v) \cup {v} \subseteq Created \ PullRequests
      BY <2>1 DEF Between
    <3> QED
      BY <3>1, <3>2, <3>3
  <2>10. After(p) \subseteq Returned \cup (reported \cup {r \in Created : runs[r].created < first})
    <3>1. v \in Returned
      BY <2>1, <2>6
    <3>2. RunsOf(seen \cup scan.read) = Returned
      BY <2>5 DEF RunsOf, Returned
    <3>3. Known \subseteq Returned \cup (reported \cup {r \in Created : runs[r].created < first})
      BY <3>2 DEF Known
    <3> QED
      BY <2>4, <2>9, <3>1, <3>3
  <2>11. verdict.streak.count <= Cardinality({r \in After(p) : Told(r, "failing")})
    <3> DEFINE T == {r \in After(p) : Told(r, "failing")}
    <3>1. Failing(p, v) \cup {v} \subseteq T
      <4>1. v \in T
        BY <2>1, <2>2, <2>6, <2>9
      <4>2. Failing(p, v) \subseteq T
        BY <2>6, <2>9 DEF Failing
      <4> QED
        BY <4>1, <4>2
    <3>2. T \subseteq Created
      BY DEF After
    <3>3. p \in Nat
      BY RunTypes
    <3> HIDE DEF T
    <3>4. /\ Cardinality(Failing(p, v)) \in Nat /\ Cardinality(T) \in Nat
          /\ Cardinality(Failing(p, v)) + 1 <= Cardinality(T)
      BY <2>1, <3>1, <3>2, <3>3, OneMore
    <3>5. verdict.streak.count <= Cardinality(T)
      BY <2>3, <2>4, <3>4
    <3> QED
      BY <3>5 DEF T
  <2>12. StreakFollows(p, reported \cup {r \in Created : runs[r].created < first})
    <3>1. Told(p, "passing")
      BY <2>4, <2>6
    <3>2. Earlier(p, verdict.id)
      BY <2>7 DEF v
    <3> QED
      BY <2>8, <2>10, <2>11, <3>1, <3>2 DEF StreakFollows
  <2> QED
    BY <2>12
<1> HIDE DEF Inv
<1> QED
  BY <1>1, <1>2, <1>3, PTL DEF Spec
=============================================================================
