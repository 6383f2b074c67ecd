------------------------------ MODULE Metering ------------------------------
(***************************************************************************)
(* The requests of one connection over many scans, and the two meters they *)
(* pass: the quota meter (Quota) and the spend meter with its request book *)
(* (Spend).  internal/forgeconn, internal/githubrest, internal/collect and *)
(* the opener of main.go put them together: a reopened connection gets a   *)
(* new quota meter and keeps its spend meter; forgeapi's attempts are      *)
(* counted beneath its retries and judged above them, and its reads are    *)
(* admitted page by page; the REST client's attempts are admitted, counted *)
(* and judged one by one.                                                  *)
(*                                                                         *)
(* An answer is made in one step (Answer) and seen in a later one, so its  *)
(* window may renew on the way.  The REST window is the account's: its     *)
(* other clients draw on it at any moment (OthersDraw).                    *)
(***************************************************************************)
EXTENDS Quota, Spend

CONSTANTS
    MaxSent     \* bound: the attempts the connection sends

ASSUME MaxSentAssumption == MaxSent \in Nat

Reads == {"discovery", "security"}   \* two of the read phases
Phases == {"open"} \cup Reads
Clients == {"forgeapi", "rest"}
NoCall == [client |-> "none"]
Unsent == [outcome |-> "unsent"]

VARIABLES
    phase,      \* the phase under way, or "idle" between scans
    stage,      \* the connection: "closed", "opening", "named" or "open"
    quota,      \* its quota meter
    spend,      \* its spend meter
    book,       \* the scan's request book
    call,       \* the request under way, and its answer when there is one
    forge,      \* the product at its url, what is left of its REST window, and
                \* what others drew of it since GitHub last told this connection
    truth       \* history: what was really sent and billed, see NoTruth

vars == <<phase, stage, quota, spend, book, call, forge, truth>>

(* Of the requests answered so far: those the forge billed, those counted   *)
(* that it did not, and of these the ones of the open under way; what was   *)
(* sent and billed in each phase of the scan; and whether GitHub refused    *)
(* one of its reads.                                                        *)
NoTruth == [owed |-> 0, guessed |-> 0, mine |-> 0, heard |-> FALSE,
            sent |-> [p \in Phases |-> 0], rest |-> [p \in Phases |-> 0]]

GitHub == forge.product = "github"

Init ==
    /\ phase = "idle" /\ stage = "closed"
    /\ quota = NewMeter
    /\ spend = NewSpend
    /\ book = NewBook(NewSpend, Phases)
    /\ call = NoCall
    /\ forge \in [product : {"github", "other"}, left : 0..Limit, drawn : {0}]
    /\ truth = NoTruth

-----------------------------------------------------------------------------
(* scanConn: a new book.                                                    *)
StartScan ==
    /\ phase = "idle"
    /\ phase' = "open"
    /\ book' = NewBook(spend, Phases)
    /\ truth' = [NoTruth EXCEPT !.owed = truth.owed, !.guessed = truth.guessed]
    /\ UNCHANGED <<stage, quota, spend, call, forge>>

(* opener and Open: a new quota meter, and the spend meter told.            *)
StartOpen ==
    /\ phase = "open" /\ stage = "closed"
    /\ stage' = "opening"
    /\ quota' = NewMeter
    /\ spend' = Detect(spend)
    /\ truth' = [truth EXCEPT !.mine = 0]
    /\ UNCHANGED <<phase, book, call, forge>>

(* newClient: the instance names its product.                               *)
NameProduct ==
    /\ stage = "opening" /\ call = NoCall
    /\ stage' = "named"
    /\ quota' = IF GitHub THEN Arm(quota) ELSE quota
    /\ spend' = Name(spend, forge.product)
    /\ truth' = [truth EXCEPT !.mine = 0, !.guessed = @ - truth.mine]
    /\ UNCHANGED <<phase, book, call, forge>>

Opened ==
    /\ stage = "named" /\ call = NoCall
    /\ stage' = "open"
    /\ UNCHANGED <<phase, quota, spend, book, call, forge, truth>>

Charged == book' = Charge(book, spend, phase)

(* An open that fails, or sharedAccount: the connection closes and its part *)
(* of the scan is over.                                                     *)
Fails ==
    /\ phase = "open" /\ stage # "closed" /\ call = NoCall
    /\ stage' = "closed"
    /\ phase' = "idle"
    /\ Charged
    /\ UNCHANGED <<quota, spend, call, forge, truth>>

(* readConn: the breaker is reset once the connection is open, by the REST  *)
(* client only GitHub has.                                                  *)
BeginReads ==
    /\ phase = "open" /\ stage = "open" /\ call = NoCall
    /\ quota' = IF GitHub THEN BeginScan(quota) ELSE quota
    /\ Charged
    /\ phase' = "discovery"
    /\ UNCHANGED <<stage, spend, call, forge, truth>>

(* enter: readGitHub goes back and forth, repository by repository.         *)
Enter(p) ==
    /\ phase \in Reads /\ call = NoCall
    /\ Charged
    /\ phase' = p
    /\ UNCHANGED <<stage, quota, spend, call, forge, truth>>

(* The reads are over, or stop.                                             *)
EndScan ==
    /\ phase \in Reads /\ call = NoCall
    /\ Charged
    /\ phase' = "idle"
    /\ UNCHANGED <<stage, quota, spend, call, forge, truth>>

-----------------------------------------------------------------------------
(* Fault: a walk that sends its pages unasked. *)
AskUnadmitted(client, pool) ==
    /\ call = NoCall /\ spend.spent.sent < MaxSent
    /\ \/ client = "forgeapi" /\ stage \in {"opening", "named"}
       \/ client = "forgeapi" /\ phase \in Reads
       \/ client = "rest" /\ phase \in Reads /\ GitHub /\ pool = "core"
    /\ call' = [client |-> client, pool |-> pool, answer |-> Unsent]
    /\ UNCHANGED <<phase, stage, quota, spend, book, forge, truth>>

(* A request: forgeapi's while it opens, unasked, and then its reads, which *)
(* the meter admits on GitHub; or the REST client's, admitted attempt by    *)
(* attempt.                                                                 *)
Ask(client, pool) ==
    /\ call = NoCall /\ spend.spent.sent < MaxSent
    /\ \/ client = "forgeapi" /\ stage \in {"opening", "named"}
       \/ client = "forgeapi" /\ phase \in Reads /\ (GitHub => Admit(quota))
       \/ client = "rest" /\ phase \in Reads /\ GitHub /\ pool = "core"
    /\ call' = [client |-> client, pool |-> pool, answer |-> Unsent]
    /\ UNCHANGED <<phase, stage, quota, spend, book, forge, truth>>

(* External: how the forge answers an attempt, and the REST requests it     *)
(* then has left.  GitHub reports the count of the pool on most answers;    *)
(* its web host, asked before the product is known, on none; and any        *)
(* attempt may get no answer, whether or not it was counted.                *)
Answered(pool) ==
    LET says(o, n, b) == [a |-> [outcome |-> o, pool |-> pool, budget |-> [left |-> b, lapsed |-> FALSE]], n |-> n]
        left == forge.left
        spent == IF pool = "core" /\ left > 0 THEN left - 1 ELSE left
        count(n) == IF ~GitHub THEN None ELSE IF pool = "core" THEN n ELSE Limit
    IN  {says("unanswered", n, None) : n \in {left, spent}}
        \cup IF GitHub /\ pool = "core" /\ left = 0
             THEN {says("throttled", 0, 0)}
             ELSE {says("ok", spent, count(spent)), says("failed", spent, None)}
                  \cup (IF pool = "core" THEN {says("unchanged", left, count(left))} ELSE {})
                  \cup IF ~GitHub THEN {}
                       ELSE {says("forbidden", spent, count(spent)), says("throttled", spent, count(spent))}
        \cup IF GitHub /\ stage = "opening" /\ pool = "core" THEN {says("absent", left, None)} ELSE {}

ReportsRest(a) == a.pool = "core" /\ Known(a.budget.left)

(* An attempt goes out and is answered.                                     *)
Answer(client) ==
    /\ call # NoCall /\ call.client = client /\ call.answer = Unsent
    /\ client = "rest" => Admit(quota)
    /\ \E r \in Answered(call.pool) :
        /\ call' = [call EXCEPT !.answer = r.a]
        /\ forge' = [forge EXCEPT !.left = r.n, !.drawn = IF ReportsRest(r.a) THEN 0 ELSE @]
    /\ UNCHANGED <<phase, stage, quota, spend, book, truth>>

(* An attempt the meter does not admit: the request fails unsent.           *)
Held ==
    /\ call # NoCall /\ call.client = "rest" /\ call.answer = Unsent
    /\ ~Admit(quota)
    /\ call' = NoCall
    /\ UNCHANGED <<phase, stage, quota, spend, book, forge, truth>>

(* What an answer is to the forge.                                          *)
Bills(a) ==
    /\ a.pool = "core"
    /\ a.outcome \notin (IF GitHub THEN {"unanswered", "unchanged", "absent"} ELSE {"unanswered"})
    /\ GitHub /\ stage = "opening" => Known(a.budget.left)

Noted(a, final) ==
    LET one(b) == IF b THEN 1 ELSE 0
        guess == one(stage = "opening" /\ a.pool = "core" /\ a.outcome # "unanswered" /\ ~Bills(a))
    IN  truth' = [truth EXCEPT
            !.owed = @ + one(Bills(a)), !.guessed = @ + guess, !.mine = @ + guess,
            !.heard = @ \/ (final /\ phase \in Reads /\ Refuses(a)),
            !.sent[phase] = @ + 1, !.rest[phase] = @ + one(Bills(a))]

(* The observers of an attempt: the spend meter is the inner one.  The REST *)
(* client's judges each attempt, forgeapi's the last alone.                 *)
Sees(a, final) ==
    LET counted == SeeAttempt(quota, a)
    IN  /\ spend' = See(spend, a, Known(a.budget.left))
        /\ quota' = IF final \/ call.client = "rest" THEN SeeFinal(counted, a) ELSE counted
        /\ Noted(a, final)

(* The retries of forgeapi, and those of the REST client, which repeats     *)
(* only what is transient.                                                  *)
Retry ==
    /\ call # NoCall /\ call.answer # Unsent /\ spend.spent.sent + 1 < MaxSent
    /\ call.answer.outcome \in
        IF call.client = "rest" THEN {"failed", "unanswered"}
        ELSE {"failed", "unanswered", "throttled", "forbidden"}
    /\ Sees(call.answer, FALSE)
    /\ call' = [call EXCEPT !.answer = Unsent]
    /\ UNCHANGED <<phase, stage, book, forge>>

Return ==
    /\ call # NoCall /\ call.answer # Unsent
    /\ Sees(call.answer, TRUE)
    /\ call' = NoCall
    /\ UNCHANGED <<phase, stage, book, forge>>

(* External: the account's other clients send requests of their own.        *)
OthersDraw ==
    /\ GitHub /\ forge.left > 0
    /\ forge' = [forge EXCEPT !.left = @ - 1, !.drawn = @ + 1]
    /\ UNCHANGED <<phase, stage, quota, spend, book, call, truth>>

(* External: the REST window renews, and every count reported in it lapses. *)
Renew ==
    /\ GitHub
    /\ forge' = [forge EXCEPT !.left = Limit, !.drawn = 0]
    /\ quota' = [quota EXCEPT !.pools["core"].lapsed = Known(quota.pools["core"].left)]
    /\ call' = IF call # NoCall /\ call.answer # Unsent /\ call.answer.pool = "core"
               THEN [call EXCEPT !.answer.budget.lapsed = Known(call.answer.budget.left)]
               ELSE call
    /\ UNCHANGED <<phase, stage, spend, book, truth>>

Next ==
    \/ StartScan \/ StartOpen \/ NameProduct \/ Opened \/ Fails
    \/ BeginReads \/ EndScan
    \/ \E p \in Reads : Enter(p)
    \/ \E client \in Clients, pool \in Pools : Ask(client, pool)
    \/ \E client \in Clients : Answer(client)
    \/ Held \/ Retry \/ Return \/ OthersDraw \/ Renew

Spec == Init /\ [][Next]_vars

(* Time passes: a window renews.                                            *)
FairSpec == Spec /\ WF_vars(Renew)

-----------------------------------------------------------------------------
(* Every variable has its type.                                             *)
TypeOK ==
    /\ phase \in Phases \cup {"idle"}
    /\ stage \in {"closed", "opening", "named", "open"}
    /\ quota \in Meters
    /\ spend \in [spent : Spends, product : Products, pending : Nat, pendingGitHub : Nat]
    /\ book \in [at : Spends, by : [Phases -> Spends]]
    /\ call \in {NoCall} \cup [client : Clients, pool : Pools, answer : {Unsent} \cup Answers]
    /\ forge \in [product : {"github", "other"}, left : 0..Limit, drawn : 0..Limit]
    /\ forge.left + forge.drawn <= Limit
    /\ phase \in Reads => stage = "open"
    /\ spend.pendingGitHub <= spend.pending
    /\ spend.product # "unknown" => spend.pending = 0

(* The count of the REST pool the meter holds is never more than GitHub     *)
(* would have left had only this connection drawn on it since GitHub last   *)
(* told it one, whichever answers reported none, came late or named another *)
(* pool: the connection accounts for all it sent itself, and is off by what *)
(* others drew at most.                                                     *)
NeverOverstated ==
    GitHub /\ (call = NoCall \/ call.answer = Unsent)
    => Pool(quota, "core") <= forge.left + forge.drawn

(* The breaker is the scan's own: it is tripped by a refusal of one of its  *)
(* reads, the last answer of a request, and by nothing an open or an        *)
(* earlier scan met.                                                        *)
BreakerIsTheScans == GitHub /\ phase \in Reads => (quota.refused <=> truth.heard)

(* Once GitHub has refused a read, no attempt of either client goes out     *)
(* until the next scan.                                                     *)
NoneSentAfterRefusal == [][
    call # NoCall /\ call' # NoCall /\ call.answer = Unsent /\ call'.answer # Unsent
    => ~(phase \in Reads /\ truth.heard)]_vars

(* A scan's line charges each phase the requests sent in it and those the   *)
(* forge billed, whatever an earlier open left unpriced; only the open's    *)
(* may hold more, where no product priced them.                             *)
LineCounts == phase = "idle" =>
    \A p \in Phases :
        /\ book.by[p].sent = truth.sent[p]
        /\ book.by[p].rest - truth.rest[p] \in 0..(IF p = "open" THEN truth.mine ELSE 0)

(* The counts of a connection implement Bill: never less than the forge     *)
(* billed, and what is taken back was a guess.                              *)
Counted == INSTANCE Bill WITH
    owed <- truth.owed, guessed <- truth.guessed, shown <- Spent(spend).rest
BillSpec == Counted!BillSpec

(* A stop at the reserve lifts: the window renews and the meter forgets the *)
(* count, with no request sent to learn the next.                           *)
ReserveLifts == Reserved(Pool(quota, "core")) ~> Admit([quota EXCEPT !.refused = FALSE])
=============================================================================
