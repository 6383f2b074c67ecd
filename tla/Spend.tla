------------------------------- MODULE Spend -------------------------------
(***************************************************************************)
(* What a connection's requests cost: the spend meter (internal/spend),    *)
(* which prices an answer by the rule of the product the connection turned *)
(* out to be, and the request book (internal/collect/requests.go), which   *)
(* splits what the meter counts over the phases of a scan.                 *)
(***************************************************************************)
EXTENDS Integers

Products == {"unknown", "github", "other"}
Spends == [sent : Int, rest : Int, docs : Int]
Zero == [sent |-> 0, rest |-> 0, docs |-> 0]

Minus(s, t) == [k \in DOMAIN s |-> s[k] - t[k]]
Plus(s, t) == [k \in DOMAIN s |-> s[k] + t[k]]

NewSpend == [spent |-> Zero, product |-> "unknown", pending |-> 0, pendingGitHub |-> 0]

(* Spent: what is not priced yet counts one each.                           *)
Spent(m) == [m.spent EXCEPT !.rest = @ + m.pending]

(* Fault: an open that forgets to settle the one before it. *)
DetectUnsettled(m) == [m EXCEPT !.product = "unknown"]

(* An open begins: an earlier one that named no product is priced at one    *)
(* each answer.                                                             *)
Detect(m) == [NewSpend EXCEPT !.spent = Spent(m)]

(* Fault: a price that leaves its answers pending. *)
NamePending(m, p) ==
    [m EXCEPT
        !.product = p,
        !.spent.rest = @ + IF p = "github" THEN m.pendingGitHub ELSE m.pending]

(* The product is known: it prices what is pending.                         *)
Name(m, p) ==
    [NewSpend EXCEPT
        !.product = p,
        !.spent = [m.spent EXCEPT !.rest =
            @ + IF p = "github" THEN m.pendingGitHub ELSE m.pending]]

(* GitHub bills every answer but a 304 to a conditional request.            *)
GitHubBills(a) == a.outcome # "unchanged"

(* see: one attempt, with its answer.  "reports" is whether the answer      *)
(* carries GitHub's count.                                                  *)
See(m, a, reports) ==
    LET s == [m.spent EXCEPT !.sent = @ + 1]
        one(b) == IF b THEN 1 ELSE 0
    IN  IF a.outcome = "unanswered" THEN [m EXCEPT !.spent = s]
        ELSE IF a.pool = "graphql" THEN [m EXCEPT !.spent = [s EXCEPT !.docs = @ + 1]]
        ELSE IF m.product = "unknown"
        THEN [m EXCEPT !.spent = s, !.pending = @ + 1,
                       !.pendingGitHub = @ + one(GitHubBills(a) /\ reports)]
        ELSE [m EXCEPT !.spent = [s EXCEPT !.rest =
                       @ + one(m.product # "github" \/ GitHubBills(a))]]

(* The book of one scan: where the meter stood at the last charge, and what *)
(* each phase was charged.                                                  *)
NewBook(m, phases) == [at |-> Spent(m), by |-> [p \in phases |-> Zero]]

(* Fault: a charge that does not move the mark. *)
ChargeAgain(b, m, phase) ==
    [b EXCEPT !.by[phase] = Plus(@, Minus(Spent(m), b.at))]

Charge(b, m, phase) ==
    [at |-> Spent(m),
     by |-> [b.by EXCEPT ![phase] = Plus(@, Minus(Spent(m), b.at))]]
=============================================================================
