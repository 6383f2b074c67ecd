------------------------------- MODULE Quota -------------------------------
(***************************************************************************)
(* The quota meter of a GitHub connection (internal/ghquota): the budget   *)
(* its responses report, pool by pool, and the breaker a refusal trips.    *)
(* A meter is a value; Metering puts it where the program does.            *)
(*                                                                         *)
(* A budget is the requests left and whether its window has renewed since: *)
(* "lapsed" is now at or past Reset, which GitHub reports with the count.  *)
(***************************************************************************)
EXTENDS Integers

CONSTANTS
    Limit,      \* the requests of a window
    Reserve     \* forge.ReadReserve

ASSUME ReserveAssumption == Limit \in Nat /\ Reserve \in 0..Limit

Pools == {"core", "graphql"}
None == -1                        \* a count no response reported
Counts == 0..Limit \cup {None}
Budgets == [left : Counts, lapsed : BOOLEAN]
Meters == [armed : BOOLEAN, refused : BOOLEAN, pools : [Pools -> Budgets]]

NewMeter ==
    [armed |-> FALSE, refused |-> FALSE,
     pools |-> [p \in Pools |-> [left |-> None, lapsed |-> FALSE]]]

Arm(q) == [q EXCEPT !.armed = TRUE]

(* Fault: a breaker no scan resets. *)
KeepRefusal(q) == q

BeginScan(q) == [q EXCEPT !.refused = FALSE]

(* Fault: a budget trusted after its window renewed. *)
PoolForEver(q, p) == q.pools[p].left

(* What is known to be left of pool p: nothing once its window renews.      *)
Pool(q, p) == IF q.pools[p].lapsed THEN None ELSE q.pools[p].left

Known(n) == n # None
Reserved(n) == Known(n) /\ n <= Reserve

(* Whether a read may be sent: not once GitHub has refused one of the       *)
(* scan's, and not while the REST pool is at the reserve.                   *)
Admit(q) == ~q.refused /\ ~Reserved(Pool(q, "core"))

(* An answer: its outcome, the pool it is of, and that pool's count after   *)
(* it, with None where it reports none, as where there is no answer at all. *)
(* One that names no pool is of the REST pool (account's corePool).         *)
Outcomes == {"ok", "unchanged", "absent", "forbidden", "throttled", "failed", "unanswered"}
Answers == [outcome : Outcomes, pool : Pools, budget : Budgets]

(* A 403 that no rate limit explains: the count is not at 0, and there is   *)
(* no Retry-After.                                                          *)
Refuses(a) == a.outcome = "forbidden" /\ a.budget.left # 0

(* spendOne, for an attempt that reported no pool.                          *)
SpendOne(q) ==
    IF Known(Pool(q, "core")) /\ q.pools["core"].left > 0
    THEN [q EXCEPT !.pools["core"].left = @ - 1]
    ELSE q

(* Fault: the REST pool takes what any pool reports. *)
AccountAsCore(q, a) ==
    IF Known(a.budget.left)
    THEN [q EXCEPT !.pools["core"] = a.budget]
    ELSE SpendOne(q)

Account(q, a) ==
    IF Known(a.budget.left)
    THEN [q EXCEPT !.pools[a.pool] = a.budget]
    ELSE SpendOne(q)

(* see, beneath the retries (account) and above them (judge).               *)
SeeAttempt(q, a) == IF q.armed THEN Account(q, a) ELSE q
SeeFinal(q, a) == IF q.armed /\ Refuses(a) THEN [q EXCEPT !.refused = TRUE] ELSE q
=============================================================================
