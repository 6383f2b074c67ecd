----------------------------- MODULE ReadLedger -----------------------------
(***************************************************************************)
(* The account of one connection's scan (internal/collect/ledger.go): what *)
(* was read, what is missing and why, and what the scan's lines may say of *)
(* it.  A ledger is a record of sets: how often a family dropped something *)
(* for a reason is left out, as only whether it did decides anything.      *)
(***************************************************************************)
EXTENDS Sequences, Naturals

Families == {"repos", "prs", "issues", "runs", "failing", "checks", "security", "workflows", "state"}

Parent == [f \in Families |->
    CASE f = "failing" -> "runs" [] f = "checks" -> "prs" [] f = "state" -> "state" [] OTHER -> "repos"]

(* The reasons of a drop, by class.                                         *)
Excluded == {"excludedRepo", "excludedItem", "skipped", "tokenUnsupported"}
Partial == {"failed", "cut", "noHead", "unlisted", "unresolved", "unwritable", "notDurable", "stopped", "refused"}
BlindReasons == {"ownerFailed", "noRepos", "sourceBlind"}

(* Fault: a save that failed leaves the scan whole. *)
DegradesRead == (Partial \cup BlindReasons) \ {"stopped", "unwritable", "notDurable"}

Degrades == (Partial \cup BlindReasons) \ {"stopped"}

Flags == {"github", "opened", "tokenRejected", "rateLimited", "refused", "connFailed", "timedOut"}
StopReasons == {"read_reserve", "rate_limited", "scan_timeout"}

Ledgers(owners) == [
    begun : SUBSET Families, done : SUBSET Families, ok : SUBSET Families,
    unsupported : SUBSET Families, off : SUBSET Families,
    drops : SUBSET (Families \X (Excluded \cup Partial \cup BlindReasons)),
    unresolved : SUBSET owners, flags : SUBSET Flags, stop : StopReasons \cup {"none"}]

NewLedger == [begun |-> {}, done |-> {}, ok |-> {}, unsupported |-> {}, off |-> {},
              drops |-> {}, unresolved |-> {}, flags |-> {}, stop |-> "none"]

Begin(l, fs) == [l EXCEPT !.begun = @ \cup fs]
Finish(l, fs) == [l EXCEPT !.done = @ \cup fs]
Unsupport(l, fs) == [l EXCEPT !.unsupported = @ \cup fs]
Flag(l, fl) == [l EXCEPT !.flags = @ \cup fl]
Drop(l, f, reason) == [Begin(l, {f}) EXCEPT !.drops = @ \cup {<<f, reason>>}]

Dropped(l, f, reasons) == \E d \in reasons : <<f, d>> \in l.drops

(* classify: what the product does not have, and what the operator turned   *)
(* off.  "plain" is a product whose pull requests name no head.             *)
Classify(l, product, security) ==
    LET github == product = "github"
        m == Unsupport(l, (IF product = "plain" THEN {"checks"} ELSE {})
                          \cup (IF github THEN {} ELSE {"security", "workflows"}))
    IN  [m EXCEPT !.flags = @ \cup (IF github THEN {"github"} ELSE {}),
                  !.off = IF github /\ ~security THEN {"security"} ELSE {}]

(* What a failed read says of the connection.                               *)
Tells(l, err) ==
    CASE err = "token" -> {"tokenRejected"}
      [] err = "limited" -> {"rateLimited"}
      [] err = "connection" -> {"connFailed"}
      [] err = "forbidden" /\ "github" \in l.flags -> {"refused"}
      [] OTHER -> {}

(* record: one read of f, whole, cut, without data, or failed.              *)
Record(l, f, end) ==
    CASE end = "whole" -> [Begin(l, {f}) EXCEPT !.ok = @ \cup {f}]
      [] end = "cut" -> Drop(l, f, "cut")
      [] end = "none" -> Begin(l, {f})
      [] end = "refused" -> Drop(l, f, "refused")
      [] OTHER -> Flag(Drop(l, f, "failed"), Tells(l, end))

(* Fault: a stop that leaves the read under way as it is. *)
HaltOnly(l, reason) == [l EXCEPT !.stop = reason]

(* halt: each family begun and not finished is short.                       *)
Halt(l, reason) ==
    [l EXCEPT !.stop = reason, !.drops = @ \cup {<<f, "stopped">> : f \in l.begun \ l.done}]

(* stopped: an error that ends the scan.  Only a rate limit fails the read. *)
Stopped(l, f, err) ==
    IF err = "limited" THEN Halt(Record(l, f, err), "rate_limited") ELSE Halt(l, "read_reserve")

Answered(l, f) == f \in l.ok \/ Dropped(l, f, {"cut"})

Blind(l, f) ==
    /\ f \notin l.unsupported
    /\ \/ Dropped(l, f, BlindReasons)
       \/ Dropped(l, f, {"failed", "refused"}) /\ ~Answered(l, f)

OwnState(l, f) ==
    IF f \in l.unsupported THEN "unsupported"
    ELSE IF f \in l.off THEN "excluded"
    ELSE IF Blind(l, f) THEN "blind"
    ELSE IF f \notin l.begun THEN "unread"
    ELSE IF Dropped(l, f, Partial) THEN "partial"
    ELSE "complete"

(* state: a family is never more complete than the one it is read through.  *)
State(l) ==
    LET st[f \in Families] ==
            IF Parent[f] = f \/ OwnState(l, f) \notin {"complete", "partial"} THEN OwnState(l, f)
            ELSE CASE st[Parent[f]] \in {"complete", "excluded"} -> OwnState(l, f)
                   [] st[Parent[f]] = "blind" -> "blind"
                   [] OTHER -> "partial"
    IN  st

(* A family that publishes no row and no count.                             *)
Withheld(l, f) ==
    \/ State(l)[f] = "blind"
    \/ Dropped(l, f, {"cut"})
    \/ Dropped(l, "repos", {"cut"})

Degraded(l) == \E f \in Families \ l.unsupported : Dropped(l, f, Degrades)

Complete(l) ==
    /\ l.stop = "none"
    /\ \A f \in Families : State(l)[f] \in {"complete", "unsupported", "excluded"}

(* Fault: a token taken for dead on a first read, the open being one. *)
TokenRejected(l) ==
    /\ "tokenRejected" \in l.flags
    /\ \A f \in Families : ~Answered(l, f)

(* tokenInvalid: a 401, and no read that succeeded, the open included.      *)
TokenInvalid(l) ==
    /\ "tokenRejected" \in l.flags /\ "opened" \notin l.flags
    /\ \A f \in Families : ~Answered(l, f)

(* The causes scan degraded can name, most actionable first.                *)
Causes == <<"scan_timeout", "token_invalid", "rate_limited", "state_unwritable", "state_not_durable",
    "connection_failed", "no_repos_visible", "owner_unresolved", "github_refused",
    "code_scanning_blind", "runs_blind", "signal_blind">>

Holds(l, cause) ==
    CASE cause = "scan_timeout" -> "timedOut" \in l.flags
      [] cause = "token_invalid" -> TokenInvalid(l)
      [] cause = "rate_limited" -> "rateLimited" \in l.flags
      [] cause = "state_unwritable" -> Dropped(l, "state", {"unwritable"})
      [] cause = "state_not_durable" -> Dropped(l, "state", {"notDurable"})
      [] cause = "connection_failed" -> "connFailed" \in l.flags
      [] cause = "no_repos_visible" -> Dropped(l, "repos", {"noRepos"})
      [] cause = "owner_unresolved" -> l.unresolved # {}
      [] cause = "github_refused" -> "refused" \in l.flags
      [] cause = "code_scanning_blind" -> Blind(l, "security")
      [] cause = "runs_blind" -> Blind(l, "runs")
      [] cause = "signal_blind" -> TRUE

Cause(l) == Causes[CHOOSE i \in DOMAIN Causes :
    Holds(l, Causes[i]) /\ \A j \in 1..i - 1 : ~Holds(l, Causes[j])]

(* A degradation worth an ERROR line.                                       *)
Escalates(l) ==
    \/ \E i \in DOMAIN Causes : Causes[i] \notin {"scan_timeout", "signal_blind"} /\ Holds(l, Causes[i])
    \/ Blind(l, "prs") \/ Blind(l, "issues")
=============================================================================
