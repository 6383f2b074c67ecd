-------------------------------- MODULE Walk --------------------------------
(***************************************************************************)
(* How the listings of a forge end: the page walk of internal/forgeconn    *)
(* and of internal/githubrest, and what each kind of listing makes of it.  *)
(*                                                                         *)
(* A listing is the sequence of what its page requests would answer.       *)
(* "more" is a page with a cursor to the next, "capped" one the library    *)
(* itself bounded, "last" one with no cursor; the other pages end a walk:  *)
(* the marks "partial" (GraphQL answered in part), "cut" (any other mark), *)
(* "deferred" and "limited" (a mark of the rate limit, with budget left to *)
(* hold back or without), and an error, by its class.                      *)
(***************************************************************************)
EXTENDS Sequences, FiniteSetsExt

CONSTANT MaxPages   \* the page ceiling of a walk

ASSUME MaxPagesAssumption == MaxPages \in Nat \ {0}

Stops == {"deferred", "limited"}
Errors == {"failed", "token", "forbidden"} \cup Stops
Goes(page) == page \in {"more", "capped"}
Pages == {"more", "capped", "last", "partial", "cut"} \cup Errors

(* walk: the page that ends it, or the ceiling.                             *)
Walk(pages) ==
    LET n == Min({i \in DOMAIN pages : ~Goes(pages[i])} \cup {MaxPages + 1})
    IN  IF n > MaxPages THEN "ceiling"
        ELSE IF pages[n] = "last" THEN "whole"
        ELSE pages[n]

CutShort == {"ceiling", "partial", "cut"}

(* A listing that may be cut: RunsSince, Discover and, for the REST routes, *)
(* list, whose short page is the last.                                      *)
Listing(pages) == IF Walk(pages) \in CutShort THEN "cut" ELSE Walk(pages)

(* Fault: a second attempt cut in its turn and answered all the same. *)
SnapshotAtLast(attempts) ==
    LET w == IF Walk(attempts[1]) = "partial" THEN Walk(attempts[2]) ELSE Walk(attempts[1])
    IN  IF w = "partial" THEN "whole" ELSE IF w \in CutShort THEN "failed" ELSE w

(* snapshot: a listing read whole or not at all, tried again once when      *)
(* GraphQL answered in part.                                                *)
Snapshot(attempts) ==
    LET w == IF Walk(attempts[1]) = "partial" THEN Walk(attempts[2]) ELSE Walk(attempts[1])
    IN  IF w \in CutShort THEN "failed" ELSE w

(* The reference: every page up to the last was read, with no mark.         *)
AllRead(pages) == \E n \in 1..MaxPages \cap DOMAIN pages :
    /\ pages[n] = "last"
    /\ \A i \in 1..n - 1 : Goes(pages[i])
=============================================================================
