------------------------------ MODULE Verdicts ------------------------------
(***************************************************************************)
(* How internal/runstate judges one workflow's runs on one branch: the     *)
(* newest finished run is the verdict, with the failure streak it ends.  A  *)
(* verdict keeps the streak before its run too (its base), so that a re-run *)
(* of that run is judged again from there.                                 *)
(***************************************************************************)
EXTENDS Integers

CONSTANTS
    NoVerdict,  \* no run of the workflow was judged
    Unlisted    \* the base of a run no listing covered the start of: nil

States == {"passing", "failing"}    \* "neutral" ends a streak like "passing"
NoStreak == [count |-> 0, since |-> 0, clipped |-> FALSE]
Streak == {NoStreak} \cup [count : Nat \ {0}, since : Nat \ {0}, clipped : BOOLEAN]
Verdict == [id : Nat, created : Nat, state : States,
            base : Streak \cup {Unlisted}, streak : Streak]

ASSUME NoVerdictAssumption == NoVerdict \notin Verdict
ASSUME UnlistedAssumption == Unlisted \notin Streak

\* Fault: a failure after a run that passed keeps that run's empty streak's start.
NextStreakFrom(b, s, created) ==
    CASE s # "failing" -> NoStreak
      [] s = "failing" /\ b = Unlisted ->
            [count |-> 1, since |-> created, clipped |-> TRUE]
      [] OTHER -> [count |-> b.count + 1, since |-> b.since, clipped |-> b.clipped]

\* The streak a run in state s created at created ends, following b.
NextStreak(b, s, created) ==
    CASE s # "failing" -> NoStreak
      [] s = "failing" /\ b = Unlisted ->
            [count |-> 1, since |-> created, clipped |-> TRUE]
      [] s = "failing" /\ b # Unlisted /\ b.count > 0 ->
            [count |-> b.count + 1, since |-> b.since, clipped |-> b.clipped]
      [] OTHER -> [count |-> 1, since |-> created, clipped |-> FALSE]

\* Runs are judged in the order of their creation, then of their IDs.
Precedes(v, r) ==
    \/ v.created < r.created
    \/ v.created = r.created /\ v.id < r.id

\* The streak r follows: the verdict's base when r is the verdict's own run,
\* its streak when no run between them can have gone unlisted.
Base(v, r, covered) ==
    CASE v = NoVerdict -> Unlisted
      [] v # NoVerdict /\ v.id = r.id -> v.base
      [] v # NoVerdict /\ v.id # r.id /\ covered -> v.streak
      [] OTHER -> Unlisted

\* Fault: a re-run of the verdict's own run is taken for the same reading.
MovesWhenNewer(v, r) ==
    \/ v = NoVerdict
    \/ v # NoVerdict /\ v.id # r.id /\ Precedes(v, r)

\* Whether r moves the verdict: a newer run, or its own run in another state.
Moves(v, r) ==
    \/ v = NoVerdict
    \/ v # NoVerdict /\ v.id = r.id /\ v.state # r.state
    \/ v # NoVerdict /\ v.id # r.id /\ Precedes(v, r)

\* The verdict after r.
Judge(v, r, covered) ==
    IF Moves(v, r)
    THEN [id |-> r.id, created |-> r.created, state |-> r.state,
          base |-> Base(v, r, covered),
          streak |-> NextStreak(Base(v, r, covered), r.state, r.created)]
    ELSE v

\* What a loaded file's verdicts are held to.
ValidVerdict(v) ==
    /\ v.id > 0
    /\ v.state \in States
    /\ v.created > 0
    /\ \/ v.base \in {Unlisted, NoStreak}
       \/ v.base.count >= 1 /\ v.base.since > 0 /\ v.base.since <= v.created
    /\ v.streak = NextStreak(v.base, v.state, v.created)
=============================================================================
