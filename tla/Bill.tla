-------------------------------- MODULE Bill --------------------------------
(***************************************************************************)
(* What the request counts of a connection promise, with no meter, client, *)
(* retry or open in sight: they never show less than the forge billed, and *)
(* an answer counted before it is known whether the forge bills it is      *)
(* taken back only then, once.  Metering is shown to implement it.         *)
(***************************************************************************)
EXTENDS Naturals

VARIABLES
    owed,       \* the REST requests the forge billed
    guessed,    \* answers counted that it may not have billed
    shown       \* the REST requests the connection counts

bill == <<owed, guessed, shown>>

BillInit == owed = 0 /\ guessed = 0 /\ shown = 0

Billed == owed' = owed + 1 /\ shown' = shown + 1 /\ UNCHANGED guessed
Guess == guessed' = guessed + 1 /\ shown' = shown + 1 /\ UNCHANGED owed

\* What is taken back is a guess.
TakeBack(n) == guessed' = guessed - n /\ shown' = shown - n /\ UNCHANGED owed

BillNext == Billed \/ Guess \/ \E n \in 1..guessed : TakeBack(n)

BillSpec == BillInit /\ [][BillNext]_bill
=============================================================================
