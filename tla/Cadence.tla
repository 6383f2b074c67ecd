------------------------------ MODULE Cadence ------------------------------
(***************************************************************************)
(* When scans run and end: the durations a configuration may name          *)
(* (internal/config), the loop that waits between scans and its health     *)
(* marker (main.go), and the deadlines of a scan's reads and save          *)
(* (internal/collect/collect.go).  The scan is that of its slowest         *)
(* connection, and since, missed and scanned follow one repository's run   *)
(* listings.  A burst takes no time.                                       *)
(***************************************************************************)
EXTENDS Integers

CONSTANTS
    Intervals, Lookbacks,       \* the durations a file may ask for,
    MinInterval, MaxInterval,   \* and the limits they are moved into
    MinLookback, MaxLookback,
    MaxReserve, Grace,  \* the longest part of a scan kept for its save; shutdownSaveGrace
    Lag                 \* how long a read takes to return once its context ended

ASSUME DurationsAssumption ==
    /\ Intervals \subseteq Nat /\ Lookbacks \subseteq Nat
    /\ MinInterval \in Nat /\ MaxInterval \in Nat /\ MinInterval <= MaxInterval
    /\ MinLookback \in Nat /\ MaxLookback \in Nat /\ MinLookback <= MaxLookback
    /\ MaxReserve \in Nat /\ Grace \in Nat /\ Lag \in Nat

\* A read returns in less than the reserve of the shortest interval.
ASSUME LagAssumption == Lag < MaxReserve /\ 10 * (Lag + 1) <= 2 * MinInterval

VARIABLES
    interval, lookback, \* the durations in force
    phase,      \* "waiting", "reading", "saving" or "stopped"
    age,        \* since the scan began, or the wait
    over,       \* since the context of the reads, or of the save, ended
    stopping,   \* whether the process was told to stop
    marker,     \* since the health marker was refreshed
    since,      \* history: since the scan began that last stored a listing,
    missed,     \* the scans since that stored none, 2 for more,
    scanned     \* and how much of since was spent scanning

config == <<interval, lookback>>
listing == <<since, missed, scanned>>
vars == <<config, phase, age, over, stopping, marker, listing>>

Percent == 10
Least(a, b) == IF a <= b THEN a ELSE b
Most(a, b) == IF a >= b THEN a ELSE b

(* Fault: a duration moved up to the least and not down to the most. *)
ClampUp(d, lo, hi) == Most(d, lo)

(* duration: a duration out of range is moved to the nearest limit.         *)
Clamp(d, lo, hi) == Least(Most(d, lo), hi)

(* ScanJitter, maxWait: how late or early a wait may end, at most.          *)
Jitter(i) == (i * Percent) \div 100
MaxWait(i) == i + Jitter(i)
MinWait(i) == i - Jitter(i)
ScanLimit(i) == 2 * i

(* Fault: a scan that leaves its save nothing of its limit. *)
NoReserve(i) == 0

(* saveReserve: the part of the limit the reads leave to the save.          *)
SaveReserve(i) == Least(ScanLimit(i) \div 10, MaxReserve)

(* Fault: a lookback of one wait. *)
OverlapsOne(i, l) == l >= MaxWait(i) + ScanLimit(i)

(* overlap: the lookback a start accepts.                                   *)
Overlaps(i, l) == l >= 2 * MaxWait(i) + ScanLimit(i)

(* Fault: a lease of three intervals and no scan. *)
LeaseOfWaits(i) == 3 * i

(* healthLease: three intervals and a scan at its limit.                    *)
Lease(i) == 3 * i + ScanLimit(i)

(* The daemon starts, and fires its first scan at once.                     *)
Init ==
    /\ interval \in {Clamp(i, MinInterval, MaxInterval) : i \in Intervals}
    /\ lookback \in {Clamp(l, MinLookback, MaxLookback) : l \in Lookbacks}
    /\ Overlaps(interval, lookback)
    /\ phase = "reading" /\ age = 0 /\ over = 0
    /\ stopping = FALSE
    /\ marker = 0 /\ since = 0 /\ missed = 0 /\ scanned = 0

(* The wait is over, somewhere in its jitter.                               *)
Fire ==
    /\ phase = "waiting" /\ ~stopping
    /\ age >= MinWait(interval)
    /\ phase' = "reading" /\ age' = 0 /\ over' = 0
    /\ UNCHANGED <<config, stopping, marker, listing>>

(* reading: a context that ends SaveReserve before the limit, or when the   *)
(* process is told to stop.                                                 *)
ReadsOver == stopping \/ age >= ScanLimit(interval) - SaveReserve(interval)

EndReads ==
    /\ phase = "reading"
    /\ phase' = "saving" /\ over' = 0
    /\ UNCHANGED <<config, age, stopping, marker, listing>>

(* The save ends, and with it the scan, having stored a listing or not: the *)
(* loop refreshes the health marker and waits.                              *)
EndSave(stored) ==
    /\ phase = "saving"
    /\ phase' = IF stopping THEN "stopped" ELSE "waiting"
    /\ age' = 0 /\ over' = 0
    /\ marker' = 0
    /\ missed' = IF stored THEN 0 ELSE Least(missed + 1, 2)
    /\ since' = IF stored THEN age ELSE IF missed = 0 THEN since ELSE 0
    /\ scanned' = IF stored THEN age ELSE IF missed = 0 THEN scanned ELSE 0
    /\ UNCHANGED <<config, stopping>>

(* SIGTERM: a wait ends at once, a scan when its reads and save have.       *)
Stop ==
    /\ ~stopping
    /\ stopping' = TRUE
    /\ phase' = IF phase = "waiting" THEN "stopped" ELSE phase
    /\ UNCHANGED <<config, age, over, marker, listing>>

(* Time passes, but never past what must happen now: a wait's end, a read's *)
(* return once its context ended, and the end of the save's context at the  *)
(* limit or Grace after the process was told to stop.                       *)
Tick ==
    /\ \/ phase = "waiting" /\ age < MaxWait(interval)
       \/ phase = "reading" /\ (ReadsOver => over < Lag)
       \/ phase = "saving" /\ age < ScanLimit(interval) /\ (stopping => over < Grace)
    /\ age' = age + 1 /\ marker' = marker + 1
    /\ over' = IF (phase = "reading" /\ ReadsOver) \/ (phase = "saving" /\ stopping) THEN over + 1 ELSE over
    /\ since' = IF missed = 2 THEN since ELSE since + 1
    /\ scanned' = IF missed = 2 \/ phase = "waiting" THEN scanned ELSE scanned + 1
    /\ UNCHANGED <<config, phase, stopping, missed>>

Next ==
    \/ Fire
    \/ EndReads
    \/ \E stored \in BOOLEAN : EndSave(stored)
    \/ Stop
    \/ Tick

Spec == Init /\ [][Next]_vars

-----------------------------------------------------------------------------
(* Every variable has its type.                                             *)
TypeOK ==
    /\ interval \in MinInterval..MaxInterval /\ lookback \in MinLookback..MaxLookback
    /\ phase \in {"waiting", "reading", "saving", "stopped"}
    /\ age \in Nat /\ over \in Nat /\ marker \in Nat
    /\ stopping \in BOOLEAN
    /\ since \in Nat /\ missed \in 0..2 /\ scanned \in Nat

(* The window of a scan's run listings reaches back past the start of the   *)
(* scan that last stored one, however long that ran and late this one is,   *)
(* and past one missed in between when the two together took no more than   *)
(* one scan's limit: a run created between two listings is in one of them.  *)
Reaches ==
    phase = "reading" /\ (missed = 0 \/ (missed = 1 /\ scanned - age <= ScanLimit(interval))) =>
        since - age <= lookback

(* Reads that run to their deadline leave the save time before the limit.   *)
SaveHasTime == [][phase = "reading" /\ phase' = "saving" => age < ScanLimit(interval)]_vars

(* A live daemon's health marker is never older than the probe's lease,     *)
(* whatever the jitter draws and however long a scan takes.                 *)
MarkerIsFresh == phase # "stopped" => marker <= Lease(interval)
=============================================================================
