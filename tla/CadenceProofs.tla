--------------------------- MODULE CadenceProofs ---------------------------
(***************************************************************************)
(* Proofs about Cadence, for every interval and lookback a file may ask    *)
(* for and every limit they are moved into: the type invariant, the reach  *)
(* of each run listing's window, the time a save has, and the freshness of *)
(* the health marker.  All follow from one inductive invariant, a bound on *)
(* each duration by the phase it is measured in.                           *)
(***************************************************************************)
EXTENDS Cadence, TLAPS

Deadline == ScanLimit(interval) - SaveReserve(interval)

(* A read returns at most Lag after its context ended.                      *)
ReadsInTime == phase = "reading" => over <= Lag /\ age <= Deadline + over
WaitInTime == phase = "waiting" => age <= MaxWait(interval) /\ marker <= age
ScanInTime ==
    /\ phase = "saving" => age <= ScanLimit(interval)
    /\ phase \in {"reading", "saving"} => marker <= MaxWait(interval) + age

(* since is the time spent scanning, the waits that are over, one more than *)
(* the scans missed, and of the wait under way its age.                     *)
ListedSince == phase # "stopped" /\ missed < 2 =>
    since - scanned <= (IF missed = 1 THEN MaxWait(interval) ELSE 0)
                       + (IF phase = "waiting" THEN age ELSE MaxWait(interval))
ScannedSince == phase # "stopped" /\ missed = 0 =>
    scanned <= ScanLimit(interval) + (IF phase = "waiting" THEN 0 ELSE age)

IInv ==
    /\ TypeOK /\ Overlaps(interval, lookback)
    /\ ReadsInTime /\ WaitInTime /\ ScanInTime /\ ListedSince /\ ScannedSince

(* The durations drawn from an interval, of every interval in the limits.   *)
LEMMA Durations ==
    ASSUME NEW i \in MinInterval..MaxInterval
    PROVE  /\ i \in Nat /\ Jitter(i) \in Nat /\ Jitter(i) <= i
           /\ MaxWait(i) \in Nat /\ MaxWait(i) = i + Jitter(i)
           /\ ScanLimit(i) \in Nat /\ ScanLimit(i) = 2 * i
           /\ SaveReserve(i) \in Nat /\ Lag < SaveReserve(i)
           /\ SaveReserve(i) <= ScanLimit(i)
<1>1. i \in Nat /\ MinInterval <= i
    BY DurationsAssumption
<1>2. Jitter(i) \in Nat /\ Jitter(i) <= i
    BY <1>1 DEF Jitter, Percent
<1>3. ScanLimit(i) \div 10 \in Nat /\ Lag < ScanLimit(i) \div 10 /\ ScanLimit(i) \div 10 <= ScanLimit(i)
    BY <1>1, LagAssumption, DurationsAssumption DEF ScanLimit
<1>4. QED
    BY <1>1, <1>2, <1>3, LagAssumption, DurationsAssumption
    DEF MaxWait, ScanLimit, SaveReserve, Least

(* A duration moved into limits is between them.                            *)
LEMMA Clamped ==
    ASSUME NEW d \in Nat, NEW lo \in Nat, NEW hi \in Nat, lo <= hi
    PROVE  Clamp(d, lo, hi) \in lo..hi
BY DEF Clamp, Least, Most

LEMMA InitIInv == Init => IInv
<1> SUFFICES ASSUME Init PROVE IInv
    OBVIOUS
<1>1. interval \in MinInterval..MaxInterval /\ lookback \in MinLookback..MaxLookback
    BY Clamped, DurationsAssumption DEF Init
<1>2. TypeOK
    <2>1. stopping \in BOOLEAN
        BY Zenon DEF Init
    <2>2. QED
        BY <1>1, <2>1, SMT DEF Init, TypeOK
<1>3. QED
    BY <1>1, <1>2, Durations, DurationsAssumption
    DEF Init, IInv, ReadsInTime, WaitInTime, ScanInTime, ListedSince, ScannedSince, Deadline

LEMMA NextIInv == IInv /\ [Next]_vars => IInv'
<1> SUFFICES ASSUME IInv, [Next]_vars PROVE IInv'
    OBVIOUS
<1>d. /\ interval \in Nat /\ lookback \in Nat /\ MaxWait(interval) \in Nat
      /\ ScanLimit(interval) \in Nat /\ SaveReserve(interval) \in Nat
      /\ Lag < SaveReserve(interval) /\ SaveReserve(interval) <= ScanLimit(interval)
    BY Durations, DurationsAssumption DEF IInv, TypeOK
<1>l. Lag \in Nat
    BY DurationsAssumption
<1>1. CASE Fire
    BY <1>1, <1>d, <1>l DEF Fire, IInv, TypeOK, Overlaps, ReadsInTime, WaitInTime, ScanInTime,
        ListedSince, ScannedSince, Deadline, config, listing
<1>2. CASE EndReads
    BY <1>2, <1>d, <1>l DEF EndReads, IInv, TypeOK, Overlaps, ReadsInTime, WaitInTime, ScanInTime,
        ListedSince, ScannedSince, Deadline, config, listing
<1>3. ASSUME NEW stored \in BOOLEAN, EndSave(stored)
      PROVE  IInv'
    <2>1. CASE stored
        BY <1>3, <1>d, <1>l, <2>1 DEF EndSave, IInv, TypeOK, Overlaps, ReadsInTime, WaitInTime, ScanInTime,
            ListedSince, ScannedSince, Deadline, config, Least
    <2>2. CASE ~stored
        BY <1>3, <1>d, <1>l, <2>2 DEF EndSave, IInv, TypeOK, Overlaps, ReadsInTime, WaitInTime, ScanInTime,
            ListedSince, ScannedSince, Deadline, config, Least
    <2>3. QED
        BY <2>1, <2>2
<1>4. CASE Stop
    BY <1>4, <1>d, <1>l DEF Stop, IInv, TypeOK, Overlaps, ReadsInTime, WaitInTime, ScanInTime,
        ListedSince, ScannedSince, Deadline, config, listing
<1>5. CASE Tick
    <2> USE <1>5, <1>d, <1>l DEF Tick, config
    <2>1. TypeOK' /\ Overlaps(interval, lookback)'
        BY DEF IInv, TypeOK, Overlaps
    <2>2. CASE phase = "waiting"
        BY <2>1, <2>2 DEF IInv, TypeOK, ReadsInTime, WaitInTime, ScanInTime, ListedSince, ScannedSince, Deadline
    <2>3. CASE phase = "reading"
        BY <2>1, <2>3 DEF IInv, TypeOK, ReadsInTime, WaitInTime, ScanInTime, ListedSince, ScannedSince,
            Deadline, ReadsOver
    <2>4. CASE phase = "saving"
        BY <2>1, <2>4 DEF IInv, TypeOK, ReadsInTime, WaitInTime, ScanInTime, ListedSince, ScannedSince, Deadline
    <2>5. QED
        BY <2>2, <2>3, <2>4
<1>6. CASE UNCHANGED vars
    BY <1>6 DEF vars, config, listing, IInv, TypeOK, Overlaps, ReadsInTime, WaitInTime, ScanInTime,
        ListedSince, ScannedSince, Deadline
<1>7. QED
    BY <1>1, <1>2, <1>3, <1>4, <1>5, <1>6 DEF Next

(* The inductive invariant holds of every run of the daemon.                *)
THEOREM IInvHolds == Spec => []IInv
BY InitIInv, NextIInv, PTL DEF Spec

(* Every variable keeps its type, the durations within their limits.        *)
THEOREM CadenceTypes == Spec => []TypeOK
<1>1. IInv => TypeOK
    BY DEF IInv
<1>2. QED
    BY IInvHolds, <1>1, PTL

(* Each listing's window reaches past the start of the scan that last       *)
(* stored one (config.go overlap), for every interval and lookback.         *)
THEOREM WindowsReach == Spec => []Reaches
<1>1. IInv => Reaches
    BY Durations, DurationsAssumption DEF IInv, TypeOK, Overlaps, ListedSince, ScannedSince, Reaches
<1>2. QED
    BY IInvHolds, <1>1, PTL

(* Reads that run to their deadline leave the save time (saveReserve).      *)
THEOREM SavesHaveTime == Spec => SaveHasTime
<1>1. IInv /\ [Next]_vars => [phase = "reading" /\ phase' = "saving" => age < ScanLimit(interval)]_vars
    BY Durations, DurationsAssumption DEF IInv, TypeOK, ReadsInTime, Deadline
<1>2. QED
    BY IInvHolds, <1>1, PTL DEF Spec, SaveHasTime

(* The probe never finds a live daemon's marker stale (healthLease).        *)
THEOREM MarkersAreFresh == Spec => []MarkerIsFresh
<1>1. IInv => MarkerIsFresh
    <2> SUFFICES ASSUME IInv, phase # "stopped" PROVE marker <= Lease(interval)
        BY DEF MarkerIsFresh
    <2>1. /\ interval \in Nat /\ MaxWait(interval) <= 2 * interval /\ ScanLimit(interval) = 2 * interval
          /\ SaveReserve(interval) \in Nat /\ Lag < SaveReserve(interval)
        BY Durations DEF IInv, TypeOK
    <2>2. phase \in {"reading", "saving"} => age <= ScanLimit(interval)
        BY <2>1, DurationsAssumption DEF IInv, TypeOK, ReadsInTime, ScanInTime, Deadline
    <2>3. QED
        BY <2>1, <2>2, Durations DEF IInv, TypeOK, WaitInTime, ScanInTime, Lease
<1>2. QED
    BY IInvHolds, <1>1, PTL
=============================================================================
