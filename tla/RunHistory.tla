----------------------------- MODULE RunHistory -----------------------------
(***************************************************************************)
(* What the run state remembers of one repository over many scans, and     *)
(* what its lines say of runs nobody listed: the delivered runs, one       *)
(* workflow's verdict on one branch, the last listing that left no gap,    *)
(* the oldest pending run, and the days.                                   *)
(*                                                                         *)
(* A forge creates, finishes and re-runs runs while time passes; a scan    *)
(* takes its start, lists the runs of its window later (cut short at any   *)
(* row, reading some runs late), and the store applies the listing: relist, *)
(* one row after another, oldest first, then the prune.  The rows are      *)
(* applied to a copy under the right to write (RunStore), so nothing else  *)
(* moves between them.                                                     *)
(*                                                                         *)
(* Times are ticks, 0 is no time.  A run's update time is the number of    *)
(* times it finished.                                                      *)
(***************************************************************************)
EXTENDS Verdicts, FiniteSetsExt, Sequences

CONSTANTS
    Ids,            \* run IDs
    PullRequests,   \* the runs a pull request triggered
    Late,           \* the runs whose listed state may be an earlier one
    MaxTime,        \* the model's last tick
    MaxFinishes,    \* how often a run may finish: once, and per re-run
    SameTick,       \* whether two runs may be created in one tick
    MayCut,         \* whether a listing may be cut short
    Lookback,       \* the window's length
    DayLength,      \* ticks in a UTC day
    DayRetention,   \* days kept, the scan's own included
    Retention       \* WorkflowRetention

ASSUME IdsAssumption ==
    /\ Ids \subseteq Nat \ {0}
    /\ PullRequests \subseteq Ids
    /\ Late \subseteq Ids
ASSUME TimesAssumption ==
    /\ {MaxTime, MaxFinishes, Lookback, DayLength, DayRetention, Retention} \subseteq Nat \ {0}
    /\ Lookback < Retention
    /\ SameTick \in BOOLEAN /\ MayCut \in BOOLEAN

VARIABLES
    now,
    runs,       \* the forge's runs: [created, results, running]
    scan,       \* the scan in progress
    delivered,  \* per run: the finish its last line told of; 0 when not held
    verdict,
    listed,     \* the listing time; 0 is none
    pending,    \* creation of the oldest run the last listing returned pending
    counted,    \* per run: the state its day counts it in, "" when it does not
    clipped,    \* the days marked clipped
    seen,       \* history: the readings recorded, <<run, finish>>, 0 for pending
    reported,   \* history: the runs in a logged coverage gap
    first       \* history: the cover of the listing that followed none

forgeVars == <<now, runs>>
storeVars == <<delivered, verdict, listed, pending, counted, clipped>>
historyVars == <<seen, reported, first>>
vars == <<forgeVars, scan, storeVars, historyVars>>

Absent == [created |-> 0, results |-> <<>>, running |-> FALSE]
Created == {r \in Ids : runs[r] # Absent}
Earlier(q, r) ==
    \/ runs[q].created < runs[r].created
    \/ runs[q].created = runs[r].created /\ q < r

NoScan == [stage |-> "idle", start |-> 0, cut |-> FALSE, cover |-> 0,
           contiguous |-> FALSE, judged |-> FALSE, read |-> {}, rows |-> {}]
Readings == Ids \X (0..MaxFinishes)

TypeOK ==
    /\ now \in 1..MaxTime
    /\ runs \in [Ids -> [created : 0..MaxTime, results : Seq(States), running : BOOLEAN]]
    /\ scan \in [stage : {"idle", "reading", "applying"}, start : 0..MaxTime, cut : BOOLEAN,
                 cover : Int, contiguous : BOOLEAN, judged : BOOLEAN,
                 read : SUBSET Readings, rows : SUBSET Readings]
    /\ delivered \in [Ids -> 0..MaxFinishes]
    /\ verdict \in Verdict \cup {NoVerdict}
    /\ listed \in 0..MaxTime
    /\ pending \in 0..MaxTime
    /\ counted \in [Ids -> States \cup {""}]
    /\ clipped \subseteq Int
    /\ seen \subseteq Readings
    /\ reported \subseteq Ids
    /\ first \in Int

Init ==
    /\ now = 1
    /\ runs = [r \in Ids |-> Absent]
    /\ scan = NoScan
    /\ delivered = [r \in Ids |-> 0]
    /\ verdict = NoVerdict
    /\ listed = 0
    /\ pending = 0
    /\ counted = [r \in Ids |-> ""]
    /\ clipped = {}
    /\ seen = {}
    /\ reported = {}
    /\ first = 0

-----------------------------------------------------------------------------
(* The forge. *)

\* A forge numbers its runs as it creates them.
Create(r) ==
    /\ scan.stage # "applying"
    /\ Created = {q \in Ids : q < r}
    /\ SameTick \/ \A q \in Created : runs[q].created < now
    /\ runs' = [runs EXCEPT ![r] = [created |-> now, results |-> <<>>, running |-> TRUE]]
    /\ UNCHANGED <<now, scan, storeVars, historyVars>>

Finish(r, s) ==
    /\ scan.stage # "applying"
    /\ runs[r].running
    /\ runs' = [runs EXCEPT ![r].running = FALSE, ![r].results = Append(@, s)]
    /\ UNCHANGED <<now, scan, storeVars, historyVars>>

\* A re-run keeps its run's ID and creation time.
Rerun(r) ==
    /\ scan.stage # "applying"
    /\ r \in Created
    /\ ~runs[r].running
    /\ Len(runs[r].results) < MaxFinishes
    /\ runs' = [runs EXCEPT ![r].running = TRUE]
    /\ UNCHANGED <<now, scan, storeVars, historyVars>>

Tick ==
    /\ scan.stage # "applying"
    /\ now < MaxTime
    /\ now' = now + 1
    /\ UNCHANGED <<runs, scan, storeVars, historyVars>>

-----------------------------------------------------------------------------
(* Windows, covers and days. *)

Window(start) == start - Lookback
DayOf(t) == t \div DayLength
FirstDay(start) == DayOf(start) - (DayRetention - 1)

\* A listing from cover on follows one taken at prev with no gap.
Covered(prev, cover) == prev # 0 /\ cover <= prev

\* A cut listing does not reach a run the last one returned pending.
Stranded(cut, cover, p) == cut /\ p # 0 /\ p < cover

\* The retained days the span [from, to) reaches.
ClippedDays(from, to, start) ==
    {d \in FirstDay(start)..DayOf(MaxTime) : DayOf(from) <= d /\ d * DayLength < to}

\* Whether a listing moves the listing time: not one cut short of a listing
\* still inside the window, whose gap the next listing may still read.
MovesListed(prev, cut, cover, window) ==
    ~cut \/ Covered(prev, cover) \/ ~Covered(prev, window)

\* Fault: a listing follows the one before it however far it reaches back.
FollowsAnyway(prev, cut, cover) == prev # 0

\* Whether its runs follow the previous listing with no gap.
Follows(prev, cut, cover) == ~cut /\ Covered(prev, cover)

\* Fault: a cut listing vouches for every verdict.
VouchedAnyway(cut, cover, last) == TRUE

\* Whether a listing vouches for a verdict of a run created at last: one cut
\* short does not for a verdict older than its cover.
Vouched(cut, cover, last) == ~cut \/ cover <= last

\* Fault: a gap past the window clips only the day it begins in.
GapStartOnly(prev, cover, start) ==
    ClippedDays(IF prev # 0 THEN prev ELSE DayOf(cover) * DayLength, prev + 1, start)

\* The days the gap before a listing reaches: from the one before it, or for a
\* listing that follows none from the start of the day its cover is in.
GapDays(prev, cover, start) ==
    ClippedDays(IF prev # 0 THEN prev ELSE DayOf(cover) * DayLength, cover, start)

-----------------------------------------------------------------------------
(* The scan. *)

Begin ==
    /\ scan.stage = "idle"
    /\ scan' = [NoScan EXCEPT !.stage = "reading", !.start = now]
    /\ UNCHANGED <<forgeVars, storeVars, historyVars>>

\* What a listing can return of r: its state, or an earlier one of a late run.
Views(r) ==
    LET finishes == Len(runs[r].results)
        current == IF runs[r].running THEN 0 ELSE finishes
    IN  IF r \in Late THEN 0..finishes ELSE {current}

\* relist records the listing of the runs kept, newest first, of the window.
Relist(kept, read, cut) ==
    LET window == Window(scan.start)
        cover == IF ~cut THEN window
                 ELSE IF kept = {} THEN scan.start ELSE Min({runs[r].created : r \in kept})
        running == {runs[r].created : r \in {q \in kept : <<q, 0>> \in read}}
        gap == MovesListed(listed, cut, cover, window) /\ ~Covered(listed, cover)
        stranded == Stranded(cut, cover, pending)
    IN  /\ listed' = IF MovesListed(listed, cut, cover, window) THEN scan.start ELSE listed
        /\ pending' = IF running = {} THEN 0 ELSE Min(running)
        /\ clipped' = clipped
                \cup (IF gap THEN GapDays(listed, cover, scan.start) ELSE {})
                \cup (IF stranded THEN ClippedDays(pending, pending + 1, scan.start) ELSE {})
        /\ reported' = reported \cup
              (IF listed # 0 /\ ~Covered(listed, window)
               THEN {r \in Created : listed <= runs[r].created /\ runs[r].created < cover}
               ELSE {})
        /\ first' = IF listed = 0 THEN cover ELSE first
        /\ scan' = [scan EXCEPT !.stage = "applying", !.cut = cut, !.cover = cover,
                        !.contiguous = Follows(listed, cut, cover),
                        !.read = read, !.rows = {x \in read : x[2] # 0}]

\* A listing walks the window newest first and may be cut short at any row.
List ==
    /\ scan.stage = "reading"
    /\ LET window == {r \in Created : runs[r].created >= Window(scan.start)}
       IN \E kept \in SUBSET window, cut \in BOOLEAN :
            /\ \A r \in kept, q \in window : Earlier(r, q) => q \in kept
            /\ IF cut THEN MayCut ELSE kept = window
            /\ \E view \in [kept -> 0..MaxFinishes] :
                 /\ \A r \in kept : view[r] \in Views(r)
                 /\ Relist(kept, {<<r, view[r]>> : r \in kept}, cut)
    /\ UNCHANGED <<forgeVars, delivered, verdict, counted, seen>>

\* Fault: a reading older than the last delivery is recorded.
FreshAlways(r, n) == TRUE

\* A reading older than the last delivery records nothing.
Fresh(r, n) == delivered[r] <= n

\* The next row, oldest first: delivered, counted on its day, and judged.
Row(r, n) ==
    LET run == [id |-> r, created |-> runs[r].created, state |-> runs[r].results[n]]
        reaches == \/ scan.contiguous
                   \/ scan.judged
                   \/ verdict # NoVerdict /\ verdict.created >= scan.cover
        judged == r \notin PullRequests /\ Moves(verdict, run)
    IN  /\ <<r, n>> \in scan.rows
        /\ \A x \in scan.rows : x[1] = r \/ Earlier(r, x[1])
        /\ IF Fresh(r, n)
           THEN /\ delivered' = [delivered EXCEPT ![r] = n]
                /\ counted' = IF DayOf(run.created) >= FirstDay(scan.start)
                              THEN [counted EXCEPT ![r] = run.state] ELSE counted
                /\ verdict' = IF judged THEN Judge(verdict, run, reaches) ELSE verdict
                /\ scan' = [scan EXCEPT !.rows = @ \ {<<r, n>>}, !.judged = @ \/ judged]
           ELSE /\ scan' = [scan EXCEPT !.rows = @ \ {<<r, n>>}]
                /\ UNCHANGED <<delivered, counted, verdict>>
        /\ UNCHANGED <<forgeVars, listed, pending, clipped, historyVars>>

\* What the window and the retentions no longer hold of a store, as a record.
Pruned(s) ==
    LET floor == scan.start - Retention
        old(t) == t < floor
    IN  [delivered |-> [r \in Ids |->
            IF runs[r].created < Window(scan.start) THEN 0 ELSE s.delivered[r]],
         verdict |-> IF s.verdict # NoVerdict /\ old(s.verdict.created) THEN NoVerdict ELSE s.verdict,
         listed |-> IF old(s.listed) THEN 0 ELSE s.listed,
         pending |-> IF old(s.pending) THEN 0 ELSE s.pending,
         counted |-> [r \in Ids |->
            IF DayOf(runs[r].created) < FirstDay(scan.start) THEN "" ELSE s.counted[r]],
         clipped |-> {d \in s.clipped : d >= FirstDay(scan.start)}]

Store == [delivered |-> delivered, verdict |-> verdict, listed |-> listed,
          pending |-> pending, counted |-> counted, clipped |-> clipped]

\* prune ends every apply.
Stored(s) ==
    /\ delivered' = Pruned(s).delivered
    /\ verdict' = Pruned(s).verdict
    /\ listed' = Pruned(s).listed
    /\ pending' = Pruned(s).pending
    /\ counted' = Pruned(s).counted
    /\ clipped' = Pruned(s).clipped
    /\ scan' = NoScan

Applied ==
    /\ scan.stage = "applying"
    /\ scan.rows = {}
    /\ Stored(Store)
    /\ seen' = seen \cup scan.read
    /\ UNCHANGED <<forgeVars, reported, first>>

\* The repository's listing failed: the read holds none of it.
Unread ==
    /\ scan.stage = "reading"
    /\ Stored(Store)
    /\ UNCHANGED <<forgeVars, historyVars>>

\* keep on a repository a whole discovery did not return.
Forgotten ==
    [Store EXCEPT !.verdict = NoVerdict, !.listed = 0, !.pending = 0, !.clipped = {},
                  !.counted = [r \in Ids |-> ""]]

Forget ==
    /\ scan.stage = "reading"
    /\ Stored(Forgotten)
    /\ UNCHANGED <<forgeVars, historyVars>>

\* The save records nothing: it was cut off, or the process died.
Abandon ==
    /\ scan.stage = "reading"
    /\ scan' = NoScan
    /\ UNCHANGED <<forgeVars, storeVars, historyVars>>

Next ==
    \/ \E r \in Ids : Create(r) \/ Rerun(r)
    \/ \E r \in Ids, s \in States : Finish(r, s)
    \/ Tick
    \/ Begin
    \/ List
    \/ \E r \in Ids, n \in 1..MaxFinishes : Row(r, n)
    \/ Applied
    \/ Unread
    \/ Forget
    \/ Abandon

Spec == Init /\ [][Next]_vars

-----------------------------------------------------------------------------
(* Properties. *)

\* The runs some recorded listing returned, running or finished.
Returned == {x[1] : x \in seen}

\* What a scan leaves is a file the next start accepts (validate), and the
\* verdict is the judged run in the state its last line told of.
StateLoads ==
    verdict # NoVerdict =>
        /\ ValidVerdict(verdict)
        /\ delivered[verdict.id] # 0 =>
              verdict.state = runs[verdict.id].results[delivered[verdict.id]]

\* The runs of the workflow after p, up to the verdict's.
After(p) == {r \in Created \ PullRequests :
                Earlier(p, r) /\ (r = verdict.id \/ Earlier(r, verdict.id))}

\* Run r was listed in state s.
Told(r, s) == \E n \in 1..MaxFinishes : <<r, n>> \in seen /\ runs[r].results[n] = s

\* The verdict's streak, not marked clipped, follows p: p was listed passing
\* before it began, the runs after p but those of gaps were listed, and every
\* run it counts was listed failing.
StreakFollows(p, gaps) ==
    /\ Told(p, "passing")
    /\ Earlier(p, verdict.id)
    /\ runs[p].created <= verdict.streak.since
    /\ After(p) \subseteq Returned \cup gaps
    /\ verdict.streak.count <= Cardinality({r \in After(p) : Told(r, "failing")})

Unclipped == scan.stage = "idle" /\ verdict # NoVerdict
                /\ verdict.streak.count > 0 /\ ~verdict.streak.clipped

\* A failure streak not marked clipped skips no run, but the runs of a gap
\* that was logged, and those created before the first listing since prune
\* dropped the listing time, whose gap is not logged.
UnclippedStreakSkipsOnlyGaps ==
    Unclipped => \E p \in Created \ PullRequests :
        StreakFollows(p, reported \cup {r \in Created : runs[r].created < first})

\* docs/how-it-works.md, of the runs between two scans a window apart: "the
\* failure streak that follows carries failing_since_clipped true".  Not
\* marked, then, it skips none.
UnclippedStreakIsWhole ==
    Unclipped => \E p \in Created \ PullRequests : StreakFollows(p, {})

\* Once the listing time follows the last listing, every retained day part of
\* which no listing covered since the first is marked clipped.
UnlistedRunIsClipped ==
    scan.stage = "idle" /\ listed # 0 =>
    \A r \in Created \ Returned :
        first <= runs[r].created /\ runs[r].created < listed
            /\ DayOf(runs[r].created) >= FirstDay(now)
        => DayOf(runs[r].created) \in clipped

\* Each reading of a run a save recorded is logged once, whatever lists it
\* again: later listings, re-runs, late readings, a repository forgotten and
\* found again.
EachReadingLoggedOnce ==
    [][\A r \in Ids :
        delivered'[r] \notin {0, delivered[r]} => <<r, delivered'[r]>> \notin seen]_vars

\* A verdict the listing vouches for, which a failing workflow line shows as
\* the workflow's state, is current: no newer run of the window, created by the
\* scan's start, had finished.
VouchedIsCurrent ==
    [][scan.stage = "applying" /\ scan'.stage = "idle" /\ verdict' # NoVerdict
            /\ Vouched(scan.cut, scan.cover, verdict'.created) =>
        \A r \in Created \ PullRequests :
            runs[r].created \in Window(scan.start)..scan.start
                /\ runs[r].created > verdict'.created
            => runs[r].running]_vars
=============================================================================
