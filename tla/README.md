# forge-scout in TLA+

This directory is a verification project for forge-scout: TLA+ modules that
model its core, TLC configurations that check them on small instances, and
theorems TLAPS proves for every instance. `PROJECT.json` is the machine-readable
index: components, runs, mutants, the source lines each definition models,
hazards, findings and theorems.

forge-scout runs as a daemon (or once, as `forge-scout trigger`). On a schedule
it scans the configured connections to GitHub, GitLab, Gitea and Forgejo
instances and logs JSON lines: a `ci run` line for each new or changed CI run,
and a burst of snapshot lines (open work, failing and slow workflows, alerts,
days) closed by `scan complete` or `scan stopped`. What it must get right is
that no run line is dropped, that a line says only what was really listed, and
that a scan that did not read something never reads as one that did.

## The system

| part | source | state | operations | what makes it correct |
| --- | --- | --- | --- | --- |
| run state store | `internal/runstate` (`Store`) | directory lock, state in memory, right to write, one write goroutine, the file | Open, Load, Commit, Close | a stored run was logged; an answered Commit survives a power loss; two Commits never undo each other; no write outlives the lock; every Commit returns |
| run history | `internal/runstate` (`state.apply`) | delivered runs, verdicts with their streaks, listing time, pending run, days | relist, deliver, judge, countDay, clip, keep, prune | each reading is logged once; a streak or day that may miss runs says so; what is stored loads again |
| scan | `internal/collect/collect.go` | the connections' goroutines, their limits, the account gates | Scan, save, gate arrive and first | one connection reads an account; the burst follows every save; a shutdown still stores what was read |
| connection scan and ledger | `collect/conn.go`, `ledger.go`, `complete.go` | reads, drops and stops per signal family | the read phases, record, drop, halt, approve | a family cut or blind publishes no smaller snapshot; complete means complete |
| signals and burst | `collect/signals.go`, `emit.go` | ranked rows, stop levels | derive, rank, emitBurst, emitVerdict | no line after a cut; caps keep every forge's first rows; one warning per budget window |
| forge connection | `internal/forgeconn`, `internal/githubrest` | none between calls | walk, snapshot, list, RunsSince, CommitChecks, error mapping | a snapshot is whole or an error; a deferral and a refusal are told apart |
| quota meter | `internal/ghquota` | rate-limit pools, the refusal breaker | Admit, see, BeginScan, Arm | it misses nothing this client sent, admits no read at a known count within the reserve, and none after a refusal |
| spend meter, request book | `internal/spend`, `collect/requests.go` | counts, unpriced answers, charges per phase | Detect, Name, see, charge, enter | every attempt is counted once, priced by its product, and charged to one phase |
| cadence | `internal/config` (`overlap`, `ScanLimit`, `maxWait`), `main.go` (the loop, the health marker) | the intervals, the marker | the startup rule, wait, scan, refresh | consecutive windows overlap even after a missed scan; reads leave the save time; a live daemon's marker is fresh |
| configuration file, exclude rules, URL segments, REST decoding, dashboard | `internal/config`, `internal/urlsafe`, `internal/githubrest`, ... | - | parsing and matching of text, HTTP | tested sequential code, see "Not modelled" |

They interact so. `main` opens the store, whose lock admits one process, and
gives it to a collector. Each scan starts one goroutine per connection; it
opens the connection, waits at its account gate, reads phase by phase through
the forge connection (whose requests the meters count), and calls the store's
Commit, which logs the changed runs through the connection's emitter before it
writes. The store is the only state the goroutines share. When all have
returned, the scan derives signals from the store and emits the burst. A stop
signal ends the context all of this runs under; saves get a grace period.

The hard behaviours are the interleavings of Commits, their writes, Close and
the end of their contexts; crashes and power losses between a line and its
write; the histories of windows, cuts, gaps, re-runs and late readings that a
streak or day must survive; the deadlines of reads, saves and shutdown; the
open order behind the gate; and the accounting that spans failed opens, retries
and budget windows. `PROJECT.json` lists each at its line under `hazards`.

## The modules

**AtLeastOnce** is what the run state directory promises, with no process or
goroutine in sight: lines are announced, a state that was logged whole and
forgets nothing replaces the file, and only a power loss or a damaged file goes
back.

**RunStore** is `runstate.Store` and the processes that use one directory.
`phase`, `lock` are the process and its flock; `mem` is `Store.st`; `right` is
the channel `Store.writing`; `writer`, `data` are the goroutine Commit starts;
`pc`, `got`, `next`, `todo`, `expired` are one Commit per process and
connection. Each action is one atomic region of the code: a mutex-guarded body
(`Record`, `Adopt`, `Close`, `EndWrite`), one emitted line (`Deliver`), one file
operation (`WriteReplace`, `WriteSynced`), or one `select` (`Take`, `Block`,
`GiveUp`, `Return`). `Exit` is the end of a process, orderly or killed;
`PowerLoss` keeps either what was durable or what was visible; `Damaged` is a
file spoilt while no process runs. Of a run only its newest logged update is
kept; what else a read does to the state is RunHistory's.

**Verdicts** is the pure part of judging: `NextStreak` (`streak.next`),
`Precedes` (`verdict.before`), `Base`, `Moves`, `Judge` (`judge`) and
`ValidVerdict` (`verdict.validate`).

**RunHistory** is `state.apply` over many scans for one repository and one
workflow's branch, with the forge around it. The forge's actions (`Create`,
`Finish`, `Rerun`, `Tick`) are external. A scan takes its start (`Begin`), lists
later (`List`: a window, newest first, cut at any row, runs in `Late` read in an
earlier state; `Relist` is what `listedRuns` and `relist` make of it), applies
its rows oldest first (`Row`: `deliver`, `countDay`, `judge`) and ends in
`prune` (`Applied`). `Vouched` is what a failing row may then say of a workflow's
verdict, given the listing's cover. A listing can fail (`Unread`), a whole discovery can leave
the repository out (`Forget`), and a save can record nothing (`Abandon`). Times
are ticks; a day is `DayLength` ticks. `seen`, `reported` and `first` are
history variables no action reads: what was recorded, the runs of logged gaps,
and the cover of the listing that followed none.

RunHistory's rows are one Record of RunStore: the right to write is held and a
copy is changed, so nothing interleaves with them. That is why the two are
checked apart: RunStore establishes that a read is recorded whole or not at
all, RunHistory what recording it means.

**AccountGate** is the goroutines of `Scan` up to their reads, and the gate that
keeps two connections off one account. `pc` is each goroutine's place in
`readConn`, or how it ended; `conn` is `connState.conn`, reduced to the login it
opened on, and outlives a scan; `left`, `ready`, `logins` are the `accountGate`
of each forge, new in each scan. `Arrive` is the mutex-guarded body of `arrive`;
`Proceed`, `Refuse` and `GiveUp` are the outcomes of `first`, whose `select` may
take either branch once a context has ended. A context may end at any moment, at
the connection's limit or with the scan's, so `GiveUp` needs no state of its own.
`name` is the forge's: the login of each account, which its owner may change
(`Rename`). Forges are what `Instance` makes of a URL, and logins are told apart
as `strings.EqualFold` does; both comparisons are taken as done. What a
connection reads, and its save, are one step (`Finish`): RunStore has the save.

**Quota** and **Spend** are the two meters as values: `ghquota.Meter` (`Arm`,
`BeginScan`, `Admit`, and `see` in its two places, beneath the retries and above
them) and `spend.Meter` with the request book (`Detect`, `Name`, `see`,
`charge`). A budget carries whether its window has renewed since it was
reported, which is all its `Reset` is read for.

**Metering** puts both meters where the program does and lets one connection
live through scans, opens that fail, requests and retries. `stage` is how far
the open has come, `phase` the book's, `call` the request under way. An attempt
is answered in one step and seen in a later one, so its window can renew in
between. The forge is external: `forge.left` is what GitHub has left of the REST
window, `Answered` what it may answer, `Renew` the end of a window. The window
is the account's: its other clients, for whom the reserve exists, take requests
from it at any moment (`OthersDraw`), and `forge.drawn`, a history no action of
the program reads, is what they took since GitHub last told this connection a
count. `truth` is what was really sent, billed and refused. A read is admitted when it is asked
for by `forgeapi`'s page hook, and attempt by attempt by the REST client
(`Held` is the attempt it does not send).

**Bill** is what the request counts promise: never less than the forge billed,
and what is taken back was a guess. Metering implements it. Which answers a
forge bills (`Bills`) is the rule the code states of GitHub (`githubBills`) and
is taken from it: `BillSpec` and `LineCounts` check how the meter counts before
it knows the product, corrects itself and charges the phases, not that rule.

**Walk** is how a listing ends (`walk`, `snapshot`, `list`), against `AllRead`,
which says what a whole listing is. **ReadLedger** is `ledger.go` and
`complete.go`: the ledger as sets, `State`, `Withheld`, `Degraded`, `Complete`
and `Cause`. **ConnScan** is a connection's scans built on both: open, gate, the
read phases one listing at a time (`todo` is the loop under way), `Save`,
`derive`, `approve`, and the line the scan ends in. The context may end at any
step, at the limit or with the process (`CtxEnds`); each read may end in any way
its listing can. `env` is what the scan meets: the product, the operator's
choices, forks, repositories created after discovery. `byOwner` is what the
fallback of an owner reads, the kept repositories discovery answered for it:
less than the owner's when discovery was cut. `whole` is what the forge really
answered to its end.

**Burst** is `emitBurst` and its verdicts for several connections: `Rank`, the
caps (`Within`, `Cap`), the tools, `CompleteLine`, the stop level of
`emitStopped` with `lastStops`, and the emitter that refuses every line once the
process is told to stop (`Cut` may fall between any two lines). Rows that are
equal in their family's order stand in that of their connections' names
(`ByName`), verdicts in the configured one (`Conns`). A connection's
result is chosen from `Scans`; ConnScan has what makes one.

**Cadence** is time: `config`'s clamps and rule of overlap, the wait with its
jitter, the deadlines of reads and save, SIGTERM with its grace, and the health
marker against the probe's lease.

**RunStoreProofs**, **RunHistoryProofs**, **AccountGateProofs**,
**MeteringProofs**, **ConnScanProofs**, **BurstProofs** and **CadenceProofs** hold
each module's theorems. **SequenceFacts** has what they need to know of natural
numbers, finite sets and sequences and no library theorem says: induction, that
a set of numbers has a least one, what flattening, joining and sorting leave of
a sequence, that joining sequences that hold nothing twice repeats nothing, and that a set
shared out is as large as its shares.

The `MC` modules instantiate the models for TLC. Definitions whose comment starts with
"Fault:" are broken variants of the definition below them; `PROJECT.json` names
each under `mutants`, and the run it names finds its property violated when it
takes the place of the original.

## The runs

| run | checks | instance |
| --- | --- | --- |
| `handover` | `TypeOK`, `StoredWasLogged`, `WriterHoldsDirectory` | a daemon and a trigger, one connection, two runs, one update each |
| `concurrent` | `SavedIsDurable`, `MemoryNeverForgets`, `LaterWriteStoresEarlier`; refinement: `AbsSpec` | one daemon that may restart, two connections, one run with two updates |
| `stall` | liveness: `CommitReturns`, `DirectoryReleased` | one process, two connections, writes that may never end |
| `streak` | `UnclippedStreakSkipsOnlyGaps`, `UnlistedRunIsClipped`; action: `VouchedIsCurrent` | three runs of one workflow, four ticks over two days, cuts, a window of one tick |
| `rerun` | `TypeOK`, `StateLoads`; action: `EachReadingLoggedOnce` | two runs, each finishing twice, one read late |
| `accounts` | `GateCounts`, `EarliestReads`, `RefusedForAReader`; liveness: `ScanReturns` | four connections, two forges, three on one account, two logins |
| `metering` | `TypeOK`, `NeverOverstated`, `BreakerIsTheScans`, `LineCounts`; action: `NoneSentAfterRefusal`; refinement: `BillSpec`; liveness: `ReserveLifts` | a window of two requests with a reserve of one, other clients on it, four attempts over any number of scans and opens |
| `scan` | `TypeOK`, `CompleteIsWhole`, `SnapshotsAreWhole`, `DegradedIsIncomplete`, `CauseIsSo`, `KeptIsWhole` | two owners that share one of two repositories, each product, three faults a scan, walks of two pages |
| `burst` | `CompleteCommitsBurst`, `EachForgeFirstRows`, `InfoHasWarn`, `ExitZeroIsWhole` | three connections, two of one product, a cap of one row, two budget windows |
| `cadence` | `TypeOK`, `Reaches`, `MarkerIsFresh`; action: `SaveHasTime` | intervals and lookbacks on both sides of their limits, a tick a tenth of the shortest interval |

Two runs, `triggercut` and `gapstreak`, are expected to find a violation; see
Findings.

The bounds are small because the interleavings, not the amounts, are the
content. Two connections are enough for one Commit to wait behind, or overtake,
another's write; two processes for one to open while the other's write still
runs; two update times for an older reading to meet a newer one; two runs for a
delivery to be cut between lines. In RunHistory three runs make a streak with a
predecessor and a successor around a gap or a cut; two finishes per run make a
re-run; a `Lookback` of one tick against a `Retention` of two lets
listings overlap, touch and miss each other and stored times expire; two-tick
days make a gap end inside, and at the edge of, a day. In AccountGate
three connections on one account are the least with which a refused one could
be another's reason to be refused, and scans are not bounded: opens that fail
and connections that stay open meet in every order. `MaxTime`,
`MaxFinishes` and the set `Ids` bound the forge; the retention bounds are the
code's, scaled.

In `streak` no two runs share a tick (`SameTick`), as the code's comments
assume; `rerun` allows it.

`UnclippedStreakSkipsOnlyGaps` lets an unclipped streak skip the runs of logged
gaps, and those created before the first listing there is a record of, once
`prune` has dropped the listing time before it; Findings has
why neither exception can go.

No run holds a pull request's run, which a judgement passes by: the theorems of
RunHistory cover them for any `PullRequests`.

In Metering four attempts let an open fail with an answer unpriced, the next
begin, and a read be retried after it; a window of two with a reserve of one
lets counts stand above the reserve, at it and at zero, and this connection and
others each bring it there. `MaxSent` is the
only bound: scans, opens, phases and renewals are not counted. In ConnScan three
faults let an open, a read and a save go wrong in one scan; the shared
repository is what makes an owner that fails hide behind one that answers; walks
of two pages have a page before, at and past the ceiling. In Burst a cap of one
row is already two caps, the scan's and each product's; two connections of a
product and one of another tell them apart. Scans are not counted. In Cadence
the limits scale the code's (`MaxReserve` to `saveReserve`'s cap, `Grace` to
`shutdownSaveGrace`), and `Lag`, how long a read takes to return once its
context has ended, is assumed shorter than the reserve.

**Fairness.** `StallSpec` gives weak fairness to each Commit's own steps
(straight-line code of a running goroutine) and to the end of its context:
`Scan` sets a deadline of `ScanLimit` on every save, and a stop signal's grace
ends it sooner. Writes get none: a file system may hang, which is what Commit's
return by its context is for. `DirectoryReleased` assumes in its own statement
that a write ends, one way or the other (`WritesEnd`): it cannot hold without,
and the code says so. Taking
a free right is fair only weakly: `CommitReturns` holds without any promise
that a waiting Commit ever gets it.

AccountGate's `FairSpec` gives weak fairness to each goroutine's steps and to
the return of `Scan`. It assumes that an open and a read end, as their requests
do, but not that a context does: `ScanReturns` says that no scan needs its limit
to get past the gate.

Metering's `FairSpec` gives weak fairness to `Renew` alone: time passes, so a
window ends. `ReserveLifts` then needs no request, and the code sends none.

Deadlock is checked in every run but `cadence`, where a process told to stop
ends: a machine can always lose power, a forge's runs can always be scanned
again, and a collector can always scan or close.

## What is proved

By TLAPS, for every value of the constants. Each invariant a run checks is
seldom inductive; what follows names the invariant that is, and why it takes
what it takes. A proof that a step keeps an invariant has a case for each action,
and a lemma for each action that disturbs much.

### The store (`RunStoreProofs`)

For any processes, connections, runs and update times:

- `TypeCorrect`: `Spec => []TypeOK`.
- `NothingStoredUnlogged`: `Spec => []StoredWasLogged`. The file takes what
  `data` holds, `data` what `next` holds, and `next` was made from `mem`.
  `LoggedInv` adds that memory and the data under way were logged and that a copy
  under delivery holds nothing but what was logged, what memory held, and what is
  still in `todo`.
- `WritersHoldDirectory`: `Spec => []WriterHoldsDirectory`. `DirectoryInv` adds
  who holds the lock in each phase, that a running write keeps the right to
  write taken, and that a Commit between its lines holds both: then `Close`
  cannot find the right free while a write is still to come.
- `CommitsKeepMemory`: `Spec => MemoryNeverForgets`, and `WritesStoreEarlier`:
  `Spec => LaterWriteStoresEarlier`. Both rest on `CommitInv`: the copy a Commit
  delivers from keeps what memory holds *now*, not when it was made, because
  nobody else adopts while it holds the right; and a running write's bytes are
  memory's.
- `SavesAreDurable`: `Spec /\ []NoneCut => []SavedIsDurable`, and
  `DirectoryRefines`: `Spec /\ []NoneCut => AbsSpec`, every step of the store a
  step of AtLeastOnce or none. `StoreInv` adds that memory keeps the file, and
  the file what is durable. That is false of a trigger told to stop while it loads
  (the `triggercut` finding), so both are stated of the behaviours in which none
  is cut (`NoneCut`). `DaemonsDurable` has them of `Spec` with no assumption on
  behaviours where every process is a daemon, which is what runs unattended.

### The run history (`RunHistoryProofs`)

For any runs, pull requests, times and windows. Each step is first summarised by
what it may change (`Grows`: the forge; `Lists`: a listing; `Rows`: one row;
`Ends`: `prune`; ...), and the invariants are proved to survive the summaries.
`BasicInv` is `TypeOK` with: a verdict is of a run of the workflow, in the state
its run was last told in (`HistoryInv`); runs are numbered in the order they were
created (`OrderInv`); what a scan holds it read (`ScanInv`).

- `HistoryTypes`: `Spec => []TypeOK`.
- `VerdictsLoad`: `Spec => []StateLoads`. The core is `JudgeValid`: judging a
  finished run after a valid verdict gives a valid verdict, whether it follows
  the verdict's streak, its base or nothing.
- `LoggedOnce`: `Spec => EachReadingLoggedOnce`. `DeliveredInv`: the last
  delivery of a run is at least every reading a save recorded, or the run has
  left the window, and no listing reads it again.
- `VouchedCurrent`: `Spec => VouchedIsCurrent` when `Late = {}`. `CoverInv` says
  that a listing holds every run after its cover, `CurrentInv` that the rows
  applied so far are no newer than the verdict. A late listing may show a finished
  run as still pending, and the property is then false of what the forge has,
  though true of what it said.
- `UnlistedClipped`: `Spec => []UnlistedRunIsClipped`, by `UnlistedInv`, the same
  of a listing half applied; and
- `StreakSkipsOnlyGaps`: `Spec => []UnclippedStreakSkipsOnlyGaps`. `StreakInv`
  says what a verdict stands on: its run was read in its state; every run since,
  up to the listing time, is *known* (listed, in a logged gap, or older than the
  first listing); and the base it would fall back to, in turn, began after a run
  read passing with every run between known. The base is needed because a re-run
  of the verdict's own run goes back to it.

  Both assume that no listing is cut, or that no two runs share a second
  (`SameTick => ~MayCut`). A cut listing's cover is its oldest row's second, and
  runs of that second below the cut are in no list (`conn.go:668`).

### The gate (`AccountGateProofs`)

For any configuration, forges, accounts and logins:

- `GateOpensOnce`: `Spec => [](TypeOK /\ GateCounts)`. `GateInv` adds what each
  place of a goroutine says of its connection and of the logins the gate knows;
  `ArriveCounts` is the step that takes one arrival off the count.
- `OnlyEarliestReads`: `Spec => []EarliestReads`, renames included. `OrderInv`
  keeps what `first` answered: it stays true because no login a gate knows
  changes once the gate is open (`OpenGateFixed`), all having arrived.
- `SomeoneReads`: `Spec => []RefusedForAReader`. The invariant names the earliest
  connection on the login, which exists because the connections are finitely
  many (`EarliestExists`) and is never refused (`FirstHolds`).
- `OneReader`: `Spec => []OneReaderPerAccount` when `MayRename` is `FALSE`; see
  Findings for why the assumption is needed.

### The meters (`MeteringProofs`)

For any window, reserve and number of requests:

- `MeteringTypes`, `BreakersAreTheScans` (`Spec => []BreakerIsTheScans`) and
  `RefusalsStopTheScan` (`Spec => NoneSentAfterRefusal`): `StageInv` and `CallInv`
  tie where the connection stands to what its meters know and to what an answer
  under way can be; `HeardInv` ties the breaker to the refusals of this scan.
- `MeterNeverOverstates`: `Spec => []NeverOverstated`. The count held is never
  more than GitHub has left and what others drew since it last reported one:
  the meter accounts for every attempt of its own, reported or not, and errs by
  nothing but what it cannot see. It is no promise that the reserve is left to the others: they
  draw unseen, and a request admitted above it may end below after a retry
  (`docs/monitoring.md:137`). An answer can be on its way while its window ends,
  so `QuotaInv` speaks of the meter as it will be once it has seen that answer
  (`Caught`).
- `LinesCount`: `Spec => []LineCounts`. The book charges a phase when it ends, so
  `BookInv` speaks of what each phase is *due* (`Due`), and `MineInv` of how much
  of that is a guess an open made before it knew the product.
- `CountsImplementBill`: `Spec => BillSpec`, the refinement, and
  `NothingUndercounted`: what a connection shows is what the forge billed and its
  guesses, never less than what was billed.

### The connection scan (`ConnScanProofs`)

For any owners, repositories, conditions of a scan, pages and answers. The
invariant grows in layers, each proved from the ones below: `TypeInv`; `CoreInv`
(what a step says of the ledger, what the ledger's parts say of each other, that
the reads still to make are of the step under way, how a context's end shows,
and what discovery answered); `CoverInv` (each listing a family wants was
answered whole, is still to come, or has left a drop that says why); `RowsInv`
(a snapshot's rows are those of whole listings until withheld); `FlagInv`; and
`BegunInv` (the families every scan begins).

- `ScanTypes`: `Spec => []TypeOK`.
- `KeepsAllThere`: `Spec => []KeptIsWhole`, from `CoreInv`.
- `CompleteMeansWhole`: `Spec => []CompleteIsWhole`. `CoverInv` is what no unit
  test reaches: a page loop left half way must show in the ledger on every path.
- `PublishesWholeSnapshots`: `Spec => []SnapshotsAreWhole`, from `RowsInv` too.
- `NamesItsCause`: `Spec => []CauseIsSo`, from `FlagInv`.
- `SaysIncomplete`: `Spec => []DegradedIsIncomplete`, from `BegunInv`: a family
  never begun is one the scan had no reason to begin.

### The burst (`BurstProofs`)

For any connections, results of their scans, caps and tools:

- `WindowsAreWarned`: `Spec => []InfoHasWarn`. A connection's last budget stop was
  itself logged at WARN, whichever scan logged it (`LastHasWarn`).
- `CompleteScansAreWhole`: `Spec => []ExitZeroIsWhole`. Until the process is told
  to stop, each connection that read has its `scan complete` line in the log or
  still in the burst (`VerdictsComing`), which is a fact of how `Lines` is made
  of the connections' verdicts.
- `CompletesCommit`: `Spec => []CompleteCommitsBurst`. Until the process is told
  to stop, a row of the results is in the log or still to come, and never both or
  twice (`RowsComing`); in `Lines` no row follows its connection's `scan
  complete` (`RowsFirst`). So when that line is in the log the rows are too, and
  the theorem counts them by bijections with the rows of the result, and those
  of the days, which the line does not count, likewise. The tools'
  lines are rows too, and share the connection's alerts out among them
  (`ToolsCount`): each alert's tool has one place, and each place one line.
- `FirstRowsOfEachForge`: `Spec => []EachForgeFirstRows`. No two rows of a table
  share a place, in the scan or in their product, and none is left out
  (`KeysPlaced`), so each rank up to the cap is exactly one line's.

### Time (`CadenceProofs`)

For any intervals, lookbacks and limits:

- `CadenceTypes`: `Spec => []TypeOK`, the durations in force within their limits.
- `WindowsReach`, `SavesHaveTime`, `MarkersAreFresh`: `Spec => []Reaches`,
  `Spec => SaveHasTime`, `Spec => []MarkerIsFresh`. None is inductive alone: each
  is a sum of the durations of the phases behind it. `IInv` bounds `age` and
  `over` in each phase, and ties `marker`, `since` and `scanned` to them; what
  `Reaches` bounds is then two waits and one scan at its limit, which is the
  rule `overlap` accepts.

### What the proofs rest on

The assumptions are those the modules state on their constants: the values
standing for "none" are not among the values they stand apart from, run IDs are
positive, zero is an update time ("none"), the window is shorter than the
retention, the owners' repositories are among the repositories and no name is
both, a listing is a finite sequence of pages, a configuration has a connection
and names none twice (`config.go:439`), the order of names holds the same
connections, the rows of a scan are finitely many,
and a read returns in less than the reserve of the shortest interval. Beyond
them some theorems assume what is said with them above: `SavesAreDurable`, `DirectoryRefines` and the `Daemons`
theorems, `VouchedCurrent`, `UnlistedClipped` and `StreakSkipsOnlyGaps`, and
`OneReader`.

Induction over the naturals is stated in `SequenceFacts` of a set, and derived
from the pigeonhole principle: a proof by induction then needs no theorem with
an operator for a parameter.

### Model-checked only

Liveness under fairness: `CommitReturns`, `DirectoryReleased`, `ScanReturns`,
`ReserveLifts`. It is out of the prover's reach. Every other property a passing
run checks is a theorem.

## Findings

- **`triggercut`** A `trigger` stopped by a signal while it loads the state goes
  on with an empty one, and its save, which still runs in the shutdown grace,
  replaces the file: the next process logs the lookback window again.
- **`gapstreak`** When the first listing after a coverage gap holds no finished
  run of a workflow, the next failure extends the streak from before the gap
  with `failing_since_clipped` `false`.

Met while modelling, with no run of their own:

- The gate compares the logins connections opened on, each as old as its
  connection (`collect.go:300`). An account renamed between the opens of two of
  its connections is read by both until one reopens; `docs/configuration.md:88`
  says one account is read once. `OneReader` proves it where no account is
  renamed.
- `prune` drops a listing time and a verdict each by its own age
  (`runstate.go:1126`, `:1124`), and the verdict's run can be the newer: its
  listing began before the run was created, or was cut and moved no listing time.
  Once only the verdict is left, the next listing finds none before it and logs no
  gap; when it holds no finished run of the workflow either, a failure in the one
  after extends the old streak with `failing_since_clipped` `false` over runs no
  line told of. It takes a retention (63 days) without a listing of the
  repository and a verdict at its edge. The proof of `StreakSkipsOnlyGaps` met it.
- When the first listing was cut short, a later one can reach back to an earlier
  day and count the part of it inside its window with `clipped` `false`
  (`runstate.go:948`, `docs/monitoring.md:53`).
- A cut listing's cover is its oldest row's creation second (`conn.go:668`); runs
  created in that second below the cut are not in the listing, though the
  comment at `runstate.go:441` says it holds every run from there.
- When two pending runs of different days fall below a cut, only the older one's
  day is clipped; the `hours` of a coverage gap warning are counted to the
  window's start even when the listing was cut later than that; a gap a later
  listing may still close leaves its day unclipped meanwhile.
- `lastStops` keeps one reset per connection. The comment at `emit.go:372-376`
  has the first budget stop of a window at WARN and its repeats at INFO; stops
  that alternate between the core and the GraphQL pool log WARN again within a
  window. `InfoHasWarn` states the direction that holds.
- The lookback's rule counts one scan at its limit (`config.go:231`). Past a
  missed scan the windows overlap when the two scans together took no more than
  that, as `Reaches` says, and not when each ran to its limit.
- A failing row of a workflow a cut listing does not reach is vouched for by the
  listing's cover. A listing cut before its first row has the scan's start for
  cover, so `VouchedIsCurrent` is about runs created before the scan began.

## Not modelled

Configuration parsing, exclude rules and URL segments are sequential code over
text, read once. HTTP, paging and decoding in `githubrest`, the forge libraries
and `atomicfile` are outside this repository or pure I/O; the models take what
they may answer. Log wording, the dashboard, smoke test and scripts hold no
state the properties are about. Run durations, the `Defined` mark and the
neutral state, which ends a streak as passing does, are abstracted in
RunHistory. `forgeconntest` is the tests' fake forges.

Metering takes GitHub's count and its reset to come together, as GitHub sends
them (a count at the reserve with no reset would hold reads for ever), reports
the GraphQL pool as full, leaves out the points of a query, and has two of the
read phases. Its product is chosen at the start and does not change. ReadLedger
keeps whether a family dropped something for a reason, not how often. ConnScan
has one pull request and one issue in each repository. Burst logs a row in one
step and leaves out what a row says besides its place. Cadence follows the
slowest connection, and its burst takes no time.

## Plan

1. Done: RunStore with AtLeastOnce, Verdicts, RunHistory, AccountGate, their
   runs, and the first theorems.
2. Done: Quota, Spend, Bill and Metering.
3. Done: Walk, ReadLedger and ConnScan.
4. Done: Burst.
5. Done: Cadence with its proofs.
6. Done: the theorems of "What is proved".
7. Left: the rules of the configuration file, which are sequential and tested,
   and the retries of `githubrest` below what Metering counts.
