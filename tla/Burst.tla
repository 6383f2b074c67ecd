-------------------------------- MODULE Burst --------------------------------
(***************************************************************************)
(* The burst that ends a scan (internal/collect/emit.go, signals.go,       *)
(* complete.go): once every connection has read and saved, the scan ranks  *)
(* their rows together, logs them family by family, and closes each        *)
(* connection with its verdict.  All of it goes through one emitter, which *)
(* refuses every line once the process is told to stop.                    *)
(*                                                                         *)
(* A connection's result is what its ledger makes of the scan (ConnScan).  *)
(* A row is its place in its family's order, its other fields left out; a  *)
(* line is logged in one step.                                             *)
(***************************************************************************)
EXTENDS Integers, SequencesExt, FiniteSetsExt

CONSTANTS
    Conns,      \* the connections, a sequence in the order they are configured
    ByName,     \* the same in the order of their names
    Product,    \* the product of each
    Scans,      \* what a scan may make of them, a Result each
    MaxRows,    \* the cap of a capped family
    MaxTools    \* the tools a connection's tool lines name

Families == <<"prs", "issues", "failing", "slow", "disabled", "days", "alerts">>
Capped == {"failing", "slow", "disabled", "top"}
Stops == {"read_reserve", "rate_limited", "scan_timeout"}
Unknown == 0        \* the reset of a budget with no window known

(* rows: by family, "days" those stored, <<day, repository>>; listed: the   *)
(* repositories whose runs were listed; tool: of each alert, as the place   *)
(* of its name; reset: of the pool the budget is of.                        *)
Result(r) ==
    /\ r.stop \in Stops \cup {"none"} /\ r.escalates \in BOOLEAN /\ r.degraded \in BOOLEAN
    /\ r.reset \in Nat
    /\ \A f \in ToSet(Families) : IsFiniteSet(r.rows[f])
    /\ \A f \in ToSet(Families) \ {"days"} : r.rows[f] \subseteq Nat
    /\ r.rows["days"] \subseteq Nat \X STRING
    /\ r.listed \subseteq STRING
    /\ \A a \in r.rows["alerts"] : r.tool[a] \in Nat

ASSUME ConnsAssumption ==
    /\ Conns \in Seq(ToSet(Conns)) /\ Len(Conns) # 0
    /\ \A i, j \in DOMAIN Conns : Conns[i] = Conns[j] => i = j     \* config refuses a name twice
ASSUME ByNameAssumption == ByName \in Seq(ToSet(Conns)) /\ ToSet(ByName) = ToSet(Conns)
ASSUME ScansAssumption ==
    \A rs \in Scans : DOMAIN rs = ToSet(Conns) /\ \A c \in ToSet(Conns) : Result(rs[c])
ASSUME CapsAssumption == MaxRows \in Nat /\ MaxTools \in Nat

VARIABLES
    results,    \* of the scan under way
    todo,       \* the lines of its burst still to log
    log,        \* those logged
    cut,        \* whether the process was told to stop
    lastStops,  \* of each connection, the reset of its last budget stop
    outcome,    \* of the scan, "none" while it runs
    warned      \* history: <<connection, reset>> of the budget stops logged WARN

vars == <<results, todo, log, cut, lastStops, outcome, warned>>

Never == -1
conns == ToSet(Conns)
Place(c) == CHOOSE i \in DOMAIN ByName : ByName[i] = c

-----------------------------------------------------------------------------
(* listedDays: the days stored of the repositories this scan listed.        *)
ListedDays(r) == {d[1] : d \in {e \in r.rows["days"] : e[2] \in r.listed}}
RowsOf(r, f) == IF f = "days" THEN ListedDays(r) ELSE r.rows[f]

(* Fault: a cap over the whole scan alone. *)
WithinScan(row, limit) == row.rank <= limit

(* within: inside a cap by rank or by forge_rank.                           *)
Within(row, limit) == row.rank <= limit \/ row.forgeRank <= limit

(* rank: every connection's rows of f in one order, ranked across the scan  *)
(* and within their product.  A stopped connection has none.                *)
Rank(rs, f) ==
    LET rows == UNION {{<<k, c>> : k \in RowsOf(rs[c], f)} : c \in {d \in conns : rs[d].stop = "none"}}
        first(a, b) == a[1] < b[1] \/ (a[1] = b[1] /\ Place(a[2]) <= Place(b[2]))
        place(x, among) == Cardinality({y \in among : first(y, x)})
    IN  {[kind |-> f, key |-> x[1], conn |-> x[2], rank |-> place(x, rows),
          forgeRank |-> place(x, {y \in rows : Product[y[2]] = Product[x[2]]})] : x \in rows}

InOrder(rows) == [n \in 1..Cardinality(rows) |->
    CHOOSE row \in rows : Cardinality({a \in rows : a.rank <= row.rank}) = n]
Cap(rows) == {row \in rows : Within(row, MaxRows)}
Listed(rs, f) == IF f \in Capped THEN Cap(Rank(rs, f)) ELSE Rank(rs, f)
Top(rs) == {[row EXCEPT !.kind = "top"] : row \in Cap(Rank(rs, "alerts"))}

(* lessTool: the tool with the most alerts first, then by name.             *)
ToolsOf(r) == {r.tool[a] : a \in r.rows["alerts"]}
ToolPlace(r, t) ==
    LET count(u) == Cardinality({a \in r.rows["alerts"] : r.tool[a] = u})
    IN  Cardinality({u \in ToolsOf(r) : count(u) > count(t) \/ (count(u) = count(t) /\ u <= t)})

(* tools: r's alerts per tool in that order, those past the cap as one.     *)
Tools(r) ==
    LET N == Cardinality(ToolsOf(r))
        alerts(ns) == Cardinality({a \in r.rows["alerts"] : ToolPlace(r, r.tool[a]) \in ns})
    IN  [i \in 1..Min({N, MaxTools + 1}) |-> alerts(IF i <= MaxTools THEN {i} ELSE i..N)]

ToolLines(rs, c) ==
    IF rs[c].stop # "none" THEN <<>>
    ELSE [i \in DOMAIN Tools(rs[c]) |->
            [kind |-> "tool", conn |-> c, rank |-> i, alerts |-> Tools(rs[c])[i]]]

(* completeAttrs: a count of each family but the slow workflows and the     *)
(* days, and of each capped family how many of its rows the burst lists.    *)
CompleteLine(rs, c) ==
    [kind |-> "complete", conn |-> c, degraded |-> rs[c].degraded,
     counts |-> [f \in ToSet(Families) \ {"slow", "days"} |-> Cardinality(RowsOf(rs[c], f))],
     listed |-> [f \in Capped |->
        Cardinality({row \in (IF f = "top" THEN Top(rs) ELSE Listed(rs, f)) : row.conn = c})]]

(* emitVerdict: scan stopped or scan complete, with scan degraded when the  *)
(* scan escalates.  A stop for any reason but the reserve does.             *)
Verdict(rs, c) ==
    LET r == rs[c]
        degraded == [kind |-> "degraded", conn |-> c]
    IN  IF r.stop = "none"
        THEN (IF r.escalates THEN <<degraded>> ELSE <<>>) \o <<CompleteLine(rs, c)>>
        ELSE <<[kind |-> "stopped", conn |-> c]>>
             \o (IF r.stop # "read_reserve" \/ r.escalates THEN <<degraded>> ELSE <<>>)

(* emitBurst: the lines of a scan, in the order they are logged.            *)
Lines(rs) ==
    FlattenSeq([i \in DOMAIN Families |-> InOrder(Listed(rs, Families[i]))])
    \o InOrder(Top(rs))
    \o FlattenSeq([i \in DOMAIN Conns |-> ToolLines(rs, Conns[i])])
    \o FlattenSeq([i \in DOMAIN Conns |-> Verdict(rs, Conns[i])])

-----------------------------------------------------------------------------
Init ==
    /\ results = <<>> /\ todo = <<>> /\ log = <<>>
    /\ cut = FALSE /\ outcome = "none"
    /\ lastStops = [c \in conns |-> Never]
    /\ warned = {}

(* Scan: its connections have read and saved.                               *)
Scan(rs) ==
    /\ results = <<>> /\ ~cut
    /\ results' = rs /\ todo' = Lines(rs) /\ log' = <<>>
    /\ UNCHANGED <<cut, lastStops, outcome, warned>>

(* Fault: verdicts that pass the emitter by. *)
EmittedVerdict(line) == ~cut \/ line.kind = "complete"

(* emitter.log: no line once the process is told to stop.                   *)
Emitted(line) == ~cut

Emit ==
    /\ todo # <<>> /\ Head(todo).kind # "stopped"
    /\ log' = IF Emitted(Head(todo)) THEN Append(log, Head(todo)) ELSE log
    /\ todo' = Tail(todo)
    /\ UNCHANGED <<results, cut, lastStops, outcome, warned>>

(* Fault: a stop at the limit remembered like a budget stop. *)
RemembersAll(stop) == TRUE

Remembers(stop) == stop # "scan_timeout"

(* emitStopped: WARN, and INFO when the last budget stop logged on the      *)
(* connection was of the same window.                                       *)
EmitStopped ==
    /\ todo # <<>> /\ Head(todo).kind = "stopped"
    /\ LET c == Head(todo).conn
           r == results[c]
           budgetStop == r.stop # "scan_timeout"
           level == IF budgetStop /\ r.reset # Unknown /\ lastStops[c] = r.reset THEN "INFO" ELSE "WARN"
           line == [kind |-> "stopped", conn |-> c, level |-> level]
       IN  /\ todo' = Tail(todo)
           /\ log' = IF Emitted(line) THEN Append(log, line) ELSE log
           /\ lastStops' = IF Emitted(line) /\ Remembers(r.stop)
                           THEN [lastStops EXCEPT ![c] = r.reset] ELSE lastStops
           /\ warned' = IF Emitted(line) /\ level = "WARN" /\ budgetStop
                        THEN warned \cup {<<c, r.reset>>} ELSE warned
    /\ UNCHANGED <<results, cut, outcome>>

(* Fault: a scan's outcome of its reads alone. *)
OutcomeOfReads(rs) ==
    IF \A c \in conns : rs[c].stop = "none" /\ ~rs[c].degraded THEN "complete" ELSE "incomplete"

OutcomeOf(rs) ==
    IF cut THEN "interrupted"
    ELSE IF \A c \in conns : rs[c].stop = "none" /\ ~rs[c].degraded THEN "complete"
    ELSE "incomplete"

(* The burst is over: the scan returns.                                     *)
Return ==
    /\ results # <<>> /\ todo = <<>> /\ outcome = "none"
    /\ outcome' = OutcomeOf(results)
    /\ UNCHANGED <<results, todo, log, cut, lastStops, warned>>

(* The loop waits for its next scan.                                        *)
NextScan ==
    /\ outcome # "none" /\ ~cut
    /\ results' = <<>> /\ log' = <<>> /\ outcome' = "none"
    /\ UNCHANGED <<todo, cut, lastStops, warned>>

Cut ==
    /\ ~cut
    /\ cut' = TRUE
    /\ UNCHANGED <<results, todo, log, lastStops, outcome, warned>>

(* The process ends, and another starts with nothing remembered.            *)
Restart ==
    /\ cut /\ (results = <<>> \/ outcome # "none")
    /\ results' = <<>> /\ log' = <<>> /\ outcome' = "none" /\ cut' = FALSE
    /\ lastStops' = [c \in conns |-> Never]
    /\ warned' = {}
    /\ UNCHANGED todo

Next ==
    \/ \E rs \in Scans : Scan(rs)
    \/ Emit \/ EmitStopped \/ Return \/ NextScan \/ Cut \/ Restart

Spec == Init /\ [][Next]_vars

-----------------------------------------------------------------------------
Logged(kind, c) == {i \in DOMAIN log : log[i].kind = kind /\ log[i].conn = c}

(* A scan complete line commits the burst: whenever the process is told to  *)
(* stop, a connection whose scan complete is in the log has there as many   *)
(* lines of each family as the line counts, and of a capped one as it lists;*)
(* its tools' lines, the rollup with them, add up to its alerts; and the    *)
(* days of the repositories it listed, which no line counts, are all there. *)
CompleteCommitsBurst == \A i \in DOMAIN log : log[i].kind = "complete" =>
    LET c == log[i].conn
    IN  /\ \A f \in ToSet(Families) \ (Capped \cup {"days"}) : Cardinality(Logged(f, c)) = log[i].counts[f]
        /\ Cardinality(Logged("days", c)) = Cardinality(ListedDays(results[c]))
        /\ \A f \in Capped : Cardinality(Logged(f, c)) = log[i].listed[f]
        /\ log[i].counts["alerts"] = Cardinality(UNION {{j} \X (1..log[j].alerts) : j \in Logged("tool", c)})

(* A table of a capped family holds the scan's first rows, and the same     *)
(* table of one product that product's first rows, each rank once.          *)
EachForgeFirstRows == outcome \in {"complete", "incomplete"} =>
    \A f \in Capped \ {"top"} :
        LET rows == {i \in DOMAIN log : log[i].kind = f}
            live == {c \in conns : results[c].stop = "none"}
            there(cs) == Cardinality(UNION {{<<k, c>> : k \in results[c].rows[f]} : c \in cs})
            first(cs) == 1..Min({MaxRows, there(cs)})
        IN  /\ \A n \in first(live) : Cardinality({i \in rows : log[i].rank = n}) = 1
            /\ \A p \in {Product[c] : c \in conns} :
                LET of == {c \in live : Product[c] = p}
                IN  \A n \in first(of) :
                        Cardinality({i \in rows : log[i].conn \in of /\ log[i].forgeRank = n}) = 1

(* The first budget stop logged of a budget window is WARN: one at INFO     *)
(* repeats a window this process warned of.                                 *)
InfoHasWarn == \A i \in DOMAIN log : log[i].kind = "stopped" /\ log[i].level = "INFO" =>
    <<log[i].conn, results[log[i].conn].reset>> \in warned

(* A trigger that exits 0 has logged a scan complete, not degraded, of      *)
(* every connection.                                                        *)
ExitZeroIsWhole == outcome = "complete" =>
    \A c \in conns : \E i \in Logged("complete", c) : ~log[i].degraded
=============================================================================
