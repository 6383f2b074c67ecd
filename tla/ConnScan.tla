------------------------------ MODULE ConnScan ------------------------------
(***************************************************************************)
(* One connection's scans (internal/collect/conn.go, collect.go): it opens,*)
(* reads the families step by step into its ledger (ReadLedger), saves,    *)
(* derives what it shows of the store, and publishes its rows and one line.*)
(* Each read is a listing of the forge (Walk) that may end anywhere, and   *)
(* the scan's context may end at any moment, at the connection's limit or  *)
(* with the process.                                                       *)
(*                                                                         *)
(* A repository has one open pull request and one open issue.              *)
(***************************************************************************)
EXTENDS Walk, ReadLedger, SequencesExt

CONSTANTS
    Owners,     \* the configured owners, a sequence
    Repos,      \* the repositories of the forge, a sequence in path order
    OwnedBy,    \* the repositories each owner lists
    Envs,       \* the conditions a scan may meet, of EnvType
    RepoPages,  \* what the pages of a repository listing may answer,
    ItemPages,  \* of an attempt at a snapshot,
    RunPages,   \* and of a run, alert or workflow listing
    MaxFaults   \* bound: the reads of a scan that do not end whole

(* The product, the operator's choices (code scanning on, repositories      *)
(* excluded), the forks, which the GitHub reads skip, and the repositories  *)
(* created after discovery.                                                 *)
EnvType == [product : {"github", "gitlab", "plain"}, security : BOOLEAN,
            excluded : SUBSET ToSet(Repos), forks : SUBSET ToSet(Repos), late : SUBSET ToSet(Repos)]

ASSUME EnvsAssumption == Envs \subseteq EnvType
ASSUME OwnedAssumption ==
    DOMAIN OwnedBy = ToSet(Owners) /\ \A o \in ToSet(Owners) : OwnedBy[o] \subseteq ToSet(Repos)
ASSUME NamesAssumption ==
    /\ Owners \in Seq(ToSet(Owners)) /\ Repos \in Seq(ToSet(Repos))
    /\ ToSet(Owners) \cap ToSet(Repos) = {}
ASSUME PagesAssumption == RepoPages \cup ItemPages \cup RunPages \subseteq Seq(Pages)
ASSUME MaxFaultsAssumption == MaxFaults \in Nat

VARIABLES
    env,        \* what this scan meets
    step,       \* the step under way, or how the scan ended
    todo,       \* the reads of the step still to make
    open,       \* whether the connection is open, over scans
    ctx,        \* "live", or how the context of its reads ended
    ledger,     \* the scan's ledger
    listed,     \* the repositories discovery answered
    byOwner,    \* of each owner, those it answered that are kept
    keptWhole,  \* connResult.keptWhole, or Unset
    rows,       \* the rows read, <<family, repository>>; "runs" is runLists
    dates,      \* of the run listings: "undated", "dated"
    faults,     \* bound: see MaxFaults
    whole       \* history: <<family, repository>> the forge answered whole,
                \* and <<"open", product>> an open of this scan

scan == <<listed, byOwner, keptWhole, rows, dates>>
vars == <<env, step, todo, open, ctx, ledger, scan, faults, whole>>

Unset == {"unset"}
ReadSteps == <<"discover", "snapshots", "runs", "checks", "github", "end">>
Ends == {"complete", "stopped", "interrupted"}

(* Fault: an excluded repository read like any other. *)
KeptAll == listed

(* keepRepos: what discovery answered, without what the operator excludes.  *)
kept == listed \ env.excluded
NoneFound == [o \in ToSet(Owners) |-> {}]

After(s) == ReadSteps[1 + CHOOSE i \in DOMAIN ReadSteps : ReadSteps[i] = s]

Fresh ==
    /\ step = "open" /\ todo = <<>> /\ ctx = "live"
    /\ ledger = NewLedger
    /\ listed = {} /\ byOwner = NoneFound /\ keptWhole = Unset /\ rows = {} /\ dates = {}
    /\ faults = 0 /\ whole = {}

Init == Fresh /\ open = FALSE /\ env \in Envs

-----------------------------------------------------------------------------
(* openFailure: nothing is read, unless the scan stopped or is ending.      *)
OpenFailure(l, err) ==
    IF err \in Stops THEN Stopped(l, "repos", err)
    ELSE IF ctx # "live" THEN l
    ELSE Flag(Record(l, "repos", err), {"connFailed"})

Faulty(end) ==
    IF end \in {"whole", "empty", "refused", "ended"} THEN UNCHANGED faults
    ELSE faults < MaxFaults /\ faults' = faults + 1

(* ensureOpen fails, before or after the product is known.                  *)
OpenFails(err, named) ==
    /\ step = "open" /\ ~open
    /\ err = "ended" => ctx # "live"
    /\ Faulty(err)
    /\ ledger' = OpenFailure(IF named THEN Classify(ledger, env.product, env.security) ELSE ledger, err)
    /\ step' = "unopened"
    /\ UNCHANGED <<env, todo, open, ctx, scan, whole>>

(* Opened, now or by an earlier scan, the connection arrives at its gate.   *)
Opens ==
    /\ step = "open"
    /\ open' = TRUE
    /\ ledger' = Classify(ledger, env.product, env.security)
    /\ step' = IF open THEN "reused" ELSE "opened"
    /\ UNCHANGED <<env, todo, ctx, scan, faults, whole>>

(* sharedAccount: an earlier connection reads the account.                  *)
SharesAccount ==
    /\ step \in {"reused", "opened"} /\ Faulty("connection")
    /\ open' = FALSE
    /\ ledger' = OpenFailure(ledger, "connection")
    /\ step' = "unopened"
    /\ UNCHANGED <<env, todo, ctx, scan, whole>>

(* The context ends while the connection waits at its gate.                 *)
GateCut ==
    /\ step \in {"reused", "opened"} /\ ctx # "live"
    /\ step' = "end"
    /\ UNCHANGED <<env, todo, open, ctx, ledger, scan, faults, whole>>

(* Its turn to read.  Only an open of this scan proves the token.           *)
StartReads ==
    /\ step \in {"reused", "opened"}
    /\ ledger' = Begin(IF step = "opened" THEN Flag(ledger, {"opened"}) ELSE ledger, {"repos"})
    /\ whole' = IF step = "opened" THEN {<<"open", env.product>>} ELSE {}
    /\ step' = "discover"
    /\ UNCHANGED <<env, todo, open, ctx, scan, faults>>

-----------------------------------------------------------------------------
(* A read that fails: it stops the scan, or the scan is ending, or it is    *)
(* one failed read more and l what the ledger makes of it.                  *)
Failed(f, err, l, rest) ==
    /\ IF err \in Stops THEN ledger' = Stopped(ledger, f, err)
       ELSE ledger' = IF ctx # "live" THEN ledger ELSE l
    /\ IF err \in Stops \/ ctx # "live"
       THEN step' = "end" /\ todo' = <<>>
       ELSE step' = (IF f = "repos" THEN "end" ELSE step) /\ todo' = rest

Allowed(err) ==
    /\ err = "ended" => ctx # "live"
    /\ (err = "refused") <=> ("refused" \in ledger.flags)

Discovering == step = "discover" /\ "repos" \notin ledger.done

DiscoveryFails(err) ==
    /\ Discovering
    /\ Faulty(err) /\ Allowed(err)
    /\ Failed("repos", err, Flag(Record(ledger, "repos", err), {"connFailed"}), <<>>)
    /\ UNCHANGED <<env, open, ctx, scan, whole>>

(* Fault: what was kept taken for all there is, with an owner unresolved. *)
KeepsUnresolved(cut, unresolved) == ~cut

(* keepWhole: what a complete discovery kept is all there is.               *)
KeepsWhole(cut, unresolved) == ~cut /\ unresolved = {}

(* discover: the owners answer ends, each with the repositories got.        *)
Discovers(ends, got) ==
    LET unresolved == {o \in DOMAIN ends : ends[o] = "unresolved"}
        cut == \E o \in DOMAIN ends : ends[o] = "cut"
        l1 == Record(ledger, "repos", IF cut THEN "cut" ELSE "whole")
        l2 == IF unresolved = {} THEN l1 ELSE [Drop(l1, "repos", "unresolved") EXCEPT !.unresolved = unresolved]
        l3 == IF unresolved = DOMAIN ends THEN Drop(l2, "repos", "noRepos") ELSE l2
        l4 == IF listed' \cap env.excluded = {} THEN l3 ELSE Drop(l3, "repos", "excludedRepo")
    IN  /\ listed' = UNION {got[o] : o \in DOMAIN ends}
        /\ byOwner' = [o \in DOMAIN ends |-> got[o] \ env.excluded]
        /\ keptWhole' = IF KeepsWhole(cut, unresolved) THEN listed' \ env.excluded ELSE Unset
        /\ ledger' = Finish(l4, {"repos"})
        /\ whole' = whole \cup {<<"repos", o>> : o \in {p \in DOMAIN ends : ends[p] = "whole"}}

(* What the forge may answer, owner by owner; a cut listing answers some.   *)
Discovered ==
    /\ Discovering
    /\ \E ends \in [ToSet(Owners) -> ({Listing(p) : p \in RepoPages} \cap {"whole", "cut"}) \cup {"unresolved"}],
          got \in [ToSet(Owners) -> SUBSET ToSet(Repos)] :
        /\ \A o \in ToSet(Owners) :
            /\ got[o] \subseteq OwnedBy[o] \ env.late
            /\ ends[o] = "whole" => got[o] = OwnedBy[o] \ env.late
            /\ ends[o] = "unresolved" => got[o] = {}
        /\ faults' = faults + Cardinality({o \in ToSet(Owners) : ends[o] # "whole"})
        /\ faults' <= MaxFaults
        /\ Discovers(ends, got)
    /\ UNCHANGED <<env, step, todo, open, ctx, rows, dates>>

-----------------------------------------------------------------------------
(* The reads of a step: their families, and each with what it lists.        *)
Among(s, S) == FlattenSeq([i \in DOMAIN s |-> IF s[i] \in S THEN <<s[i]>> ELSE <<>>])
Kept == Among(Repos, kept)
ReadsChecks(l) == "checks" \notin l.unsupported /\ ~Withheld(l, "prs")

Reading(s, l) ==
    CASE s = "snapshots" -> {"prs", "issues"}
      [] s = "runs" -> {"runs"}
      [] s = "checks" /\ ReadsChecks(l) -> {"checks"}
      [] s = "github" /\ env.product = "github" -> {"workflows"} \cup (IF env.security THEN {"security"} ELSE {})
      [] OTHER -> {}

ReadsOf(s, l) ==
    LET each(over, fs) == FlattenSeq([i \in DOMAIN over |-> [j \in DOMAIN fs |-> <<fs[j], over[i]>>]])
    IN  CASE s = "snapshots" -> each(Among(Owners, ToSet(Owners) \ l.unresolved), <<"prs", "issues">>)
          [] s = "runs" -> each(Kept, <<"runs">>)
          [] s = "checks" /\ ReadsChecks(l) -> each(Among(Repos, {r[2] : r \in {q \in rows : q[1] = "prs"}}), <<"checks">>)
          [] s = "github" /\ env.product = "github" ->
                each(Kept, IF env.security THEN <<"security", "workflows">> ELSE <<"workflows">>)
          [] OTHER -> <<>>

(* settleUndated: with no dated row beside them, undated run listings say   *)
(* the product has no run signals; else they are failed reads.              *)
Settled(l) ==
    IF "undated" \notin dates THEN l
    ELSE IF "dated" \in dates THEN Record(l, "runs", "failed")
    ELSE Unsupport(l, {"runs", "failing"})

(* The step is over, and the next begins, unless no owner resolved.         *)
NextStep ==
    /\ step \in {"snapshots", "runs", "checks", "github"} \/ (step = "discover" /\ ~Discovering)
    /\ todo = <<>>
    /\ LET l == Finish(IF step = "runs" THEN Settled(ledger) ELSE ledger, Reading(step, ledger))
       IN  IF Dropped(l, "repos", {"noRepos"})
           THEN step' = "end" /\ ledger' = l /\ UNCHANGED todo
           ELSE /\ step' = After(step)
                /\ ledger' = Begin(l, Reading(After(step), l))
                /\ todo' = ReadsOf(After(step), l)
    /\ UNCHANGED <<env, open, ctx, scan, faults, whole>>

(* What a listing may answer: how it ends for its reader, and whether the   *)
(* forge had it whole.                                                      *)
Attempts(a, b) == [end |-> Snapshot(<<a, b>>), all |-> AllRead(a) \/ (Walk(a) = "partial" /\ AllRead(b))]
OfSnapshots == {Attempts(a, b) : a \in ItemPages, b \in ItemPages}
OfChecks == {[end |-> Listing(<<p>>), all |-> p = "last"] : p \in {"last", "cut"} \cup Errors}
OfListings == {[end |-> Listing(p), all |-> AllRead(p)] : p \in RunPages}

Answers(f, owner) ==
    CASE f \in {"prs", "issues"} ->
            OfSnapshots \cup (IF owner THEN {[end |-> "unresolved", all |-> FALSE]} ELSE {})
      [] f = "checks" ->
            OfChecks \cup {[end |-> "noHead", all |-> FALSE], [end |-> "tokenUnsupported", all |-> TRUE]}
      [] OTHER ->
            OfListings
            \cup (IF f = "runs" THEN {[end |-> "empty", all |-> TRUE]} ELSE {})
            \cup (IF f = "runs" /\ env.product = "plain" THEN {[end |-> "undated", all |-> FALSE]} ELSE {})
            \cup (IF f = "security" THEN {[end |-> "none", all |-> TRUE]} ELSE {})

IsOwner(u) == u[2] \in ToSet(Owners)
Lists(u) == IF IsOwner(u) THEN OwnedBy[u[2]] ELSE {u[2]}

(* Once a snapshot family is blind its owners are read no further, and the  *)
(* GitHub reads pass the forks by.                                          *)
Skips(u) ==
    \/ IsOwner(u) /\ Blind(ledger, u[1])
    \/ u[1] \in {"security", "workflows"} /\ u[2] \in env.forks

Skip ==
    /\ todo # <<>> /\ Skips(Head(todo))
    /\ ledger' = IF IsOwner(Head(todo)) THEN ledger ELSE Drop(ledger, Head(todo)[1], "skipped")
    /\ todo' = Tail(todo)
    /\ UNCHANGED <<env, step, open, ctx, scan, faults, whole>>

(* inKept: an item of a repository discovery dropped is excluded with it,   *)
(* one of a repository discovery did not answer leaves the family short.    *)
Items(l, f, xs) ==
    LET l1 == IF xs \cap listed \cap env.excluded = {} THEN l ELSE Drop(l, f, "excludedRepo")
    IN  IF xs \subseteq listed THEN l1 ELSE Drop(l1, f, "unlisted")

(* A read that returns: its rows, whole or cut, and what the ledger notes.  *)
(* Its rows date a run listing: one cut short may have none.                *)
Returns(u, a) ==
    LET f == u[1]
        end == IF a.end = "empty" THEN "whole" ELSE a.end
        got == IF a.end \in {"whole", "cut"} THEN Lists(u) ELSE {}
    IN  /\ ledger' = IF a.end \in {"noHead", "tokenUnsupported"} THEN Drop(ledger, f, a.end)
                     ELSE IF f \in {"prs", "issues"} THEN Items(Record(ledger, f, end), f, got)
                     ELSE Record(ledger, f, end)
        /\ rows' = rows \cup IF f = "checks" THEN {} ELSE {<<f, x>> : x \in got \cap kept}
        /\ dates' \in (IF f = "runs" /\ got # {} THEN {dates \cup {"dated"}} ELSE {dates})
                      \cup (IF a.end = "cut" THEN {dates} ELSE {})
        /\ todo' = Tail(todo)

(* The owner-wide listing does not resolve the owner: repository by         *)
(* repository instead, of those discovery answered for this owner.          *)
FallsBack(u) ==
    LET own == Among(Repos, byOwner[u[2]])
    IN  todo' = [i \in DOMAIN own |-> <<u[1], own[i]>>] \o Tail(todo)

(* snapshotFailure: the owner's snapshot is not whole, so none is.          *)
ReadFails(u, err) ==
    LET f == u[1]
        l == Record(ledger, f, err)
    IN  IF f \in {"prs", "issues"}
        THEN Failed(f, err, Drop(l, f, "ownerFailed"),
                    Among(Tail(todo), {v \in ToSet(todo) : v[1] # f \/ IsOwner(v)}))
        ELSE Failed(f, err, l, Tail(todo))

Failures == Errors \cup {"refused", "ended"}

Read ==
    /\ todo # <<>> /\ ~Skips(Head(todo))
    /\ LET u == Head(todo)
       IN  \E a \in Answers(u[1], IsOwner(u)) \cup {[end |-> e, all |-> FALSE] : e \in {"refused", "ended"}} :
            /\ Faulty(a.end) /\ Allowed(a.end)
            /\ whole' = whole \cup IF a.all THEN {<<u[1], x>> : x \in Lists(u)} ELSE {}
            /\ CASE a.end \in Failures -> ReadFails(u, a.end) /\ UNCHANGED <<rows, dates>>
                 [] a.end = "unresolved" -> FallsBack(u) /\ UNCHANGED <<step, ledger, rows, dates>>
                 [] a.end = "undated" ->
                        /\ todo' = Tail(todo) /\ dates' = dates \cup {"undated"}
                        /\ UNCHANGED <<step, ledger, rows>>
                 [] OTHER -> Returns(u, a) /\ UNCHANGED step
    /\ UNCHANGED <<env, open, ctx, listed, byOwner, keptWhole>>

-----------------------------------------------------------------------------
(* approve: a family withheld contributes no row.                           *)
Approve(l, rs) == {r \in rs : r[1] = "runs" \/ ~Withheld(l, r[1])}

(* The reads are over: scanConn finds the limit past, and approves.         *)
EndReads ==
    /\ step \in {"end", "unopened"}
    /\ ledger' = IF ledger.stop = "none" /\ ctx = "limit"
                 THEN Halt(Flag(ledger, {"timedOut"}), "scan_timeout") ELSE ledger
    /\ rows' = IF step = "end" THEN Approve(ledger', rows) ELSE rows
    /\ step' = "save"
    /\ UNCHANGED <<env, todo, open, ctx, listed, byOwner, keptWhole, dates, faults, whole>>

(* save: stored, written but not synced, or not written, at the limit or    *)
(* before it.                                                               *)
Save(answer) ==
    LET l == Begin(ledger, {"state"})
        l1 == CASE answer = "stored" -> l
                [] answer = "notDurable" -> Drop(l, "state", "notDurable")
                [] OTHER -> Drop(l, "state", "unwritable")
    IN  /\ step = "save"
        /\ answer = "stored" \/ faults < MaxFaults
        /\ faults' = IF answer = "stored" THEN faults ELSE faults + 1
        /\ ledger' = Finish(IF answer = "cut" /\ l.stop = "none"
                            THEN Halt(Flag(l1, {"timedOut"}), "scan_timeout") ELSE l1, {"state"})
        /\ step' = "saved"
        /\ UNCHANGED <<env, todo, open, ctx, scan, whole>>

(* derive: the failing workflows of the repositories whose runs were listed.*)
Derive(l) ==
    IF "runs" \notin l.begun \/ "runs" \in l.unsupported THEN l
    ELSE IF Blind(l, "runs") THEN Drop(l, "failing", "sourceBlind")
    ELSE Finish(Begin(l, {"failing"}), {"failing"})

(* The burst: nothing once the process is stopping, or a stopped scan's     *)
(* line, or the rows and the scan complete that commits them.               *)
Publish ==
    /\ step = "saved"
    /\ ledger' = IF ledger.stop = "none" THEN Derive(ledger) ELSE ledger
    /\ step' = IF ctx = "shutdown" THEN "interrupted"
               ELSE IF ledger.stop = "none" THEN "complete" ELSE "stopped"
    /\ UNCHANGED <<env, todo, open, ctx, scan, faults, whole>>

(* The next scan, in what the operator configured.                          *)
NextScan ==
    /\ step \in Ends
    /\ step' = "open" /\ todo' = <<>> /\ ctx' = "live" /\ ledger' = NewLedger
    /\ listed' = {} /\ byOwner' = NoneFound /\ keptWhole' = Unset /\ rows' = {} /\ dates' = {}
    /\ faults' = 0 /\ whole' = {}
    /\ env' \in {e \in Envs : e.product = env.product /\ e.security = env.security /\ e.excluded = env.excluded}
    /\ UNCHANGED open

(* The limit of the reads passes, or the process is told to stop.           *)
CtxEnds(how) ==
    /\ ctx = "live" /\ step \notin Ends
    /\ how = "limit" => step \notin {"save", "saved"}
    /\ ctx' = how
    /\ UNCHANGED <<env, step, todo, open, ledger, scan, faults, whole>>

Next ==
    \/ \E err \in Errors \cup {"connection", "ended"}, named \in BOOLEAN : OpenFails(err, named)
    \/ Opens \/ SharesAccount \/ GateCut \/ StartReads
    \/ \E err \in Failures : DiscoveryFails(err)
    \/ Discovered \/ NextStep \/ Skip \/ Read
    \/ EndReads
    \/ \E answer \in {"stored", "notDurable", "failed", "cut"} : Save(answer)
    \/ Publish \/ NextScan
    \/ \E how \in {"limit", "shutdown"} : CtxEnds(how)

Spec == Init /\ [][Next]_vars

-----------------------------------------------------------------------------
(* Every variable has its type, and the rows are of kept repositories.      *)
TypeOK ==
    /\ env \in Envs
    /\ step \in ToSet(ReadSteps) \cup Ends \cup {"open", "unopened", "opened", "reused", "save", "saved"}
    /\ todo \in Seq(Families \X (ToSet(Owners) \cup ToSet(Repos)))
    /\ open \in BOOLEAN
    /\ ctx \in {"live", "limit", "shutdown"}
    /\ ledger \in Ledgers(ToSet(Owners))
    /\ rows \subseteq Families \X (listed \ env.excluded)
    /\ byOwner \in [ToSet(Owners) -> SUBSET ToSet(Repos)]
    /\ keptWhole \in {Unset} \cup SUBSET ToSet(Repos)
    /\ dates \subseteq {"undated", "dated"}
    /\ faults \in 0..MaxFaults

Live == (UNION {OwnedBy[o] : o \in ToSet(Owners)}) \ env.late
Wanted(f) ==
    CASE f = "repos" -> {<<f, o>> : o \in ToSet(Owners)}
      [] f = "checks" -> {<<f, x>> : x \in {r[2] : r \in {q \in rows : q[1] = "prs"}}}
      [] f \in {"security", "workflows"} -> {<<f, x>> : x \in (Live \ env.excluded) \ env.forks}
      [] f = "failing" -> {<<"runs", x>> : x \in Live \ env.excluded}
      [] f = "state" -> {}
      [] OTHER -> {<<f, x>> : x \in Live \ env.excluded}

(* A family a scan's line calls complete was read whole: every listing it   *)
(* wanted, of every repository of every owner, was answered to its end,     *)
(* whatever failed, stopped or was cut elsewhere in the scan.               *)
CompleteIsWhole == step \in {"complete", "stopped"} =>
    \A f \in Families : State(ledger)[f] = "complete" => Wanted(f) \subseteq whole

(* Open pull requests and issues are published of every repository of the   *)
(* owners resolved, or of none: a smaller set would read as items closed.   *)
SnapshotsAreWhole == step = "complete" =>
    \A f \in {"prs", "issues"} :
        \/ {r \in rows : r[1] = f} = {}
        \/ \A o \in ToSet(Owners) \ ledger.unresolved :
              {<<f, x>> : x \in (OwnedBy[o] \ env.late) \ env.excluded} \subseteq rows \cap whole

(* A scan complete line that is not a whole scan's says so: its degraded    *)
(* field is the Incomplete that fails a trigger.                            *)
DegradedIsIncomplete == step = "complete" => (Degraded(ledger) <=> ~Complete(ledger))

(* What scan degraded says of its cause is so, where it speaks of what the  *)
(* scan read; the other causes repeat one drop or flag of the ledger.       *)
CauseIsSo == step \in {"complete", "stopped"} /\ Escalates(ledger) =>
    CASE Cause(ledger) = "token_invalid" -> whole = {}
      [] Cause(ledger) \in {"connection_failed", "no_repos_visible"} -> \A w \in whole : w[1] = "open"
      [] Cause(ledger) \in {"scan_timeout", "rate_limited"} -> step = "stopped"
      [] Cause(ledger) = "code_scanning_blind" -> \A x \in kept : <<"security", x>> \notin rows
      [] Cause(ledger) = "runs_blind" -> \A x \in kept : <<"runs", x>> \notin rows
      [] Cause(ledger) = "signal_blind" -> \E f \in {"prs", "issues"} : \A x \in kept : <<f, x>> \notin rows
      [] OTHER -> TRUE

(* The repositories the save keeps the runs of, when it drops the others',  *)
(* are all that are there: none is forgotten for an owner that did not      *)
(* answer or a listing cut short.                                           *)
KeptIsWhole == keptWhole # Unset => Live \ env.excluded \subseteq keptWhole
=============================================================================
