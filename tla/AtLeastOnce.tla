----------------------------- MODULE AtLeastOnce -----------------------------
(***************************************************************************)
(* What the run state directory promises, with no process, lock, context,  *)
(* memory or goroutine in sight: run lines are announced, the newest       *)
(* announced update of each run is stored in one file, and only a power    *)
(* loss or a damaged file makes the directory forget.  docs/how-it-works.md *)
(* calls it "at least once": a line can repeat, none is dropped.           *)
(* RunStore is shown to implement it.                                      *)
(***************************************************************************)
EXTENDS Naturals

CONSTANTS
    Conns,      \* the configured connections
    Runs,       \* the runs a connection may list, by ID
    Versions,   \* the update times of a run; 0 is "none"
    Corrupt     \* a state file the store cannot use

ASSUME RunsAssumption == Runs \subseteq Nat
ASSUME VersionsAssumption == Versions \subseteq Nat /\ 0 \in Versions

\* The stored state: of each connection's runs, the newest update logged.
State == [Conns -> [Runs -> Versions]]
Empty == [c \in Conns |-> [r \in Runs |-> 0]]
ASSUME CorruptAssumption == Corrupt \notin State

VARIABLES
    log,        \* the run lines logged so far, <<connection, run, update>>
    file,       \* what a process would read from the state file now
    durable     \* what a power loss would leave in its place

absVars == <<log, file, durable>>

\* Nothing s records is newer in t: replacing t by s forgets no run.
Keeps(s, t) == \A c \in Conns, r \in Runs : t[c][r] <= s[c][r]

\* Every update s records was logged.
Logged(s) == \A c \in Conns, r \in Runs : s[c][r] # 0 => <<c, r, s[c][r]>> \in log

AbsInit ==
    /\ log = {}
    /\ file = Empty
    /\ durable = Empty

\* A line is logged only for an update the file does not hold yet.
Announce(c, r, v) ==
    /\ file # Corrupt => file[c][r] < v
    /\ log' = log \cup {<<c, r, v>>}
    /\ UNCHANGED <<file, durable>>

\* The file is replaced by a state that was logged whole and forgets nothing.
Store(s) ==
    /\ Logged(s)
    /\ file # Corrupt => Keeps(s, file)
    /\ file' = s
    /\ UNCHANGED <<log, durable>>

Sync == durable' = file /\ UNCHANGED <<log, file>>

Undo == file' = durable /\ UNCHANGED <<log, durable>>

Damage == file' = Corrupt /\ durable' = Corrupt /\ UNCHANGED log

SetAside == file = Corrupt /\ file' = Empty /\ UNCHANGED <<log, durable>>

AbsNext ==
    \/ \E c \in Conns, r \in Runs, v \in Versions : Announce(c, r, v)
    \/ \E s \in State : Store(s)
    \/ Sync
    \/ Undo
    \/ Damage
    \/ SetAside

AbsSpec == AbsInit /\ [][AbsNext]_absVars
=============================================================================
