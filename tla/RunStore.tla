------------------------------ MODULE RunStore ------------------------------
(***************************************************************************)
(* The run state store of internal/runstate: one directory, the processes  *)
(* that open it one after another (the daemon, `forge-scout trigger`), and *)
(* the Commit each connection's save makes in its own goroutine.           *)
(*                                                                         *)
(* A process takes the directory lock, loads the file, and then Commits    *)
(* run concurrently: each takes the right to write, applies its read to a  *)
(* copy of the state, hands the changed runs to be logged line by line,    *)
(* adopts the copy, and leaves the replacement of the file to a goroutine  *)
(* that outlives it when its context ends first.  Close may come at any    *)
(* time, a process may be killed at any step, and power may fail.          *)
(*                                                                         *)
(* Of a run only its newest logged update time is kept (RunHistory has the *)
(* rest); a read may return any update, an older one too.                  *)
(***************************************************************************)
EXTENDS AtLeastOnce

CONSTANTS
    Procs,      \* the processes that may use the directory
    Triggers,   \* those that are `forge-scout trigger`
    NoProc,     \* the directory is not locked
    Free        \* no Commit holds the right to write

ASSUME ProcsAssumption == NoProc \notin Procs /\ Triggers \subseteq Procs
ASSUME FreeAssumption == Free \notin Conns

VARIABLES
    lock,       \* the process that holds the directory
    phase,      \* per process: off, open, running, cut, stopping, closed
    mem,        \* per process: Store.st
    right,      \* per process: Store.writing, the Commit that holds it
    writer,     \* per process: the write goroutine
    data,       \* per process: the bytes that goroutine writes
    pc,         \* per process and connection: where its Commit is
    got,        \* ... the Read it was called with
    next,       \* ... the state it made of it, before adoption
    todo,       \* ... the changes not yet delivered
    expired     \* ... whether its context has ended

procVars == <<phase, mem>>
writeVars == <<right, writer, data>>
commitVars == <<pc, got, next, todo, expired>>
vars == <<log, file, durable, lock, procVars, writeVars, commitVars>>

Phases == {"off", "open", "running", "cut", "stopping", "closed"}
Writers == {"none", "started", "replaced"}
Results == {"ok", "notDurable", "failed"}
Steps == {"idle", "ask", "blocked", "record", "deliver", "writing"} \cup Results
Nothing == [r \in Runs |-> 0]

TypeOK ==
    /\ log \subseteq Conns \X Runs \X Versions
    /\ file \in State \cup {Corrupt}
    /\ durable \in State \cup {Corrupt}
    /\ lock \in Procs \cup {NoProc}
    /\ phase \in [Procs -> Phases]
    /\ mem \in [Procs -> State]
    /\ right \in [Procs -> Conns \cup {Free}]
    /\ writer \in [Procs -> Writers]
    /\ data \in [Procs -> State]
    /\ pc \in [Procs -> [Conns -> Steps]]
    /\ got \in [Procs -> [Conns -> [Runs -> Versions]]]
    /\ next \in [Procs -> [Conns -> State]]
    /\ todo \in [Procs -> [Conns -> SUBSET Runs]]
    /\ expired \in [Procs -> [Conns -> BOOLEAN]]

Init ==
    /\ AbsInit
    /\ lock = NoProc
    /\ phase = [p \in Procs |-> "off"]
    /\ mem = [p \in Procs |-> Empty]
    /\ right = [p \in Procs |-> Free]
    /\ writer = [p \in Procs |-> "none"]
    /\ data = [p \in Procs |-> Empty]
    /\ pc = [p \in Procs |-> [c \in Conns |-> "idle"]]
    /\ got = [p \in Procs |-> [c \in Conns |-> Nothing]]
    /\ next = [p \in Procs |-> [c \in Conns |-> Empty]]
    /\ todo = [p \in Procs |-> [c \in Conns |-> {}]]
    /\ expired = [p \in Procs |-> [c \in Conns |-> FALSE]]

-----------------------------------------------------------------------------
(* Helpers. *)

\* The lock once p lets go of it; unlock does nothing when p let go before.
Unlocked(p) == IF lock = p THEN NoProc ELSE lock

\* Fault: any difference counts as a change, an older reading too.
ChangedEitherWay(m, c, g) == {r \in Runs : m[c][r] # g[r] /\ g[r] # 0}

\* The changed runs of a read: those it holds newer than the state does.
Changed(m, c, g) == {r \in Runs : m[c][r] < g[r]}

\* The state once a read of c is recorded: an older reading changes nothing.
Apply(m, c, g) ==
    [m EXCEPT ![c] = [r \in Runs |-> IF r \in Changed(m, c, g) THEN g[r] ELSE m[c][r]]]

\* Fault: a write that outlives Close keeps the directory.
EndWriteKeepsLock(p) ==
    /\ right' = [right EXCEPT ![p] = Free]
    /\ UNCHANGED lock

\* endWrite gives up the right, and the directory once the store is closed.
EndWrite(p) ==
    /\ right' = [right EXCEPT ![p] = Free]
    /\ lock' = IF phase[p] = "closed" THEN Unlocked(p) ELSE lock

\* The Commit of c returns.
Leave(p, c) ==
    /\ pc' = [pc EXCEPT ![p][c] = "idle"]
    /\ got' = [got EXCEPT ![p][c] = Nothing]
    /\ next' = [next EXCEPT ![p][c] = Empty]
    /\ todo' = [todo EXCEPT ![p][c] = {}]
    /\ expired' = [expired EXCEPT ![p][c] = FALSE]

\* The Commit of c fails while it holds the right.
Fail(p, c) ==
    /\ EndWrite(p)
    /\ Leave(p, c)
    /\ UNCHANGED <<log, file, durable, procVars, writer, data>>

-----------------------------------------------------------------------------
(* The process. *)

\* Open refuses a directory another Store holds.
Open(p) ==
    /\ phase[p] = "off"
    /\ lock = NoProc
    /\ lock' = p
    /\ phase' = [phase EXCEPT ![p] = "open"]
    /\ UNCHANGED <<log, file, durable, mem, writeVars, commitVars>>

\* Fault: the file is adopted unchecked.
LoadUnchecked(p) ==
    /\ phase[p] = "open"
    /\ phase' = [phase EXCEPT ![p] = "running"]
    /\ mem' = [mem EXCEPT ![p] = file]
    /\ UNCHANGED <<log, file, durable, lock, writeVars, commitVars>>

\* Load adopts the file; one it cannot use is renamed aside, or stays when
\* the rename fails, and the state starts empty.  collector.New calls it
\* before any Commit, so the right to write it takes is always free.
Load(p) ==
    /\ phase[p] = "open"
    /\ phase' = [phase EXCEPT ![p] = "running"]
    /\ \/ file # Corrupt /\ mem' = [mem EXCEPT ![p] = file] /\ UNCHANGED file
       \/ file = Corrupt /\ file' \in {Empty, Corrupt} /\ UNCHANGED mem
    /\ UNCHANGED <<log, durable, lock, writeVars, commitVars>>

\* Load's context, which a stop signal ends, ended before the file was read:
\* the state stays empty and collector.New goes on.  RunLoop starts no scan
\* under an ended context; trigger calls Scan whatever the context.
LoadCut(p) ==
    /\ phase[p] = "open"
    /\ phase' = [phase EXCEPT ![p] = IF p \in Triggers THEN "cut" ELSE "stopping"]
    /\ UNCHANGED <<log, file, durable, lock, mem, writeVars, commitVars>>

\* Fault: Close does not look for a running write.
CloseAtOnce(p) ==
    /\ phase[p] \in {"running", "cut", "stopping"}
    /\ phase' = [phase EXCEPT ![p] = "closed"]
    /\ lock' = Unlocked(p)
    /\ UNCHANGED <<log, file, durable, mem, writeVars, commitVars>>

\* Close releases the directory unless a Commit holds the right to write;
\* that Commit's endWrite releases it then.
Close(p) ==
    /\ phase[p] \in {"running", "cut", "stopping"}
    /\ phase' = [phase EXCEPT ![p] = "closed"]
    /\ lock' = IF right[p] = Free THEN Unlocked(p) ELSE lock
    /\ UNCHANGED <<log, file, durable, mem, writeVars, commitVars>>

\* The process ends, after Close or killed at any step: its goroutines end
\* with it and the kernel drops its lock.
Exit(p) ==
    /\ phase[p] # "off"
    /\ phase' = [phase EXCEPT ![p] = "off"]
    /\ lock' = Unlocked(p)
    /\ mem' = [mem EXCEPT ![p] = Empty]
    /\ right' = [right EXCEPT ![p] = Free]
    /\ writer' = [writer EXCEPT ![p] = "none"]
    /\ data' = [data EXCEPT ![p] = Empty]
    /\ pc' = [pc EXCEPT ![p] = [c \in Conns |-> "idle"]]
    /\ got' = [got EXCEPT ![p] = [c \in Conns |-> Nothing]]
    /\ next' = [next EXCEPT ![p] = [c \in Conns |-> Empty]]
    /\ todo' = [todo EXCEPT ![p] = [c \in Conns |-> {}]]
    /\ expired' = [expired EXCEPT ![p] = [c \in Conns |-> FALSE]]
    /\ UNCHANGED <<log, file, durable>>

-----------------------------------------------------------------------------
(* The Commit of connection c in process p. *)

\* A save starts with whatever its scan read of the connection's runs, which
\* is nothing when the stop signal came first.
Commit(p, c) ==
    /\ pc[p][c] = "idle"
    /\ \/ /\ phase[p] = "running"
          /\ \E g \in [Runs -> Versions] : got' = [got EXCEPT ![p][c] = g]
       \/ phase[p] = "cut" /\ UNCHANGED got
    /\ pc' = [pc EXCEPT ![p][c] = "ask"]
    /\ UNCHANGED <<log, file, durable, lock, procVars, writeVars, next, todo, expired>>

\* The save's context ends: its limit, or the grace after a stop signal.
Expire(p, c) ==
    /\ pc[p][c] # "idle"
    /\ ~expired[p][c]
    /\ expired' = [expired EXCEPT ![p][c] = TRUE]
    /\ UNCHANGED <<log, file, durable, lock, procVars, writeVars, pc, got, next, todo>>

\* Fault: a Commit does not wait for the right.
TakeAlways(p, c) ==
    /\ pc[p][c] \in {"ask", "blocked"}
    /\ right' = [right EXCEPT ![p] = c]
    /\ pc' = [pc EXCEPT ![p][c] = "record"]
    /\ UNCHANGED <<log, file, durable, lock, procVars, writer, data, got, next, todo, expired>>

\* takeWrite takes a free right whether or not the context has ended.
Take(p, c) ==
    /\ pc[p][c] \in {"ask", "blocked"}
    /\ right[p] = Free
    /\ right' = [right EXCEPT ![p] = c]
    /\ pc' = [pc EXCEPT ![p][c] = "record"]
    /\ UNCHANGED <<log, file, durable, lock, procVars, writer, data, got, next, todo, expired>>

Block(p, c) ==
    /\ pc[p][c] = "ask"
    /\ right[p] # Free
    /\ pc' = [pc EXCEPT ![p][c] = "blocked"]
    /\ UNCHANGED <<log, file, durable, lock, procVars, writeVars, got, next, todo, expired>>

\* One that had to wait may give up once its context has ended.
GiveUp(p, c) ==
    /\ pc[p][c] = "blocked"
    /\ expired[p][c]
    /\ Leave(p, c)
    /\ UNCHANGED <<log, file, durable, lock, procVars, writeVars>>

\* record applies the read to a copy, unless the store is closed.
Record(p, c) ==
    /\ pc[p][c] = "record"
    /\ phase[p] # "closed"
    /\ next' = [next EXCEPT ![p][c] = Apply(mem[p], c, got[p][c])]
    /\ todo' = [todo EXCEPT ![p][c] = Changed(mem[p], c, got[p][c])]
    /\ got' = [got EXCEPT ![p][c] = Nothing]
    /\ pc' = [pc EXCEPT ![p][c] = "deliver"]
    /\ UNCHANGED <<log, file, durable, lock, procVars, writeVars, expired>>

RecordClosed(p, c) ==
    /\ pc[p][c] = "record"
    /\ phase[p] = "closed"
    /\ Fail(p, c)

\* emitRuns logs the next change; changes are in ID order here.
Deliver(p, c) ==
    /\ pc[p][c] = "deliver"
    /\ ~expired[p][c]
    /\ \E r \in todo[p][c] :
          /\ \A s \in todo[p][c] : r <= s
          /\ log' = log \cup {<<c, r, next[p][c][c][r]>>}
          /\ todo' = [todo EXCEPT ![p][c] = @ \ {r}]
    /\ UNCHANGED <<file, durable, lock, procVars, writeVars, pc, got, next, expired>>

\* Fault: a read whose delivery was cut is recorded all the same.
UndeliveredKept(p, c) ==
    /\ pc[p][c] = "deliver"
    /\ expired[p][c]
    /\ todo[p][c] # {}
    /\ mem' = [mem EXCEPT ![p] = next[p][c]]
    /\ EndWrite(p)
    /\ Leave(p, c)
    /\ UNCHANGED <<log, file, durable, phase, writer, data>>

\* The emitter refuses the next line once the context has ended: what was
\* logged stays logged, and nothing is recorded.
Undelivered(p, c) ==
    /\ pc[p][c] = "deliver"
    /\ expired[p][c]
    /\ todo[p][c] # {}
    /\ Fail(p, c)

\* Fault: the state is encoded before the copy is adopted.
AdoptEncodesFirst(p, c) ==
    /\ pc[p][c] = "deliver"
    /\ todo[p][c] = {}
    /\ phase[p] # "closed"
    /\ ~expired[p][c]
    /\ mem' = [mem EXCEPT ![p] = next[p][c]]
    /\ data' = [data EXCEPT ![p] = mem[p]]
    /\ writer' = [writer EXCEPT ![p] = "started"]
    /\ pc' = [pc EXCEPT ![p][c] = "writing"]
    /\ UNCHANGED <<log, file, durable, lock, phase, right, got, next, todo, expired>>

\* adopt makes the copy the state and encodes it; the goroutine starts.
Adopt(p, c) ==
    /\ pc[p][c] = "deliver"
    /\ todo[p][c] = {}
    /\ phase[p] # "closed"
    /\ ~expired[p][c]
    /\ mem' = [mem EXCEPT ![p] = next[p][c]]
    /\ data' = [data EXCEPT ![p] = next[p][c]]
    /\ writer' = [writer EXCEPT ![p] = "started"]
    /\ pc' = [pc EXCEPT ![p][c] = "writing"]
    /\ UNCHANGED <<log, file, durable, lock, phase, right, got, next, todo, expired>>

\* A context already ended starts no write; the state keeps the read.
AdoptOnly(p, c) ==
    /\ pc[p][c] = "deliver"
    /\ todo[p][c] = {}
    /\ phase[p] # "closed"
    /\ expired[p][c]
    /\ mem' = [mem EXCEPT ![p] = next[p][c]]
    /\ EndWrite(p)
    /\ Leave(p, c)
    /\ UNCHANGED <<log, file, durable, phase, writer, data>>

\* Closed while its lines were logged: it adopts nothing.
AdoptClosed(p, c) ==
    /\ pc[p][c] = "deliver"
    /\ todo[p][c] = {}
    /\ phase[p] = "closed"
    /\ Fail(p, c)

\* Fault: a Commit waits for its write whatever its context.
ReturnAfterWrite(p, c) ==
    /\ pc[p][c] \in Results
    /\ Leave(p, c)
    /\ UNCHANGED <<log, file, durable, lock, procVars, writeVars>>

\* The Commit returns: the write answered, or its context ended first.
Return(p, c) ==
    /\ \/ pc[p][c] \in Results
       \/ pc[p][c] = "writing" /\ expired[p][c]
    /\ Leave(p, c)
    /\ UNCHANGED <<log, file, durable, lock, procVars, writeVars>>

-----------------------------------------------------------------------------
(* The write goroutine of process p. *)

\* The write ends: endWrite, then the answer to a Commit that still waits.
WriteEnd(p, result) ==
    /\ writer' = [writer EXCEPT ![p] = "none"]
    /\ data' = [data EXCEPT ![p] = Empty]
    /\ EndWrite(p)
    /\ pc' = [pc EXCEPT ![p] = [c \in Conns |->
                IF c = right[p] /\ pc[p][c] = "writing" THEN result ELSE pc[p][c]]]
    /\ UNCHANGED <<log, procVars, got, next, todo, expired>>

\* The temp file is renamed over the state file.
WriteReplace(p) ==
    /\ writer[p] = "started"
    /\ file' = data[p]
    /\ writer' = [writer EXCEPT ![p] = "replaced"]
    /\ UNCHANGED <<log, durable, lock, procVars, right, data, commitVars>>

WriteFailed(p) ==
    /\ writer[p] = "started"
    /\ WriteEnd(p, "failed")
    /\ UNCHANGED <<file, durable>>

WriteSynced(p) ==
    /\ writer[p] = "replaced"
    /\ durable' = file
    /\ WriteEnd(p, "ok")
    /\ UNCHANGED file

\* Fault: a write that was not synced is answered as durable.
WriteUnsyncedOk(p) ==
    /\ writer[p] = "replaced"
    /\ WriteEnd(p, "ok")
    /\ UNCHANGED <<file, durable>>

\* The directory could not be synced: ErrNotDurable.
WriteUnsynced(p) ==
    /\ writer[p] = "replaced"
    /\ WriteEnd(p, "notDurable")
    /\ UNCHANGED <<file, durable>>

-----------------------------------------------------------------------------
(* The machine. *)

\* Every process dies and the directory is what was durable, or what was
\* visible when that had reached the disk by itself.
PowerLoss ==
    /\ phase' = [p \in Procs |-> "off"]
    /\ lock' = NoProc
    /\ mem' = [p \in Procs |-> Empty]
    /\ right' = [p \in Procs |-> Free]
    /\ writer' = [p \in Procs |-> "none"]
    /\ data' = [p \in Procs |-> Empty]
    /\ pc' = [p \in Procs |-> [c \in Conns |-> "idle"]]
    /\ got' = [p \in Procs |-> [c \in Conns |-> Nothing]]
    /\ next' = [p \in Procs |-> [c \in Conns |-> Empty]]
    /\ todo' = [p \in Procs |-> [c \in Conns |-> {}]]
    /\ expired' = [p \in Procs |-> [c \in Conns |-> FALSE]]
    /\ \/ file' = durable /\ UNCHANGED durable
       \/ durable' = file /\ UNCHANGED file
    /\ UNCHANGED log

\* A file damaged, or written in another format, while no process runs.
Damaged ==
    /\ \A p \in Procs : phase[p] = "off"
    /\ Damage
    /\ UNCHANGED <<lock, procVars, writeVars, commitVars>>

CommitStep(p, c) ==
    \/ Take(p, c)
    \/ Block(p, c)
    \/ GiveUp(p, c)
    \/ Record(p, c)
    \/ RecordClosed(p, c)
    \/ Deliver(p, c)
    \/ Undelivered(p, c)
    \/ Adopt(p, c)
    \/ AdoptOnly(p, c)
    \/ AdoptClosed(p, c)
    \/ Return(p, c)

WriteStep(p) ==
    \/ WriteReplace(p)
    \/ WriteFailed(p)
    \/ WriteSynced(p)
    \/ WriteUnsynced(p)

ProcStep(p) ==
    \/ Open(p)
    \/ Load(p)
    \/ LoadCut(p)
    \/ Close(p)
    \/ Exit(p)
    \/ WriteStep(p)
    \/ \E c \in Conns : Commit(p, c) \/ Expire(p, c) \/ CommitStep(p, c)

Next ==
    \/ \E p \in Procs : ProcStep(p)
    \/ PowerLoss
    \/ Damaged

Spec == Init /\ [][Next]_vars

\* A Commit's own steps and the end of its context (a connection's limit is
\* always set) are fair; a write may stall for ever.
StallSpec ==
    /\ Spec
    /\ \A p \in Procs, c \in Conns :
          WF_vars(CommitStep(p, c)) /\ WF_vars(Expire(p, c))

\* A write ends, one way or another.
WritesEnd == \A p \in Procs : WF_vars(WriteStep(p))

-----------------------------------------------------------------------------
(* Properties. *)

\* The state file, and what a power loss would leave of it, never holds an
\* update whose line was not logged: a save the context cuts between two
\* lines records nothing (Commit, emitRuns), so no crash can drop a line.
StoredWasLogged ==
    /\ file # Corrupt => Logged(file)
    /\ durable # Corrupt => Logged(durable)

\* A write goroutine runs only while its process holds the directory, however
\* Close, a stalled write and a Commit that already returned interleave: no
\* write lands on the file of the process that opens the directory next.
WriterHoldsDirectory == \A p \in Procs : writer[p] # "none" => lock = p

\* A Commit that answered without an error is past undoing: a power loss
\* leaves a state that holds its read, whatever the other connections' Commits
\* wrote or failed to write meanwhile.
SavedIsDurable ==
    \A p \in Procs, c \in Conns :
        pc[p][c] = "ok" => durable # Corrupt /\ Keeps(durable, next[p][c])

\* Two connections' Commits never undo each other in memory, though each
\* adopts a copy taken before its lines were logged.
MemoryNeverForgets ==
    [][\A p \in Procs :
        phase[p] \in {"running", "cut"} /\ phase'[p] # "off" => Keeps(mem'[p], mem[p])]_vars

\* A write that becomes durable stores every read the process recorded, those
\* of earlier Commits whose write failed or never ran included.
LaterWriteStoresEarlier ==
    [][\A p \in Procs, c \in Conns :
        pc[p][c] # "ok" /\ pc'[p][c] = "ok" => durable' # Corrupt /\ Keeps(durable', mem[p])]_vars

\* docs/how-it-works.md: the file survives a restart, so a restart does not
\* log the lookback window again.  Only a power loss takes the file back to
\* an earlier state, and only a file that cannot be used is given up.
RestartForgetsNothing ==
    [][file # Corrupt /\ file' # Corrupt /\ (\E p \in Procs : phase'[p] # "off")
        => Keeps(file', file)]_vars

\* Every Commit returns by the end of its context, even while its own write
\* or another connection's stalls for ever.
CommitReturns == \A p \in Procs, c \in Conns : pc[p][c] # "idle" ~> pc[p][c] = "idle"

\* A closed store gives the directory up once no write can still replace the
\* file: if its writes end, whatever its Commits were doing when it closed.
DirectoryReleased == WritesEnd => \A p \in Procs : phase[p] = "closed" ~> lock # p
=============================================================================
