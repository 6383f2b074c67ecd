--------------------------- MODULE RunStoreProofs ---------------------------
(***************************************************************************)
(* What holds of RunStore for any processes, connections, runs and update  *)
(* times: its types, that nothing is stored unlogged, that only the holder *)
(* of the directory writes, that Commits never undo each other, and when   *)
(* an answered Commit is past undoing.                                     *)
(***************************************************************************)
EXTENDS RunStore, TLAPS

(* A copy under delivery holds nothing but what was logged and what is still
   to be delivered. *)
CopiesLogged ==
    \A p \in Procs, c \in Conns : pc[p][c] = "deliver" =>
        \A d \in Conns, r \in Runs :
            \/ next[p][c][d][r] = 0
            \/ <<d, r, next[p][c][d][r]>> \in log
            \/ d = c /\ r \in todo[p][c]

(* Inductive strengthening of StoredWasLogged: everything on its way to the
   file was logged too. *)
LoggedInv ==
    /\ StoredWasLogged
    /\ \A p \in Procs : Logged(mem[p]) /\ Logged(data[p])
    /\ CopiesLogged

(* Inductive strengthening of WriterHoldsDirectory: who holds the directory,
   and that the right to write is the writer's or of one Commit's. *)
DirectoryInv ==
    \A p \in Procs :
        /\ phase[p] \in {"open", "running", "cut", "stopping"} => lock = p
        /\ writer[p] # "none" => lock = p /\ right[p] # Free
        /\ \A c \in Conns :
              /\ pc[p][c] # "idle" => phase[p] \in {"running", "cut", "closed"}
              /\ pc[p][c] \in {"record", "deliver"} => right[p] = c /\ writer[p] = "none"
              /\ pc[p][c] = "deliver" => lock = p

-----------------------------------------------------------------------------
(* What the helpers return. *)

LEMMA EmptyState == Empty \in State /\ Nothing \in [Runs -> Versions]
  BY VersionsAssumption DEF Empty, Nothing, State

LEMMA EmptyLogged == Logged(Empty)
  BY DEF Logged, Empty

(* Apply keeps the shape of the state. *)
LEMMA ApplyType ==
  ASSUME NEW m \in State, NEW c \in Conns, NEW g \in [Runs -> Versions]
  PROVE  Apply(m, c, g) \in State
  BY DEF Apply, State, Changed

(* What Apply adds to a logged state is the changed runs of the read. *)
LEMMA ApplyChanges ==
  ASSUME NEW m \in State, NEW c \in Conns, NEW g \in [Runs -> Versions], Logged(m),
         NEW d \in Conns, NEW r \in Runs
  PROVE  \/ Apply(m, c, g)[d][r] = 0
         \/ <<d, r, Apply(m, c, g)[d][r]>> \in log
         \/ d = c /\ r \in Changed(m, c, g)
  BY DEF Apply, State, Changed, Logged

-----------------------------------------------------------------------------
(* Types. *)

(* A Commit that returns leaves well-typed bookkeeping behind. *)
LEMMA LeaveType ==
  ASSUME TypeOK, NEW p \in Procs, NEW c \in Conns, Leave(p, c)
  PROVE  /\ pc' \in [Procs -> [Conns -> Steps]]
         /\ got' \in [Procs -> [Conns -> [Runs -> Versions]]]
         /\ next' \in [Procs -> [Conns -> State]]
         /\ todo' \in [Procs -> [Conns -> SUBSET Runs]]
         /\ expired' \in [Procs -> [Conns -> BOOLEAN]]
  BY EmptyState DEF TypeOK, Leave, Steps

LEMMA EndWriteType ==
  ASSUME TypeOK, NEW p \in Procs, EndWrite(p)
  PROVE  /\ right' \in [Procs -> Conns \cup {Free}]
         /\ lock' \in Procs \cup {NoProc}
  BY DEF TypeOK, EndWrite, Unlocked

LEMMA WriteEndType ==
  ASSUME TypeOK, NEW p \in Procs, NEW result \in Results, WriteEnd(p, result)
  PROVE  /\ writer' \in [Procs -> Writers]
         /\ data' \in [Procs -> State]
         /\ pc' \in [Procs -> [Conns -> Steps]]
  BY EmptyState DEF TypeOK, WriteEnd, Steps, Writers

(* Every variable keeps its type: in particular no process's state, copy or
   bytes to write is ever a damaged file (Store.Load, Store.Commit). *)
THEOREM TypeCorrect == Spec => []TypeOK
<1>1. Init => TypeOK
  BY EmptyState DEF Init, AbsInit, TypeOK, Phases, Writers, Steps
<1>2. ASSUME TypeOK, [Next]_vars
      PROVE  TypeOK'
  <2> USE <1>2 DEF procVars, writeVars, commitVars
  <2>1. ASSUME NEW p \in Procs, Open(p) \/ Load(p) \/ LoadCut(p) \/ Close(p)
        PROVE  TypeOK'
    <3>1. CASE Open(p)
      BY <3>1 DEF TypeOK, Open, Phases
    <3>2. CASE Load(p)
      BY <3>2, EmptyState DEF TypeOK, Load, Phases
    <3>3. CASE LoadCut(p)
      BY <3>3 DEF TypeOK, LoadCut, Phases
    <3>4. CASE Close(p)
      BY <3>4 DEF TypeOK, Close, Phases, Unlocked
    <3>5. QED
      BY <2>1, <3>1, <3>2, <3>3, <3>4
  <2>2. ASSUME NEW p \in Procs, Exit(p)
        PROVE  TypeOK'
    BY <2>2, EmptyState DEF TypeOK, Exit, Unlocked, Phases, Writers, Steps
  <2>3. ASSUME NEW p \in Procs, NEW c \in Conns, Commit(p, c) \/ Expire(p, c)
        PROVE  TypeOK'
    <3>1. CASE Commit(p, c)
      <4>1. got' \in [Procs -> [Conns -> [Runs -> Versions]]]
        <5>1. CASE UNCHANGED got
          BY <5>1 DEF TypeOK
        <5>2. ASSUME NEW g \in [Runs -> Versions], got' = [got EXCEPT ![p][c] = g]
              PROVE  got' \in [Procs -> [Conns -> [Runs -> Versions]]]
          BY <5>2 DEF TypeOK
        <5>3. QED
          BY <3>1, <5>1, <5>2 DEF Commit
      <4>2. pc' \in [Procs -> [Conns -> Steps]]
        BY <3>1 DEF TypeOK, Commit, Steps
      <4>3. QED
        BY <3>1, <4>1, <4>2 DEF TypeOK, Commit
    <3>2. CASE Expire(p, c)
      BY <3>2 DEF TypeOK, Expire
    <3>3. QED
      BY <2>3, <3>1, <3>2
  <2>4. ASSUME NEW p \in Procs, NEW c \in Conns, CommitStep(p, c)
        PROVE  TypeOK'
    <3>1. CASE Take(p, c) \/ Block(p, c)
      <4>1. pc' \in [Procs -> [Conns -> Steps]]
        <5>1. CASE Take(p, c)
          BY <5>1 DEF TypeOK, Take, Steps
        <5>2. CASE Block(p, c)
          BY <5>2 DEF TypeOK, Block, Steps
        <5>3. QED
          BY <3>1, <5>1, <5>2
      <4>2. right' \in [Procs -> Conns \cup {Free}]
        BY <3>1 DEF TypeOK, Take, Block
      <4>3. QED
        BY <3>1, <4>1, <4>2 DEF TypeOK, Take, Block
    <3>2. CASE GiveUp(p, c) \/ Return(p, c)
      BY <3>2, LeaveType DEF TypeOK, GiveUp, Return
    <3>3. CASE Record(p, c)
      <4>1. Apply(mem[p], c, got[p][c]) \in State /\ Changed(mem[p], c, got[p][c]) \subseteq Runs
        BY ApplyType DEF TypeOK, Changed
      <4>2. QED
        BY <3>3, <4>1, EmptyState DEF TypeOK, Record, Steps
    <3>4. CASE RecordClosed(p, c) \/ Undelivered(p, c) \/ AdoptClosed(p, c)
      BY <3>4, LeaveType, EndWriteType DEF TypeOK, RecordClosed, Undelivered, AdoptClosed, Fail
    <3>5. CASE Deliver(p, c)
      <4>1. PICK r \in todo[p][c] :
               /\ log' = log \cup {<<c, r, next[p][c][c][r]>>}
               /\ todo' = [todo EXCEPT ![p][c] = @ \ {r}]
        BY <3>5 DEF Deliver
      <4>2. r \in Runs /\ next[p][c][c][r] \in Versions
        BY DEF TypeOK, State
      <4>3. QED
        BY <3>5, <4>1, <4>2 DEF TypeOK, Deliver
    <3>6. CASE Adopt(p, c)
      BY <3>6 DEF TypeOK, Adopt, Steps, Writers
    <3>7. CASE AdoptOnly(p, c)
      BY <3>7, LeaveType, EndWriteType DEF TypeOK, AdoptOnly
    <3>8. QED
      BY <2>4, <3>1, <3>2, <3>3, <3>4, <3>5, <3>6, <3>7 DEF CommitStep
  <2>5. ASSUME NEW p \in Procs, WriteStep(p)
        PROVE  TypeOK'
    <3>1. CASE WriteReplace(p)
      BY <3>1 DEF TypeOK, WriteReplace, Writers
    <3>2. CASE WriteFailed(p) \/ WriteSynced(p) \/ WriteUnsynced(p)
      <4>1. PICK result \in Results : WriteEnd(p, result) /\ file' = file /\ durable' \in {durable, file}
        BY <3>2 DEF WriteFailed, WriteSynced, WriteUnsynced, Results
      <4>2. EndWrite(p) /\ UNCHANGED <<log, phase, mem, got, next, todo, expired>>
        BY <4>1 DEF WriteEnd
      <4>3. QED
        BY <4>1, <4>2, WriteEndType, EndWriteType DEF TypeOK
    <3>3. QED
      BY <2>5, <3>1, <3>2 DEF WriteStep
  <2>6. CASE PowerLoss
    BY <2>6, EmptyState DEF TypeOK, PowerLoss, Phases, Writers, Steps
  <2>7. CASE Damaged
    BY <2>7 DEF TypeOK, Damaged, Damage
  <2>8. CASE UNCHANGED vars
    BY <2>8 DEF TypeOK, vars
  <2>9. QED
    BY <2>1, <2>2, <2>3, <2>4, <2>5, <2>6, <2>7, <2>8 DEF Next, ProcStep
<1>3. QED
  BY <1>1, <1>2, PTL DEF Spec

-----------------------------------------------------------------------------
(* Nothing is stored unlogged. *)

(* A Commit that returns leaves the other Commits' copies alone. *)
LEMMA LeaveKeepsCopies ==
  ASSUME TypeOK, CopiesLogged, NEW p \in Procs, NEW c \in Conns, Leave(p, c), log' = log
  PROVE  CopiesLogged'
  BY DEF TypeOK, CopiesLogged, Leave

LEMMA WriteEndKeepsCopies ==
  ASSUME TypeOK, CopiesLogged, NEW p \in Procs, NEW result \in Results, WriteEnd(p, result)
  PROVE  CopiesLogged'
  BY DEF TypeOK, CopiesLogged, WriteEnd, Results

(* So does one that moves on to anything but delivery. *)
LEMMA MoveKeepsCopies ==
  ASSUME TypeOK, CopiesLogged, NEW p \in Procs, NEW c \in Conns, NEW s \in Steps \ {"deliver"},
         pc' = [pc EXCEPT ![p][c] = s], UNCHANGED <<log, next, todo>>
  PROVE  CopiesLogged'
<1>1. ASSUME NEW q \in Procs, NEW d \in Conns, pc'[q][d] = "deliver"
      PROVE  pc[q][d] = "deliver"
  BY <1>1 DEF TypeOK
<1>2. QED
  BY <1>1 DEF CopiesLogged

(* What memory, the copies under delivery and the bytes to write hold was
   logged, or is still to be (Commit, record, adopt). *)
LEMMA LoggedHolds == Spec => []LoggedInv
<1>1. Init => LoggedInv
  <2>1. ASSUME Init
        PROVE  Logged(Empty) /\ CopiesLogged
    BY <2>1, EmptyLogged DEF Init, CopiesLogged
  <2>2. QED
    BY <2>1, EmptyLogged DEF Init, AbsInit, LoggedInv, StoredWasLogged
<1>2. ASSUME TypeOK, LoggedInv, [Next]_vars
      PROVE  LoggedInv'
  <2> USE <1>2 DEF procVars, writeVars, commitVars
  <2> DEFINE Held(s) == s # Corrupt => Logged(s)
  <2> DEFINE FilesHeld == Held(file') /\ Held(durable')
  <2> DEFINE StatesLogged == \A q \in Procs : Logged(mem'[q]) /\ Logged(data'[q])
  <2>1. Held(file) /\ Held(durable) /\ CopiesLogged
        /\ \A q \in Procs : Logged(mem[q]) /\ Logged(data[q])
    BY DEF LoggedInv, StoredWasLogged
  \* It is enough that what was logged before the step covers the new states.
  <2>2. ASSUME log \subseteq log', FilesHeld, StatesLogged, CopiesLogged'
        PROVE  LoggedInv'
    BY <2>2 DEF LoggedInv, StoredWasLogged, Logged
  <2>3. ASSUME UNCHANGED <<file, durable, mem, data>>
        PROVE  FilesHeld /\ StatesLogged
    BY <2>1, <2>3
  <2>4. ASSUME UNCHANGED <<log, pc, next, todo>>
        PROVE  CopiesLogged'
    BY <2>1, <2>4 DEF CopiesLogged
  <2> HIDE DEF Held
  <2>5. ASSUME NEW p \in Procs, Open(p) \/ Load(p) \/ LoadCut(p) \/ Close(p)
        PROVE  LoggedInv'
    <3>1. UNCHANGED <<log, pc, next, todo, durable, data>>
      BY <2>5 DEF Open, Load, LoadCut, Close
    <3>2. CASE Load(p)
      <4>1. Held(file') /\ Held(durable')
        BY <2>1, <3>1, <3>2, EmptyLogged DEF Load, Held
      <4>2. ASSUME NEW q \in Procs
            PROVE  Logged(mem'[q]) /\ Logged(data'[q])
        BY <2>1, <3>1, <3>2 DEF Load, TypeOK, Held
      <4>3. QED
        BY <2>2, <2>4, <3>1, <4>1, <4>2
    <3>3. CASE Open(p) \/ LoadCut(p) \/ Close(p)
      <4>1. UNCHANGED <<file, mem>>
        BY <3>3 DEF Open, LoadCut, Close
      <4>2. QED
        BY <2>2, <2>3, <2>4, <3>1, <4>1
    <3>4. QED
      BY <2>5, <3>2, <3>3
  <2>6. ASSUME NEW p \in Procs, Exit(p)
        PROVE  LoggedInv'
    <3>1. CopiesLogged'
      BY <2>1, <2>6 DEF Exit, CopiesLogged, TypeOK
    <3>2. FilesHeld
      BY <2>1, <2>6 DEF Exit
    <3>3. StatesLogged
      BY <2>1, <2>6, EmptyLogged DEF Exit, TypeOK
    <3>4. QED
      BY <2>2, <2>6, <3>1, <3>2, <3>3 DEF Exit
  <2>7. ASSUME NEW p \in Procs, NEW c \in Conns, Commit(p, c) \/ Expire(p, c)
        PROVE  LoggedInv'
    <3>1. UNCHANGED <<log, file, durable, mem, data>>
      BY <2>7 DEF Commit, Expire
    <3>2. CopiesLogged'
      <4>1. CASE Commit(p, c)
        BY <2>1, <4>1, MoveKeepsCopies DEF Commit, Steps
      <4>2. CASE Expire(p, c)
        BY <2>4, <4>2 DEF Expire
      <4>3. QED
        BY <2>7, <4>1, <4>2
    <3>3. QED
      BY <2>2, <2>3, <3>1, <3>2
  <2>8. ASSUME NEW p \in Procs, NEW c \in Conns, CommitStep(p, c)
        PROVE  LoggedInv'
    <3>1. CASE Take(p, c) \/ Block(p, c)
      <4>1. UNCHANGED <<log, file, durable, mem, data, next, todo>>
        BY <3>1 DEF Take, Block
      <4>2. CopiesLogged'
        BY <2>1, <3>1, <4>1, MoveKeepsCopies DEF Take, Block, Steps
      <4>3. QED
        BY <2>2, <2>3, <4>1, <4>2
    <3>2. CASE GiveUp(p, c) \/ Return(p, c) \/ RecordClosed(p, c) \/ Undelivered(p, c) \/ AdoptClosed(p, c)
      <4>1. Leave(p, c) /\ UNCHANGED <<log, file, durable, mem, data>>
        BY <3>2 DEF GiveUp, Return, RecordClosed, Undelivered, AdoptClosed, Fail
      <4>2. CopiesLogged'
        BY <2>1, <4>1, LeaveKeepsCopies
      <4>3. QED
        BY <2>2, <2>3, <4>1, <4>2
    <3>3. CASE Record(p, c)
      <4>1. UNCHANGED <<log, file, durable, mem, data>>
        BY <3>3 DEF Record
      <4> DEFINE s == Apply(mem[p], c, got[p][c])
      <4> DEFINE t == Changed(mem[p], c, got[p][c])
      <4>2. \A d \in Conns, r \in Runs :
               s[d][r] = 0 \/ <<d, r, s[d][r]>> \in log \/ (d = c /\ r \in t)
        <5>1. mem[p] \in State /\ got[p][c] \in [Runs -> Versions] /\ Logged(mem[p])
          BY <2>1 DEF TypeOK
        <5>2. QED
          BY <5>1, ApplyChanges
      <4> HIDE DEF s, t
      <4>3. /\ next' = [next EXCEPT ![p][c] = s]
            /\ todo' = [todo EXCEPT ![p][c] = t]
            /\ pc' = [pc EXCEPT ![p][c] = "deliver"]
        BY <3>3 DEF Record, s, t
      <4>4. CopiesLogged'
        BY <2>1, <4>1, <4>2, <4>3 DEF CopiesLogged, TypeOK
      <4>5. QED
        BY <2>2, <2>3, <4>1, <4>4
    <3>4. CASE Deliver(p, c)
      <4>1. PICK r \in todo[p][c] :
               /\ log' = log \cup {<<c, r, next[p][c][c][r]>>}
               /\ todo' = [todo EXCEPT ![p][c] = @ \ {r}]
        BY <3>4 DEF Deliver
      <4>2. UNCHANGED <<file, durable, mem, data, pc, next>>
        BY <3>4 DEF Deliver
      <4>3. CopiesLogged'
        BY <2>1, <4>1, <4>2 DEF CopiesLogged, TypeOK
      <4>4. QED
        BY <2>2, <2>3, <4>1, <4>2, <4>3
    <3>5. CASE Adopt(p, c) \/ AdoptOnly(p, c)
      <4>1. Logged(next[p][c])
        BY <2>1, <3>5 DEF Adopt, AdoptOnly, CopiesLogged, Logged
      <4>2. UNCHANGED <<log, file, durable>> /\ mem' = [mem EXCEPT ![p] = next[p][c]]
            /\ data' \in {data, [data EXCEPT ![p] = next[p][c]]}
        BY <3>5 DEF Adopt, AdoptOnly
      <4>3. StatesLogged
        BY <2>1, <4>1, <4>2 DEF TypeOK
      <4>4. CopiesLogged'
        <5>1. CASE AdoptOnly(p, c)
          BY <2>1, <5>1, LeaveKeepsCopies DEF AdoptOnly
        <5>2. CASE Adopt(p, c)
          BY <2>1, <5>2, MoveKeepsCopies DEF Adopt, Steps
        <5>3. QED
          BY <3>5, <5>1, <5>2
      <4>5. FilesHeld
        BY <2>1, <4>2
      <4>6. QED
        BY <2>2, <4>2, <4>3, <4>4, <4>5
    <3>6. QED
      BY <2>8, <3>1, <3>2, <3>3, <3>4, <3>5 DEF CommitStep
  <2>9. ASSUME NEW p \in Procs, WriteStep(p)
        PROVE  LoggedInv'
    <3>1. CASE WriteReplace(p)
      <4>1. UNCHANGED <<log, durable, mem, data, pc, next, todo>> /\ file' = data[p]
        BY <3>1 DEF WriteReplace
      <4>2. FilesHeld /\ StatesLogged
        BY <2>1, <4>1 DEF Held
      <4>3. QED
        BY <2>2, <2>4, <4>1, <4>2
    <3>2. CASE WriteFailed(p) \/ WriteSynced(p) \/ WriteUnsynced(p)
      <4>1. PICK result \in Results : WriteEnd(p, result) /\ file' = file /\ durable' \in {durable, file}
        BY <3>2 DEF WriteFailed, WriteSynced, WriteUnsynced, Results
      <4>2. FilesHeld
        BY <2>1, <4>1
      <4>3. StatesLogged
        BY <2>1, <4>1, EmptyLogged DEF WriteEnd, TypeOK
      <4>4. QED
        BY <2>1, <2>2, <4>1, <4>2, <4>3, WriteEndKeepsCopies DEF WriteEnd
    <3>3. QED
      BY <2>9, <3>1, <3>2 DEF WriteStep
  <2>10. CASE PowerLoss
    <3>1. CopiesLogged'
      BY <2>10 DEF PowerLoss, CopiesLogged
    <3>2. StatesLogged
      BY <2>10, EmptyLogged DEF PowerLoss
    <3>3. FilesHeld
      BY <2>1, <2>10 DEF PowerLoss
    <3>4. QED
      BY <2>2, <2>10, <3>1, <3>2, <3>3 DEF PowerLoss
  <2>11. CASE Damaged
    <3>1. UNCHANGED <<log, pc, next, todo, mem, data>> /\ file' = Corrupt /\ durable' = Corrupt
      BY <2>11 DEF Damaged, Damage
    <3>2. FilesHeld /\ StatesLogged
      BY <2>1, <3>1 DEF Held
    <3>3. QED
      BY <2>2, <2>4, <3>1, <3>2
  <2>12. CASE UNCHANGED vars
    BY <2>2, <2>3, <2>4, <2>12 DEF vars
  <2>13. QED
    BY <2>5, <2>6, <2>7, <2>8, <2>9, <2>10, <2>11, <2>12 DEF Next, ProcStep
<1>3. QED
  BY <1>1, <1>2, TypeCorrect, PTL DEF Spec

(* Whatever the interleaving of Commits, expiring contexts, stalled writes,
   exits and power losses, a run's update is in the state file only once its
   line was logged: a crash can repeat a line and never drop one (Commit). *)
THEOREM NothingStoredUnlogged == Spec => []StoredWasLogged
<1>1. LoggedInv => StoredWasLogged
  BY DEF LoggedInv
<1>2. QED
  BY <1>1, LoggedHolds, PTL

-----------------------------------------------------------------------------
(* Only the holder of the directory writes. *)

(* A step that lets go of no lock and starts no write or Commit keeps what
   DirectoryInv says of every process but its own. *)
LEMMA EndWriteDirectory ==
  ASSUME TypeOK, NEW p \in Procs, EndWrite(p)
  PROVE  /\ right' = [right EXCEPT ![p] = Free]
         /\ lock' \in {lock, NoProc}
         /\ lock' # lock => lock = p /\ phase[p] = "closed"
  BY DEF EndWrite, Unlocked

(* Who holds the directory and the right to write (Open, takeWrite). *)
LEMMA DirectoryHeld == Spec => []DirectoryInv
<1>1. Init => DirectoryInv
  BY DEF Init, DirectoryInv
<1>2. ASSUME TypeOK, TypeOK', DirectoryInv, [Next]_vars
      PROVE  DirectoryInv'
  <2> USE <1>2 DEF procVars, writeVars, commitVars
  <2>1. ASSUME NEW p \in Procs, Open(p) \/ Load(p) \/ LoadCut(p) \/ Close(p)
        PROVE  DirectoryInv'
    <3>1. CASE Open(p)
      BY <3>1, ProcsAssumption DEF DirectoryInv, TypeOK, Open
    <3>2. CASE Load(p)
      BY <3>2 DEF DirectoryInv, TypeOK, Load
    <3>3. CASE LoadCut(p)
      BY <3>3 DEF DirectoryInv, TypeOK, LoadCut
    <3>4. CASE Close(p)
      BY <3>4, FreeAssumption DEF DirectoryInv, TypeOK, Close, Unlocked
    <3>5. QED
      BY <2>1, <3>1, <3>2, <3>3, <3>4
  <2>2. ASSUME NEW p \in Procs, Exit(p)
        PROVE  DirectoryInv'
    BY <2>2 DEF DirectoryInv, TypeOK, Exit, Unlocked
  <2>3. ASSUME NEW p \in Procs, NEW c \in Conns, Commit(p, c) \/ Expire(p, c)
        PROVE  DirectoryInv'
    <3>1. CASE Commit(p, c)
      BY <3>1 DEF DirectoryInv, TypeOK, Commit
    <3>2. CASE Expire(p, c)
      BY <3>2 DEF DirectoryInv, Expire
    <3>3. QED
      BY <2>3, <3>1, <3>2
  <2>4. ASSUME NEW p \in Procs, NEW c \in Conns, CommitStep(p, c)
        PROVE  DirectoryInv'
    <3>1. CASE Take(p, c)
      BY <3>1, FreeAssumption DEF DirectoryInv, TypeOK, Take, Writers
    <3>2. CASE Block(p, c)
      BY <3>2 DEF DirectoryInv, TypeOK, Block
    <3>3. CASE GiveUp(p, c) \/ Return(p, c)
      <4>1. pc' = [pc EXCEPT ![p][c] = "idle"] /\ UNCHANGED <<lock, phase, right, writer>>
        BY <3>3 DEF GiveUp, Return, Leave
      <4>2. QED
        BY <4>1 DEF DirectoryInv, TypeOK
    <3>4. CASE Record(p, c)
      BY <3>4 DEF DirectoryInv, TypeOK, Record
    <3>5. CASE RecordClosed(p, c) \/ Undelivered(p, c) \/ AdoptClosed(p, c) \/ AdoptOnly(p, c)
      <4>1. /\ pc[p][c] \in {"record", "deliver"}
            /\ pc' = [pc EXCEPT ![p][c] = "idle"]
            /\ EndWrite(p)
            /\ UNCHANGED <<phase, writer>>
        BY <3>5 DEF RecordClosed, Undelivered, AdoptClosed, AdoptOnly, Fail, Leave
      <4>2. right[p] = c /\ writer[p] = "none"
        BY <4>1 DEF DirectoryInv
      <4>3. QED
        BY <4>1, <4>2, EndWriteDirectory DEF DirectoryInv, TypeOK
    <3>6. CASE Deliver(p, c)
      BY <3>6 DEF DirectoryInv, Deliver
    <3>7. CASE Adopt(p, c)
      BY <3>7, FreeAssumption DEF DirectoryInv, TypeOK, Adopt
    <3>8. QED
      BY <2>4, <3>1, <3>2, <3>3, <3>4, <3>5, <3>6, <3>7 DEF CommitStep
  <2>5. ASSUME NEW p \in Procs, WriteStep(p)
        PROVE  DirectoryInv'
    <3>1. CASE WriteReplace(p)
      BY <3>1 DEF DirectoryInv, TypeOK, WriteReplace
    <3>2. CASE WriteFailed(p) \/ WriteSynced(p) \/ WriteUnsynced(p)
      <4>1. PICK result \in Results : WriteEnd(p, result) /\ writer[p] # "none"
        BY <3>2 DEF WriteFailed, WriteSynced, WriteUnsynced, Results
      <4>2. /\ writer' = [writer EXCEPT ![p] = "none"]
            /\ EndWrite(p)
            /\ UNCHANGED phase
        BY <4>1 DEF WriteEnd
      <4>3. ASSUME NEW q \in Procs, NEW c \in Conns
            PROVE  \/ pc'[q][c] = pc[q][c]
                   \/ pc[q][c] = "writing" /\ pc'[q][c] \in Results
        BY <4>1 DEF WriteEnd, TypeOK
      <4>4. ASSUME NEW q \in Procs, q # p
            PROVE  /\ lock = q => lock' = q
                   /\ right'[q] = right[q] /\ writer'[q] = writer[q] /\ phase'[q] = phase[q]
        BY <4>2, <4>4, EndWriteDirectory DEF TypeOK
      <4>5. /\ lock' # lock => phase[p] = "closed"
            /\ right'[p] = Free /\ writer'[p] = "none" /\ phase'[p] = phase[p]
        BY <4>2, EndWriteDirectory DEF TypeOK
      <4>6. ASSUME NEW c \in Conns
            PROVE  pc[p][c] \notin {"record", "deliver"}
        BY <4>1 DEF DirectoryInv
      <4>7. QED
        BY <4>1, <4>3, <4>4, <4>5, <4>6 DEF DirectoryInv, Results
    <3>3. QED
      BY <2>5, <3>1, <3>2 DEF WriteStep
  <2>6. CASE PowerLoss
    BY <2>6 DEF DirectoryInv, PowerLoss
  <2>7. CASE Damaged
    BY <2>7 DEF DirectoryInv, Damaged
  <2>8. CASE UNCHANGED vars
    BY <2>8 DEF DirectoryInv, vars
  <2>9. QED
    BY <2>1, <2>2, <2>3, <2>4, <2>5, <2>6, <2>7, <2>8 DEF Next, ProcStep
<1>3. QED
  BY <1>1, <1>2, TypeCorrect, PTL DEF Spec

(* A write goroutine runs only while its process holds the directory: Close
   leaves the release to the endWrite of a Commit that holds the right, so
   no write lands on a successor's file (Close, endWrite, Open). *)
THEOREM WritersHoldDirectory == Spec => []WriterHoldsDirectory
<1>1. DirectoryInv => WriterHoldsDirectory
  BY DEF DirectoryInv, WriterHoldsDirectory
<1>2. QED
  BY <1>1, DirectoryHeld, PTL

-----------------------------------------------------------------------------
(* That Commits never undo each other, in memory and on disk, and that as   *)
(* long as no trigger is told to stop while it loads, RunStore implements   *)
(* AtLeastOnce and an answered Commit is past undoing.  A trigger that is   *)
(* cut then breaks both (RestartForgetsNothing); a daemon never does.       *)

(* What the steps of a Commit say of the state, its copy and its bytes: all
   of it stays, as long as the Commit or its write holds the right to write. *)
CommitInv ==
    \A p \in Procs :
        /\ phase[p] \in {"off", "open", "stopping"} => right[p] = Free
        /\ phase[p] = "off" => \A c \in Conns : pc[p][c] = "idle"
        /\ writer[p] # "none" => data[p] = mem[p]
        /\ writer[p] = "replaced" => file = data[p]
        /\ \A c \in Conns :
              /\ pc[p][c] = "deliver" =>
                    /\ Keeps(next[p][c], mem[p])
                    /\ \A r \in todo[p][c] : mem[p][c][r] < next[p][c][c][r]
              /\ pc[p][c] = "writing" =>
                    right[p] = c /\ writer[p] # "none" /\ next[p][c] = mem[p]

(* No trigger saves a state it never loaded. *)
NoneCut == \A p \in Procs : phase[p] # "cut"

(* What a process that loaded the file keeps of it. *)
MemoryHoldsFile ==
    \A p \in Procs : lock = p /\ phase[p] \in {"running", "closed"} /\ file # Corrupt =>
        Keeps(mem[p], file)

FileHoldsDurable == durable # Corrupt => file # Corrupt /\ Keeps(file, durable)

StoreInv ==
    /\ NoneCut
    /\ MemoryHoldsFile
    /\ FileHoldsDurable
    /\ SavedIsDurable

-----------------------------------------------------------------------------
(* States and what they keep of each other. *)

LEMMA KeepsEmpty ==
  ASSUME NEW s \in State
  PROVE  Keeps(s, Empty) /\ Keeps(s, s)
<1>1. \A c \in Conns, r \in Runs : s[c][r] \in Nat
  BY VersionsAssumption DEF State
<1>2. QED
  BY <1>1 DEF Keeps, Empty

LEMMA KeepsTransitive ==
  ASSUME NEW s \in State, NEW t \in State, NEW u \in State, Keeps(s, t), Keeps(t, u)
  PROVE  Keeps(s, u)
<1> SUFFICES ASSUME NEW c \in Conns, NEW r \in Runs
             PROVE  u[c][r] <= s[c][r]
  BY DEF Keeps
<1>1. s[c][r] \in Nat /\ t[c][r] \in Nat /\ u[c][r] \in Nat
  BY VersionsAssumption DEF State
<1>2. u[c][r] <= t[c][r] /\ t[c][r] <= s[c][r]
  BY DEF Keeps
<1>3. QED
  BY <1>1, <1>2

(* A recorded read forgets nothing, and its changed runs are newer. *)
LEMMA ApplyKeeps ==
  ASSUME NEW m \in State, NEW c \in Conns, NEW g \in [Runs -> Versions]
  PROVE  /\ Keeps(Apply(m, c, g), m)
         /\ \A r \in Changed(m, c, g) : m[c][r] < Apply(m, c, g)[c][r]
<1>1. \A d \in Conns, r \in Runs : m[d][r] \in Nat /\ g[r] \in Nat
  BY VersionsAssumption DEF State
<1>2. \A d \in Conns, r \in Runs :
        Apply(m, c, g)[d][r] = IF d = c /\ m[c][r] < g[r] THEN g[r] ELSE m[d][r]
  BY DEF Apply, Changed, State
<1>3. QED
  BY <1>1, <1>2 DEF Keeps, Changed

-----------------------------------------------------------------------------
(* Commits in order. *)

LEMMA CommitsHold == Spec => []CommitInv
<1>1. Init => CommitInv
  BY FreeAssumption DEF Init, CommitInv
<1>2. ASSUME TypeOK, TypeOK', DirectoryInv, CommitInv, [Next]_vars
      PROVE  CommitInv'
  <2> USE <1>2 DEF procVars, writeVars, commitVars
  <2>1. ASSUME NEW p \in Procs, Open(p) \/ Load(p) \/ LoadCut(p) \/ Close(p)
        PROVE  CommitInv'
    <3>1. CASE Open(p)
      BY <3>1 DEF CommitInv, TypeOK, Open
    <3>2. CASE Load(p)
      <4>1. \A q \in Procs : writer[q] = "none"
        BY <3>2, FreeAssumption DEF CommitInv, DirectoryInv, Load
      <4>2. \A c \in Conns : pc[p][c] \notin {"deliver", "writing"}
        BY <3>2 DEF DirectoryInv, Load
      <4>3. QED
        BY <3>2, <4>1, <4>2 DEF CommitInv, TypeOK, Load
    <3>3. CASE LoadCut(p)
      BY <3>3 DEF CommitInv, TypeOK, LoadCut
    <3>4. CASE Close(p)
      BY <3>4 DEF CommitInv, TypeOK, Close
    <3>5. QED
      BY <2>1, <3>1, <3>2, <3>3, <3>4
  <2>2. ASSUME NEW p \in Procs, Exit(p)
        PROVE  CommitInv'
    BY <2>2 DEF CommitInv, TypeOK, Exit
  <2>3. ASSUME NEW p \in Procs, NEW c \in Conns, Commit(p, c) \/ Expire(p, c)
        PROVE  CommitInv'
    <3>1. CASE Commit(p, c)
      BY <3>1 DEF CommitInv, TypeOK, Commit
    <3>2. CASE Expire(p, c)
      BY <3>2 DEF CommitInv, Expire
    <3>3. QED
      BY <2>3, <3>1, <3>2
  <2>4. ASSUME NEW p \in Procs, NEW c \in Conns, CommitStep(p, c)
        PROVE  CommitInv'
    <3>1. CASE Take(p, c)
      <4>1. phase[p] \notin {"off", "open", "stopping"}
        BY <3>1 DEF DirectoryInv, Take
      <4>2. \A d \in Conns : pc[p][d] # "writing"
        BY <3>1, FreeAssumption DEF CommitInv, Take
      <4>3. QED
        BY <3>1, <4>1, <4>2 DEF CommitInv, TypeOK, Take
    <3>2. CASE Block(p, c)
      BY <3>2 DEF CommitInv, TypeOK, Block
    <3>3. CASE GiveUp(p, c) \/ Return(p, c)
      <4>1. Leave(p, c) /\ UNCHANGED <<file, lock, phase, mem, right, writer, data>>
        BY <3>3 DEF GiveUp, Return
      <4>2. QED
        BY <4>1 DEF CommitInv, TypeOK, Leave
    <3>4. CASE Record(p, c)
      <4> DEFINE s == Apply(mem[p], c, got[p][c])
      <4> DEFINE t == Changed(mem[p], c, got[p][c])
      <4>1. Keeps(s, mem[p]) /\ \A r \in t : mem[p][c][r] < s[c][r]
        BY ApplyKeeps DEF TypeOK
      <4> HIDE DEF s, t
      <4>2. /\ next' = [next EXCEPT ![p][c] = s]
            /\ todo' = [todo EXCEPT ![p][c] = t]
            /\ pc' = [pc EXCEPT ![p][c] = "deliver"]
            /\ UNCHANGED <<file, phase, mem, right, writer, data>>
        BY <3>4 DEF Record, s, t
      <4>3. phase[p] # "off"
        BY <3>4 DEF Record, CommitInv
      <4>4. QED
        BY <4>1, <4>2, <4>3 DEF CommitInv, TypeOK
    <3>5. CASE RecordClosed(p, c) \/ Undelivered(p, c) \/ AdoptClosed(p, c)
      <4>1. /\ Leave(p, c) /\ EndWrite(p)
            /\ pc[p][c] \in {"record", "deliver"}
            /\ UNCHANGED <<file, phase, mem, writer, data>>
        BY <3>5 DEF RecordClosed, Undelivered, AdoptClosed, Fail
      <4>2. \A d \in Conns : pc[p][d] # "writing"
        BY <4>1 DEF DirectoryInv, CommitInv
      <4>3. right' = [right EXCEPT ![p] = Free]
        BY <4>1 DEF EndWrite
      <4>4. QED
        BY <4>1, <4>2, <4>3 DEF CommitInv, TypeOK, Leave
    <3>6. CASE Deliver(p, c)
      <4>1. PICK r \in todo[p][c] : todo' = [todo EXCEPT ![p][c] = @ \ {r}]
        BY <3>6 DEF Deliver
      <4>2. UNCHANGED <<file, phase, mem, right, writer, data, pc, next>>
        BY <3>6 DEF Deliver
      <4>3. QED
        BY <4>1, <4>2 DEF CommitInv, TypeOK
    <3>7. CASE Adopt(p, c) \/ AdoptOnly(p, c)
      <4>1. /\ right[p] = c /\ writer[p] = "none" /\ lock = p
            /\ phase[p] \in {"running", "cut", "closed"}
            /\ \A d \in Conns : d # c => pc[p][d] \notin {"deliver", "writing"}
        BY <3>7 DEF Adopt, AdoptOnly, DirectoryInv, CommitInv
      <4>2. CASE Adopt(p, c)
        BY <4>1, <4>2 DEF CommitInv, TypeOK, Adopt
      <4>3. CASE AdoptOnly(p, c)
        BY <4>1, <4>3 DEF CommitInv, TypeOK, AdoptOnly, EndWrite, Leave
      <4>4. QED
        BY <3>7, <4>2, <4>3
    <3>8. QED
      BY <2>4, <3>1, <3>2, <3>3, <3>4, <3>5, <3>6, <3>7 DEF CommitStep
  <2>5. ASSUME NEW p \in Procs, WriteStep(p)
        PROVE  CommitInv'
    <3>1. CASE WriteReplace(p)
      BY <3>1, ProcsAssumption DEF CommitInv, DirectoryInv, TypeOK, WriteReplace
    <3>2. CASE WriteFailed(p) \/ WriteSynced(p) \/ WriteUnsynced(p)
      <4>1. PICK result \in Results : WriteEnd(p, result) /\ file' = file /\ writer[p] # "none"
        BY <3>2 DEF WriteFailed, WriteSynced, WriteUnsynced, Results
      <4>2. /\ writer' = [writer EXCEPT ![p] = "none"]
            /\ data' = [data EXCEPT ![p] = Empty]
            /\ right' = [right EXCEPT ![p] = Free]
            /\ UNCHANGED <<phase, mem, next, todo>>
        BY <4>1 DEF WriteEnd, EndWrite
      <4>3. ASSUME NEW q \in Procs, NEW c \in Conns
            PROVE  \/ pc'[q][c] = pc[q][c] /\ (q = p => pc[q][c] # "writing")
                   \/ q = p /\ pc[q][c] = "writing" /\ pc'[q][c] \in Results
        BY <4>1 DEF WriteEnd, TypeOK, CommitInv
      <4>4. QED
        <5>1. ASSUME NEW q \in Procs
              PROVE  /\ phase'[q] \in {"off", "open", "stopping"} => right'[q] = Free
                     /\ phase'[q] = "off" => \A c \in Conns : pc'[q][c] = "idle"
                     /\ writer'[q] # "none" => data'[q] = mem'[q]
                     /\ writer'[q] = "replaced" => file' = data'[q]
          BY <4>1, <4>2, <4>3 DEF CommitInv, TypeOK
        <5>2. ASSUME NEW q \in Procs, NEW c \in Conns
              PROVE  /\ pc'[q][c] = "deliver" => pc[q][c] = "deliver"
                     /\ pc'[q][c] = "writing" => pc[q][c] = "writing" /\ q # p
          BY <4>3 DEF Results
        <5>3. QED
          BY <4>2, <5>1, <5>2 DEF CommitInv, TypeOK
    <3>3. QED
      BY <2>5, <3>1, <3>2 DEF WriteStep
  <2>6. CASE PowerLoss
    BY <2>6 DEF CommitInv, PowerLoss
  <2>7. CASE Damaged
    BY <2>7, FreeAssumption DEF CommitInv, DirectoryInv, Damaged, Damage
  <2>8. CASE UNCHANGED vars
    BY <2>8 DEF CommitInv, vars
  <2>9. QED
    BY <2>1, <2>2, <2>3, <2>4, <2>5, <2>6, <2>7, <2>8 DEF Next, ProcStep
<1>3. QED
  BY <1>1, <1>2, TypeCorrect, DirectoryHeld, PTL DEF Spec

(* Two connections' Commits never undo each other in memory, though each
   adopts a copy made before its lines were logged (Commit, adopt): a copy
   under delivery keeps what memory holds, as nobody else has the right. *)
THEOREM CommitsKeepMemory == Spec => MemoryNeverForgets
<1>1. ASSUME TypeOK, TypeOK', CommitInv, [Next]_vars, NEW p \in Procs,
             phase[p] \in {"running", "cut"}, phase'[p] # "off"
      PROVE  Keeps(mem'[p], mem[p])
  <2> USE <1>1 DEF procVars, writeVars, commitVars
  <2>1. CASE mem'[p] = mem[p]
    BY <2>1, KeepsEmpty DEF TypeOK
  <2>2. ASSUME NEW q \in Procs, NEW c \in Conns, Adopt(q, c) \/ AdoptOnly(q, c)
        PROVE  Keeps(mem'[p], mem[p])
    <3>1. mem' = [mem EXCEPT ![q] = next[q][c]] /\ Keeps(next[q][c], mem[q])
      BY <2>2 DEF Adopt, AdoptOnly, CommitInv
    <3>2. QED
      BY <2>1, <3>1 DEF TypeOK
  <2>3. ASSUME NEW q \in Procs, ProcStep(q)
        PROVE  \/ mem'[p] = mem[p]
               \/ \E c \in Conns : Adopt(q, c) \/ AdoptOnly(q, c)
    <3>1. CASE Open(q) \/ LoadCut(q) \/ Close(q)
      BY <3>1 DEF Open, LoadCut, Close
    <3>2. CASE Load(q)
      BY <3>2 DEF Load, TypeOK
    <3>3. CASE Exit(q)
      BY <3>3 DEF Exit, TypeOK
    <3>4. CASE WriteStep(q)
      BY <3>4 DEF WriteStep, WriteReplace, WriteFailed, WriteSynced, WriteUnsynced, WriteEnd
    <3>5. ASSUME NEW c \in Conns, Commit(q, c) \/ Expire(q, c) \/ CommitStep(q, c)
          PROVE  mem'[p] = mem[p] \/ Adopt(q, c) \/ AdoptOnly(q, c)
      BY <3>5 DEF Commit, Expire, CommitStep, Take, Block, GiveUp, Record, RecordClosed, Deliver,
         Undelivered, AdoptClosed, Return, Fail
    <3>6. QED
      BY <2>3, <3>1, <3>2, <3>3, <3>4, <3>5 DEF ProcStep
  <2>4. CASE PowerLoss
    BY <2>4 DEF PowerLoss
  <2>5. CASE Damaged \/ UNCHANGED vars
    BY <2>1, <2>5 DEF Damaged, vars
  <2>6. QED
    BY <2>1, <2>2, <2>3, <2>4, <2>5 DEF Next
<1>2. TypeOK /\ TypeOK' /\ CommitInv /\ [Next]_vars
      => [\A p \in Procs : phase[p] \in {"running", "cut"} /\ phase'[p] # "off" => Keeps(mem'[p], mem[p])]_vars
  BY <1>1
<1>3. QED
  BY <1>2, TypeCorrect, CommitsHold, PTL DEF Spec, MemoryNeverForgets

(* The Commit a write answers is the one that adopted the state it wrote. *)
LEMMA WriteAnswers ==
  ASSUME TypeOK, CommitInv, [Next]_vars, NEW p \in Procs, NEW c \in Conns,
         pc[p][c] # "ok", pc'[p][c] = "ok"
  PROVE  /\ WriteSynced(p) /\ right[p] = c /\ pc[p][c] = "writing"
         /\ durable' = mem[p] /\ file' = mem[p] /\ mem' = mem /\ next' = next /\ next[p][c] = mem[p]
<1> USE DEF procVars, writeVars, commitVars
<1>1. ASSUME NEW q \in Procs, ProcStep(q), ~WriteSynced(q)
      PROVE  pc'[p][c] = "ok" => pc[p][c] = "ok"
  <2>1. CASE Open(q) \/ Load(q) \/ LoadCut(q) \/ Close(q)
    BY <2>1 DEF Open, Load, LoadCut, Close
  <2>2. CASE Exit(q)
    BY <2>2 DEF Exit, TypeOK
  <2>3. CASE WriteReplace(q)
    BY <2>3 DEF WriteReplace
  <2>4. CASE WriteFailed(q) \/ WriteUnsynced(q)
    <3>1. PICK result \in {"failed", "notDurable"} : WriteEnd(q, result)
      BY <2>4 DEF WriteFailed, WriteUnsynced
    <3>2. CASE q = p
      BY <3>1, <3>2 DEF WriteEnd, TypeOK
    <3>3. CASE q # p
      BY <3>1, <3>3 DEF WriteEnd, TypeOK
    <3>4. QED
      BY <3>2, <3>3
  <2>5. ASSUME NEW d \in Conns, Commit(q, d) \/ Expire(q, d) \/ CommitStep(q, d)
        PROVE  pc'[p][c] = "ok" => pc[p][c] = "ok"
    <3>1. CASE UNCHANGED pc
      BY <3>1
    <3>2. CASE \E s \in {"idle", "ask", "blocked", "record", "deliver", "writing"} :
                  pc' = [pc EXCEPT ![q][d] = s]
      BY <3>2 DEF TypeOK
    <3>3. CASE Commit(q, d) \/ Expire(q, d) \/ Take(q, d) \/ Block(q, d)
      BY <3>1, <3>2, <3>3 DEF Commit, Expire, Take, Block
    <3>4. CASE Record(q, d) \/ Deliver(q, d) \/ Adopt(q, d)
      BY <3>1, <3>2, <3>4 DEF Record, Deliver, Adopt
    <3>5. CASE GiveUp(q, d) \/ RecordClosed(q, d) \/ Undelivered(q, d) \/ AdoptOnly(q, d)
               \/ AdoptClosed(q, d) \/ Return(q, d)
      <4>1. Leave(q, d)
        BY <3>5 DEF GiveUp, RecordClosed, Undelivered, AdoptOnly, AdoptClosed, Return, Fail
      <4>2. QED
        BY <3>2, <4>1 DEF Leave
    <3>6. QED
      BY <2>5, <3>3, <3>4, <3>5 DEF CommitStep
  <2>6. QED
    BY <1>1, <2>1, <2>2, <2>3, <2>4, <2>5 DEF ProcStep, WriteStep
<1>2. ~PowerLoss /\ ~Damaged /\ ~UNCHANGED vars
  BY DEF PowerLoss, Damaged, vars
<1>3. PICK q \in Procs : WriteSynced(q)
  BY <1>1, <1>2 DEF Next
<1>4. q = p /\ right[p] = c /\ pc[p][c] = "writing"
  BY <1>3 DEF WriteSynced, WriteEnd, TypeOK
<1>5. QED
  BY <1>3, <1>4 DEF WriteSynced, WriteEnd, CommitInv

(* A write that becomes durable stores every read the process recorded, those
   of earlier Commits whose write failed or never ran included (Commit's
   write goroutine): what it writes is what memory still holds. *)
THEOREM WritesStoreEarlier == Spec => LaterWriteStoresEarlier
<1>1. ASSUME TypeOK, CommitInv, [Next]_vars, NEW p \in Procs, NEW c \in Conns,
             pc[p][c] # "ok", pc'[p][c] = "ok"
      PROVE  durable' # Corrupt /\ Keeps(durable', mem[p])
  <2>1. durable' = mem[p] /\ mem[p] \in State
    BY <1>1, WriteAnswers DEF TypeOK
  <2>2. QED
    BY <2>1, KeepsEmpty, CorruptAssumption
<1>2. TypeOK /\ CommitInv /\ [Next]_vars
      => [\A p \in Procs, c \in Conns : pc[p][c] # "ok" /\ pc'[p][c] = "ok"
            => durable' # Corrupt /\ Keeps(durable', mem[p])]_vars
  BY <1>1
<1>3. QED
  BY <1>2, TypeCorrect, CommitsHold, PTL DEF Spec, LaterWriteStoresEarlier

-----------------------------------------------------------------------------
(* Where every process loaded the file before it saves. *)

(* A daemon told to stop while it loads starts no scan (Store.Load, RunLoop). *)
LEMMA DaemonsLoad == Triggers = {} => (Spec => []NoneCut)
<1> SUFFICES ASSUME Triggers = {}
             PROVE  Spec => []NoneCut
  OBVIOUS
<1>1. Init => NoneCut
  BY DEF Init, NoneCut
<1>2. ASSUME TypeOK, NoneCut, [Next]_vars
      PROVE  NoneCut'
  <2> USE <1>2 DEF procVars, writeVars, commitVars
  <2>1. CASE UNCHANGED phase
    BY <2>1 DEF NoneCut
  <2>2. ASSUME NEW p \in Procs, Open(p) \/ Load(p) \/ LoadCut(p) \/ Close(p) \/ Exit(p)
        PROVE  NoneCut'
    BY <2>2 DEF NoneCut, TypeOK, Open, Load, LoadCut, Close, Exit
  <2>3. ASSUME NEW p \in Procs, NEW c \in Conns, Commit(p, c) \/ Expire(p, c) \/ CommitStep(p, c)
        PROVE  UNCHANGED phase
    <3>1. CASE Commit(p, c) \/ Expire(p, c) \/ Take(p, c) \/ Block(p, c) \/ Record(p, c) \/ Deliver(p, c)
      BY <3>1 DEF Commit, Expire, Take, Block, Record, Deliver
    <3>2. CASE RecordClosed(p, c) \/ Undelivered(p, c) \/ AdoptClosed(p, c)
      BY <3>2 DEF RecordClosed, Undelivered, AdoptClosed, Fail
    <3>3. CASE GiveUp(p, c) \/ Adopt(p, c) \/ AdoptOnly(p, c) \/ Return(p, c)
      BY <3>3 DEF GiveUp, Adopt, AdoptOnly, Return
    <3>4. QED
      BY <2>3, <3>1, <3>2, <3>3 DEF CommitStep
  <2>4. ASSUME NEW p \in Procs, WriteStep(p)
        PROVE  UNCHANGED phase
    BY <2>4 DEF WriteStep, WriteReplace, WriteFailed, WriteSynced, WriteUnsynced, WriteEnd
  <2>5. PowerLoss => NoneCut'
    BY DEF PowerLoss, NoneCut
  <2>6. Damaged \/ UNCHANGED vars => UNCHANGED phase
    BY DEF Damaged, vars
  <2>7. QED
    BY <2>1, <2>2, <2>3, <2>4, <2>5, <2>6 DEF Next, ProcStep
<1>3. QED
  BY <1>1, <1>2, TypeCorrect, PTL DEF Spec

LEMMA StoreHolds == Spec /\ []NoneCut => []StoreInv
<1>1. ASSUME Init
      PROVE  StoreInv
  <2>1. Keeps(Empty, Empty) /\ Empty \in State
    BY KeepsEmpty, EmptyState
  <2>2. QED
    BY <1>1, <2>1, CorruptAssumption
    DEF Init, AbsInit, StoreInv, NoneCut, MemoryHoldsFile, FileHoldsDurable, SavedIsDurable
<1>2. ASSUME TypeOK, TypeOK', DirectoryInv, CommitInv, CommitInv', StoreInv, NoneCut', [Next]_vars
      PROVE  StoreInv'
  <2> USE <1>2 DEF NoneCut, procVars, writeVars, commitVars
  <2>a. /\ \A p \in Procs : mem[p] \in State /\ phase[p] \in Phases
        /\ file = Corrupt \/ file \in State
        /\ durable = Corrupt \/ durable \in State
        /\ Corrupt \notin State
    BY CorruptAssumption DEF TypeOK
  (* Steps that change no store, and lengthen no Commit's stay. *)
  <2>b. ASSUME UNCHANGED <<file, durable, phase, mem, next>>,
               \A p \in Procs : lock' = p => lock = p,
               \A p \in Procs, c \in Conns : pc'[p][c] = "ok" => pc[p][c] = "ok"
        PROVE  StoreInv'
    BY <2>b DEF StoreInv, MemoryHoldsFile, FileHoldsDurable, SavedIsDurable, Keeps
  <2>1. ASSUME NEW p \in Procs, Open(p) \/ Load(p) \/ LoadCut(p) \/ Close(p) \/ Exit(p)
        PROVE  StoreInv'
    <3>1. /\ UNCHANGED durable
          /\ \A q \in Procs, c \in Conns : pc'[q][c] = "ok" => pc[q][c] = "ok" /\ next'[q][c] = next[q][c]
      <4>1. CASE Open(p) \/ Load(p) \/ LoadCut(p) \/ Close(p)
        BY <4>1 DEF Open, Load, LoadCut, Close
      <4>2. CASE Exit(p)
        BY <4>2 DEF Exit, TypeOK
      <4>3. QED
        BY <2>1, <4>1, <4>2
    <3>2. SavedIsDurable'
      BY <3>1 DEF StoreInv, SavedIsDurable, Keeps
    <3>3. FileHoldsDurable'
      BY <2>1, <3>1, KeepsEmpty DEF StoreInv, FileHoldsDurable, Open, Load, LoadCut, Close, Exit, Keeps
    <3>4. MemoryHoldsFile'
      <4>1. CASE Open(p) \/ LoadCut(p)
        BY <4>1 DEF StoreInv, MemoryHoldsFile, Open, LoadCut, TypeOK, Keeps
      <4>2. CASE Load(p)
        BY <2>a, <4>2, KeepsEmpty DEF StoreInv, MemoryHoldsFile, Load, TypeOK, DirectoryInv
      <4>3. CASE Close(p)
        BY <4>3, ProcsAssumption DEF StoreInv, MemoryHoldsFile, Close, TypeOK, CommitInv, Unlocked, Keeps
      <4>4. CASE Exit(p)
        BY <4>4, ProcsAssumption DEF StoreInv, MemoryHoldsFile, Exit, TypeOK, Unlocked, Keeps
      <4>5. QED
        BY <2>1, <4>1, <4>2, <4>3, <4>4
    <3>5. QED
      BY <3>2, <3>3, <3>4 DEF StoreInv
  <2>2. ASSUME NEW p \in Procs, NEW c \in Conns, Commit(p, c) \/ Expire(p, c) \/ CommitStep(p, c)
        PROVE  StoreInv'
    <3>1. CASE Commit(p, c) \/ Expire(p, c) \/ Take(p, c) \/ Block(p, c) \/ Deliver(p, c)
      <4>1. \A q \in Procs, d \in Conns : pc'[q][d] = "ok" => pc[q][d] = "ok"
        <5>1. CASE Commit(p, c) \/ Take(p, c) \/ Block(p, c)
          <6>1. PICK s \in {"ask", "blocked", "record"} : pc' = [pc EXCEPT ![p][c] = s]
            BY <5>1 DEF Commit, Take, Block
          <6>2. QED
            BY <6>1 DEF TypeOK
        <5>2. CASE Expire(p, c) \/ Deliver(p, c)
          BY <5>2 DEF Expire, Deliver
        <5>3. QED
          BY <3>1, <5>1, <5>2
      <4>2. UNCHANGED <<file, durable, phase, mem, next, lock>>
        BY <3>1 DEF Commit, Expire, Take, Block, Deliver
      <4>3. QED
        BY <2>b, <4>1, <4>2
    <3>2. CASE Record(p, c)
      <4>1. /\ UNCHANGED <<file, durable, phase, mem, lock>>
            /\ pc' = [pc EXCEPT ![p][c] = "deliver"]
            /\ \A q \in Procs, d \in Conns : (q # p \/ d # c) => next'[q][d] = next[q][d]
        BY <3>2 DEF Record, TypeOK
      <4>2. SavedIsDurable'
        BY <4>1 DEF StoreInv, SavedIsDurable, TypeOK, Keeps
      <4>3. QED
        BY <4>1, <4>2 DEF StoreInv, MemoryHoldsFile, FileHoldsDurable, Keeps
    <3>3. CASE \/ GiveUp(p, c) \/ RecordClosed(p, c) \/ Undelivered(p, c) \/ AdoptClosed(p, c)
               \/ Return(p, c) \/ Adopt(p, c) \/ AdoptOnly(p, c)
      <4>1. /\ UNCHANGED <<file, durable, phase>>
            /\ \A q \in Procs : lock' = q => lock = q
        BY <3>3, ProcsAssumption DEF GiveUp, RecordClosed, Undelivered, AdoptClosed, Return, Adopt, AdoptOnly,
           Fail, EndWrite, Unlocked
      <4>2. \A q \in Procs, d \in Conns : pc'[q][d] = "ok" => pc[q][d] = "ok" /\ next'[q][d] = next[q][d]
        <5>1. CASE Adopt(p, c)
          BY <5>1 DEF Adopt, TypeOK
        <5>2. CASE Leave(p, c)
          BY <5>2 DEF Leave, TypeOK
        <5>3. QED
          BY <3>3, <5>1, <5>2 DEF GiveUp, RecordClosed, Undelivered, AdoptClosed, Return, AdoptOnly, Fail
      <4>3. \A q \in Procs : mem'[q] \in State /\ Keeps(mem'[q], mem[q])
        <5>1. CASE UNCHANGED mem
          BY <2>a, <5>1, KeepsEmpty
        <5>2. CASE Adopt(p, c) \/ AdoptOnly(p, c)
          <6>1. mem' = [mem EXCEPT ![p] = next[p][c]] /\ Keeps(next[p][c], mem[p])
            BY <5>2 DEF Adopt, AdoptOnly, CommitInv
          <6>2. QED
            BY <2>a, <6>1, KeepsEmpty DEF TypeOK
        <5>3. QED
          BY <3>3, <5>1, <5>2 DEF GiveUp, RecordClosed, Undelivered, AdoptClosed, Return, Fail
      <4>4. MemoryHoldsFile'
        BY <2>a, <4>1, <4>3, KeepsTransitive DEF StoreInv, MemoryHoldsFile
      <4>5. QED
        BY <4>1, <4>2, <4>4 DEF StoreInv, FileHoldsDurable, SavedIsDurable, Keeps
    <3>4. QED
      BY <2>2, <3>1, <3>2, <3>3 DEF CommitStep
  <2>3. ASSUME NEW p \in Procs, WriteStep(p)
        PROVE  StoreInv'
    <3>1. /\ writer[p] # "none" /\ lock = p /\ data[p] = mem[p]
          /\ phase[p] \in {"running", "closed"}
      BY <2>3, <2>a DEF WriteStep, WriteReplace, WriteFailed, WriteSynced, WriteUnsynced, DirectoryInv,
         CommitInv, StoreInv, Phases
    <3>2. CASE WriteReplace(p)
      <4>1. file' = mem[p] /\ UNCHANGED <<durable, phase, mem, lock, pc, next>>
        BY <3>1, <3>2 DEF WriteReplace
      <4>2. MemoryHoldsFile'
        BY <2>a, <3>1, <4>1, KeepsEmpty DEF MemoryHoldsFile
      <4>3. FileHoldsDurable'
        BY <2>a, <3>1, <4>1, KeepsTransitive DEF StoreInv, FileHoldsDurable, MemoryHoldsFile
      <4>4. QED
        BY <4>1, <4>2, <4>3 DEF StoreInv, SavedIsDurable, Keeps
    <3>3. ASSUME NEW result \in Results, WriteEnd(p, result)
          PROVE  /\ UNCHANGED <<phase, mem, next>>
                 /\ \A q \in Procs : lock' = q => lock = q
      BY <3>3, ProcsAssumption DEF WriteEnd, EndWrite, Unlocked
    <3>4. CASE WriteFailed(p) \/ WriteUnsynced(p)
      <4>1. UNCHANGED <<file, durable>>
        BY <3>4 DEF WriteFailed, WriteUnsynced
      <4>2. PICK result \in {"failed", "notDurable"} : WriteEnd(p, result)
        BY <3>4 DEF WriteFailed, WriteUnsynced
      <4>3. ASSUME NEW q \in Procs, NEW c \in Conns, pc'[q][c] = "ok"
            PROVE  pc[q][c] = "ok"
        <5>1. CASE q = p
          BY <4>2, <4>3, <5>1 DEF WriteEnd, TypeOK
        <5>2. CASE q # p
          BY <4>2, <4>3, <5>2 DEF WriteEnd, TypeOK
        <5>3. QED
          BY <5>1, <5>2
      <4>4. QED
        BY <2>b, <3>3, <4>1, <4>2, <4>3 DEF Results
    <3>5. CASE WriteSynced(p)
      <4>1. /\ durable' = file /\ UNCHANGED file /\ file = mem[p]
            /\ UNCHANGED <<phase, mem, next>>
            /\ \A q \in Procs : lock' = q => lock = q
        BY <3>3, <3>5 DEF WriteSynced, CommitInv, Results
      <4>2. FileHoldsDurable'
        BY <2>a, <4>1, KeepsEmpty DEF FileHoldsDurable
      <4>3. ASSUME NEW q \in Procs, NEW c \in Conns, pc'[q][c] = "ok"
            PROVE  durable' # Corrupt /\ Keeps(durable', next'[q][c])
        <5>1. durable' \in State /\ next[q][c] \in State
          BY <2>a, <4>1 DEF TypeOK
        <5>2. CASE pc[q][c] = "ok"
          BY <2>a, <4>1, <5>1, <5>2, KeepsTransitive DEF StoreInv, SavedIsDurable, FileHoldsDurable
        <5>3. CASE pc[q][c] # "ok"
          BY <2>a, <4>1, <4>3, <5>1, <5>3, WriteAnswers, KeepsEmpty
        <5>4. QED
          BY <5>2, <5>3
      <4>4. MemoryHoldsFile'
        BY <4>1 DEF StoreInv, MemoryHoldsFile, Keeps
      <4>5. QED
        BY <4>1, <4>2, <4>3, <4>4 DEF StoreInv, SavedIsDurable
    <3>6. QED
      BY <2>3, <3>2, <3>4, <3>5 DEF WriteStep
  <2>4. CASE PowerLoss
    <3>1. FileHoldsDurable'
      BY <2>4, <2>a, KeepsEmpty DEF PowerLoss, FileHoldsDurable
    <3>2. QED
      BY <2>4, <3>1 DEF PowerLoss, StoreInv, MemoryHoldsFile, SavedIsDurable
  <2>5. CASE Damaged
    <3>1. \A p \in Procs : phase[p] = "off" /\ \A c \in Conns : pc[p][c] = "idle"
      BY <2>5 DEF Damaged, CommitInv
    <3>2. QED
      BY <2>5, <3>1 DEF Damaged, Damage, StoreInv, MemoryHoldsFile, FileHoldsDurable, SavedIsDurable
  <2>6. CASE UNCHANGED vars
    BY <2>6, <2>b DEF vars
  <2>7. QED
    BY <2>1, <2>2, <2>3, <2>4, <2>5, <2>6 DEF Next, ProcStep
<1>3. QED
  BY <1>1, <1>2, TypeCorrect, DirectoryHeld, CommitsHold, PTL DEF Spec

(* As long as no trigger is cut while it loads, which no daemon is
   (DaemonsLoad), a Commit that answered without an error is past undoing: a
   power loss leaves a state that holds its read, whatever the other
   connections' Commits wrote or failed to write meanwhile. *)
THEOREM SavesAreDurable == Spec /\ []NoneCut => []SavedIsDurable
<1>1. StoreInv => SavedIsDurable
  BY DEF StoreInv
<1>2. QED
  BY <1>1, StoreHolds, PTL

-----------------------------------------------------------------------------
(* The promise of the directory (AtLeastOnce). *)

(* A line delivered is news to the file: the copy's changes are newer than
   memory, which holds the file. *)
LEMMA DeliverAnnounces ==
  ASSUME TypeOK, DirectoryInv, CommitInv, StoreInv, NEW p \in Procs, NEW c \in Conns, Deliver(p, c)
  PROVE  \E r \in Runs, v \in Versions : Announce(c, r, v)
<1>1. PICK r \in todo[p][c] : log' = log \cup {<<c, r, next[p][c][c][r]>>}
  BY DEF Deliver
<1>2. r \in Runs /\ next[p][c][c][r] \in Versions
  BY DEF TypeOK, State
<1>3. mem[p][c][r] < next[p][c][c][r]
  BY DEF Deliver, CommitInv
<1>4. file # Corrupt => file[c][r] < next[p][c][c][r]
  <2>1. lock = p /\ phase[p] \in {"running", "closed"}
    BY DEF Deliver, DirectoryInv, StoreInv, NoneCut
  <2>2. ASSUME file # Corrupt
        PROVE  file[c][r] <= mem[p][c][r]
    BY <1>2, <2>1, <2>2 DEF StoreInv, MemoryHoldsFile, Keeps
  <2>3. mem[p][c][r] \in Nat /\ next[p][c][c][r] \in Nat /\ (file # Corrupt => file[c][r] \in Nat)
    <3>1. mem[p] \in State /\ next[p][c] \in State /\ (file # Corrupt => file \in State)
      BY DEF TypeOK
    <3>2. \A s \in State : s[c][r] \in Nat
      BY <1>2, VersionsAssumption DEF State
    <3>3. QED
      BY <3>1, <3>2
  <2>4. QED
    BY <1>3, <2>2, <2>3
<1>5. Announce(c, r, next[p][c][c][r])
  BY <1>1, <1>4 DEF Deliver, Announce
<1>6. QED
  BY <1>2, <1>5

(* What a write puts in place was logged whole and forgets nothing. *)
LEMMA ReplaceStores ==
  ASSUME TypeOK, DirectoryInv, CommitInv, LoggedInv, StoreInv, NEW p \in Procs, WriteReplace(p)
  PROVE  \E s \in State : Store(s)
<1>1. lock = p /\ phase[p] \in {"running", "closed"} /\ data[p] = mem[p] /\ data[p] \in State
  BY DEF WriteReplace, DirectoryInv, CommitInv, StoreInv, NoneCut, TypeOK, Phases
<1>2. Logged(data[p]) /\ (file # Corrupt => Keeps(data[p], file))
  BY <1>1 DEF LoggedInv, StoreInv, MemoryHoldsFile
<1>3. Store(data[p])
  BY <1>2 DEF WriteReplace, Store
<1>4. QED
  BY <1>1, <1>3

(* As long as no trigger is cut while it loads, the store keeps the promise:
   a run's line is logged before the file holds it and only while the file
   does not, every replacement forgets nothing, and only a power loss, a
   damaged file or one set aside takes an update back. *)
THEOREM DirectoryRefines == Spec /\ []NoneCut => AbsSpec
<1>1. Init => AbsInit
  BY DEF Init
<1>2. ASSUME TypeOK, DirectoryInv, CommitInv, LoggedInv, StoreInv, [Next]_vars
      PROVE  [AbsNext]_absVars
  <2> USE <1>2 DEF procVars, writeVars, commitVars
  <2>1. ASSUME NEW p \in Procs, Open(p) \/ Load(p) \/ LoadCut(p) \/ Close(p) \/ Exit(p)
        PROVE  SetAside \/ UNCHANGED absVars
    BY <2>1 DEF Open, Load, LoadCut, Close, Exit, SetAside, absVars
  <2>2. ASSUME NEW p \in Procs, NEW c \in Conns, Commit(p, c) \/ Expire(p, c) \/ CommitStep(p, c),
               ~Deliver(p, c)
        PROVE  UNCHANGED absVars
    <3>1. CASE Commit(p, c) \/ Expire(p, c) \/ Take(p, c) \/ Block(p, c) \/ Record(p, c)
      BY <3>1 DEF Commit, Expire, Take, Block, Record, absVars
    <3>2. CASE RecordClosed(p, c) \/ Undelivered(p, c) \/ AdoptClosed(p, c)
      BY <3>2 DEF RecordClosed, Undelivered, AdoptClosed, Fail, absVars
    <3>3. CASE GiveUp(p, c) \/ Adopt(p, c) \/ AdoptOnly(p, c) \/ Return(p, c)
      BY <3>3 DEF GiveUp, Adopt, AdoptOnly, Return, absVars
    <3>4. QED
      BY <2>2, <3>1, <3>2, <3>3 DEF CommitStep
  <2>3. ASSUME NEW p \in Procs, WriteStep(p), ~WriteReplace(p)
        PROVE  Sync \/ UNCHANGED absVars
    BY <2>3 DEF WriteStep, WriteFailed, WriteSynced, WriteUnsynced, WriteEnd, Sync, absVars
  <2>4. PowerLoss => Undo \/ Sync
    BY DEF PowerLoss, Undo, Sync
  <2>5. Damaged => Damage
    BY DEF Damaged
  <2>6. UNCHANGED vars => UNCHANGED absVars
    BY DEF vars, absVars
  <2>7. QED
    BY <2>1, <2>2, <2>3, <2>4, <2>5, <2>6, DeliverAnnounces, ReplaceStores DEF Next, ProcStep, AbsNext
<1>3. QED
  BY <1>1, <1>2, TypeCorrect, DirectoryHeld, CommitsHold, LoggedHolds, StoreHolds, PTL DEF Spec, AbsSpec

(* Where every process is a daemon the store keeps the whole promise: however
   daemons start, stop, crash and lose power, no answered Commit is undone and
   the directory goes only the ways AtLeastOnce allows. *)
THEOREM DaemonsDurable ==
  ASSUME Triggers = {} PROVE Spec => AbsSpec /\ []SavedIsDurable
<1>1. Spec => []NoneCut
  BY DaemonsLoad
<1>2. QED
  BY <1>1, SavesAreDurable, DirectoryRefines, PTL
=============================================================================
