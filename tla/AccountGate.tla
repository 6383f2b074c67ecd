---------------------------- MODULE AccountGate ----------------------------
(***************************************************************************)
(* The account gate of a scan (internal/collect/collect.go, conn.go).      *)
(*                                                                         *)
(* Each connection scans in a goroutine of its own.  It opens, or reuses   *)
(* the connection an earlier scan left open, arrives at the gate of its    *)
(* forge, waits until every connection of that forge has arrived, and then *)
(* reads unless an earlier configured one opened on the same login: that   *)
(* one reads the account, and this one closes.                             *)
(*                                                                         *)
(* A gate lives for one scan, an open connection for as many as it lasts.  *)
(* Connections are numbered in the order of the configuration.             *)
(***************************************************************************)
EXTENDS Integers, FiniteSets

CONSTANTS
    Conns,      \* the configured connections, by their place in the list
    ForgeOf,    \* the forge a connection's url names
    AccountOf,  \* the account a connection's token belongs to
    Names,      \* the logins accounts go by
    NotOpen,    \* a connection that is not open: no login
    MayRename   \* whether an account may change its login

Forges == {ForgeOf[c] : c \in Conns}
Accounts == {AccountOf[c] : c \in Conns}

(* Logins told apart case-blind, as strings.EqualFold does: two of one      *)
(* forge's accounts never share one.                                        *)
Distinct(n) == \A c, d \in Conns :
    /\ ForgeOf[c] = ForgeOf[d]
    /\ AccountOf[c] # AccountOf[d]
    => n[AccountOf[c]] # n[AccountOf[d]]

ASSUME ConnsAssumption == Conns \subseteq Nat /\ IsFiniteSet(Conns)
ASSUME TokensAssumption ==
    /\ DOMAIN ForgeOf = Conns
    /\ DOMAIN AccountOf = Conns
ASSUME NotOpenAssumption == NotOpen \notin Names
ASSUME RenameAssumption == MayRename \in BOOLEAN

VARIABLES
    scan,    \* "idle", "running" or "closed": what the collector is doing
    pc,      \* where each connection's goroutine is, or how it ended
    conn,    \* connState.conn: the login it opened on, over scans
    left,    \* accountGate.left of each forge's gate
    ready,   \* whether accountGate.ready is closed
    logins,  \* accountGate.logins
    name     \* the login of each account, on the forge

gate == <<left, ready, logins>>
vars == <<scan, pc, conn, left, ready, logins, name>>

(* How a connection's part of a scan ends: not opened, refused for an       *)
(* earlier one, its context ended at the gate, or its reads done.           *)
Ends == {"idle", "unopened", "refused", "cut", "read"}
Steps == {"start", "failed", "opened", "waiting", "reading"}

ConnsOf(f) == {c \in Conns : ForgeOf[c] = f}

Init ==
    /\ scan = "idle"
    /\ pc = [c \in Conns |-> "idle"]
    /\ conn = [c \in Conns |-> NotOpen]
    /\ left = [f \in Forges |-> 0]
    /\ ready = [f \in Forges |-> FALSE]
    /\ logins = [c \in Conns |-> NotOpen]
    /\ name \in {n \in [Accounts -> Names] : Distinct(n)}

-----------------------------------------------------------------------------
(* Fault: a gate the next scan reused with its count as the last one left it. *)
StartScanKeepsLeft ==
    /\ scan = "idle"
    /\ scan' = "running"
    /\ pc' = [c \in Conns |-> "start"]
    /\ ready' = [f \in Forges |-> FALSE]
    /\ logins' = [c \in Conns |-> NotOpen]
    /\ UNCHANGED <<conn, name, left>>

(* Scan makes the gates and starts a goroutine for each connection.         *)
StartScan ==
    /\ scan = "idle"
    /\ scan' = "running"
    /\ pc' = [c \in Conns |-> "start"]
    /\ left' = [f \in Forges |-> Cardinality(ConnsOf(f))]
    /\ ready' = [f \in Forges |-> FALSE]
    /\ logins' = [c \in Conns |-> NotOpen]
    /\ UNCHANGED <<conn, name>>

(* ensureOpen, on a connection an earlier scan left open: its login is the  *)
(* one it opened on.                                                        *)
Reuse(c) ==
    /\ pc[c] = "start"
    /\ conn[c] # NotOpen
    /\ pc' = [pc EXCEPT ![c] = "opened"]
    /\ UNCHANGED <<scan, conn, gate, name>>

(* ensureOpen, opening: the forge answers which account the token is of.    *)
Opens(c) ==
    /\ pc[c] = "start"
    /\ conn[c] = NotOpen
    /\ conn' = [conn EXCEPT ![c] = name[AccountOf[c]]]
    /\ pc' = [pc EXCEPT ![c] = "opened"]
    /\ UNCHANGED <<scan, gate, name>>

OpenFails(c) ==
    /\ pc[c] = "start"
    /\ conn[c] = NotOpen
    /\ pc' = [pc EXCEPT ![c] = "failed"]
    /\ UNCHANGED <<scan, conn, gate, name>>

(* Fault: a gate that opens with one connection still to arrive. *)
ArriveEarly(c, login) ==
    /\ logins' = [logins EXCEPT ![c] = login]
    /\ left' = [left EXCEPT ![ForgeOf[c]] = @ - 1]
    /\ ready' = [ready EXCEPT ![ForgeOf[c]] = left[ForgeOf[c]] - 1 <= 1 \/ @]

(* arrive, under the gate's lock: the last to arrive closes ready.          *)
Arrive(c, login) ==
    /\ logins' = [logins EXCEPT ![c] = login]
    /\ left' = [left EXCEPT ![ForgeOf[c]] = @ - 1]
    /\ ready' = [ready EXCEPT ![ForgeOf[c]] = left[ForgeOf[c]] - 1 = 0 \/ @]

ArriveOpen(c) ==
    /\ pc[c] = "opened"
    /\ Arrive(c, conn[c])
    /\ pc' = [pc EXCEPT ![c] = "waiting"]
    /\ UNCHANGED <<scan, conn, name>>

(* Fault: a failed open that returns before it arrives. *)
NeverArrives(c) ==
    /\ pc[c] = "failed"
    /\ pc' = [pc EXCEPT ![c] = "unopened"]
    /\ UNCHANGED <<scan, conn, gate, name>>

ArriveUnopened(c) ==
    /\ pc[c] = "failed"
    /\ Arrive(c, NotOpen)
    /\ pc' = [pc EXCEPT ![c] = "unopened"]
    /\ UNCHANGED <<scan, conn, name>>

(* Fault: any other connection on the login, whatever its place. *)
Others(c) ==
    {j \in ConnsOf(ForgeOf[c]) : j # c /\ logins[j] # NotOpen /\ logins[j] = conn[c]}

(* The connections configured before c that opened on its login: first      *)
(* answers the earliest of them, -1 when there is none.                     *)
Earlier(c) ==
    {j \in ConnsOf(ForgeOf[c]) : j < c /\ logins[j] # NotOpen /\ logins[j] = conn[c]}

(* Fault: a connection that does not wait for the others. *)
ProceedAtOnce(c) ==
    /\ pc[c] = "waiting"
    /\ Earlier(c) = {}
    /\ pc' = [pc EXCEPT ![c] = "reading"]
    /\ UNCHANGED <<scan, conn, gate, name>>

Proceed(c) ==
    /\ pc[c] = "waiting"
    /\ ready[ForgeOf[c]]
    /\ Earlier(c) = {}
    /\ pc' = [pc EXCEPT ![c] = "reading"]
    /\ UNCHANGED <<scan, conn, gate, name>>

(* sharedAccount: the connection closes and reads nothing.                  *)
Refuse(c) ==
    /\ pc[c] = "waiting"
    /\ ready[ForgeOf[c]]
    /\ Earlier(c) # {}
    /\ conn' = [conn EXCEPT ![c] = NotOpen]
    /\ pc' = [pc EXCEPT ![c] = "refused"]
    /\ UNCHANGED <<scan, gate, name>>

(* The connection's context ends while it waits, at its limit or with the   *)
(* scan's: it reads nothing and stays open.                                 *)
GiveUp(c) ==
    /\ pc[c] = "waiting"
    /\ pc' = [pc EXCEPT ![c] = "cut"]
    /\ UNCHANGED <<scan, conn, gate, name>>

(* The last read, and the save behind it.                                   *)
Finish(c) ==
    /\ pc[c] = "reading"
    /\ pc' = [pc EXCEPT ![c] = "read"]
    /\ UNCHANGED <<scan, conn, gate, name>>

(* Scan returns once every goroutine has.                                   *)
EndScan ==
    /\ scan = "running"
    /\ \A c \in Conns : pc[c] \in Ends
    /\ scan' = "idle"
    /\ UNCHANGED <<pc, conn, gate, name>>

Close ==
    /\ scan = "idle"
    /\ scan' = "closed"
    /\ conn' = [c \in Conns |-> NotOpen]
    /\ UNCHANGED <<pc, gate, name>>

(* New: a process that starts after the one that closed.                    *)
New ==
    /\ scan = "closed"
    /\ scan' = "idle"
    /\ UNCHANGED <<pc, conn, gate, name>>

(* External: the owner of an account renames it.                            *)
Rename ==
    /\ MayRename
    /\ \E a \in Accounts, n \in Names :
        /\ name' = [name EXCEPT ![a] = n]
        /\ Distinct(name')
    /\ UNCHANGED <<scan, pc, conn, gate>>

Scans(c) ==
    \/ Reuse(c)
    \/ Opens(c)
    \/ OpenFails(c)
    \/ ArriveOpen(c)
    \/ ArriveUnopened(c)
    \/ Proceed(c)
    \/ Refuse(c)
    \/ Finish(c)

Next ==
    \/ StartScan
    \/ \E c \in Conns : Scans(c)
    \/ \E c \in Conns : GiveUp(c)
    \/ EndScan
    \/ Close
    \/ New
    \/ Rename

Spec == Init /\ [][Next]_vars

(* An open and a read end in time of their own, and a goroutine that can    *)
(* run does.  Nothing says a context ends: a scan may have no limit.        *)
FairSpec ==
    /\ Spec
    /\ \A c \in Conns : WF_vars(Scans(c))
    /\ WF_vars(EndScan)

-----------------------------------------------------------------------------
(* Every variable has its type.                                             *)
TypeOK ==
    /\ scan \in {"idle", "running", "closed"}
    /\ pc \in [Conns -> Ends \cup Steps]
    /\ conn \in [Conns -> Names \cup {NotOpen}]
    /\ left \in [Forges -> Nat]
    /\ ready \in [Forges -> BOOLEAN]
    /\ logins \in [Conns -> Names \cup {NotOpen}]
    /\ name \in [Accounts -> Names]

Arriving(f) == {c \in ConnsOf(f) : pc[c] \in {"start", "failed", "opened"}}

(* A gate of the running scan counts the connections still to arrive, and   *)
(* is open when there is none: arrive runs once for each connection on      *)
(* every path of readConn, so ready is neither closed twice nor left shut.  *)
GateCounts == scan = "running" =>
    \A f \in Forges :
        /\ left[f] = Cardinality(Arriving(f))
        /\ ready[f] <=> Arriving(f) = {}

(* Of the connections of one forge open on one login, however many scans    *)
(* apart they opened and in whatever order, only the earliest configured    *)
(* reads: accountGate and sharedAccount.                                    *)
EarliestReads == \A c, d \in Conns :
    /\ ForgeOf[c] = ForgeOf[d]
    /\ c < d
    /\ pc[d] = "reading"
    => conn[c] # conn[d]

(* Two connections never read one account at the same time, so its request  *)
(* budget is spent by one that knows of it.                                 *)
OneReaderPerAccount == \A c, d \in Conns :
    /\ pc[c] = "reading"
    /\ pc[d] = "reading"
    /\ ForgeOf[c] = ForgeOf[d]
    /\ AccountOf[c] = AccountOf[d]
    => c = d

(* A connection is refused only for one that is not itself refused: of      *)
(* three or more on one account one always reads, unless its context ended. *)
RefusedForAReader == \A c \in Conns :
    pc[c] = "refused" =>
        \E j \in ConnsOf(ForgeOf[c]) :
            /\ j < c
            /\ logins[j] = logins[c]
            /\ pc[j] \in {"waiting", "reading", "read", "cut"}

(* No connection waits at its gate for good: every scan returns, with no    *)
(* limit to end it, whichever opens fail.                                   *)
ScanReturns == scan = "running" ~> scan # "running"
=============================================================================
