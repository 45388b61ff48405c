------------------------------ MODULE DmSession -----------------------------
(***************************************************************************)
(* The database connection m_stDMConnect of CSqlGradOperate, which all     *)
(* threads use without a lock: BindSql2Exe and BindSql2ExeEx look at       *)
(* conFlag, connect again unless it is 1, allocate a statement handle and  *)
(* execute.                                                                *)
(*                                                                         *)
(* A call is a report to insert (DataInsert), a query whose handle is      *)
(* freed when its result was read, or a statement of the backup jobs       *)
(* (BindSql2ExeEx).  The database may be away or drop the connection; no   *)
(* code in this program sets conFlag back.                                 *)
(***************************************************************************)
EXTENDS Integers, FiniteSets

CONSTANTS
    Threads,
    Calls,      \* what the threads have to do, each once
    Kind,       \* of each: "insert", "query" or "job"
    MaxHandles, \* statement handles that one connection can have
    MaxFaults,  \* bound: failures, lost answers and dropped connections
    None        \* no call

ASSUME SessionAssumption ==
    /\ Kind \in [Calls -> {"insert", "query", "job"}]
    /\ MaxHandles \in Nat /\ MaxFaults \in Nat
    /\ None \notin Calls
    /\ IsFiniteSet(Threads) /\ Threads # {}

VARIABLES
    conFlag, \* m_stDMConnect.conFlag is 1
    hcon,    \* m_stDMConnect.hcon: connection handles are 1, 2, ...; 0 is none
    last,    \* connection handles allocated so far
    alive,   \* those that are logged in
    logins,  \* history: those that ever were
    pc,      \* where the call of each thread is
    doing,   \* its call
    handle,  \* the connection on which each call holds a statement handle
    stored,  \* how often the statement of each call took effect
    ret,     \* what each call returned: "ok", "error" or "none" yet
    faults

vars == <<conFlag, hcon, last, alive, logins, pc, doing, handle, stored, ret, faults>>
conn == <<conFlag, hcon, last, alive, logins>>

Fault == faults < MaxFaults /\ faults' = faults + 1
NoFault == faults' = faults

-----------------------------------------------------------------------------
(* Mutants: plausible mistakes in the definitions below.                   *)

NeedsConnectAlways == TRUE
KeepsHandleNot(c) == FALSE
\* The flag is set back when no handle can be had.
AllocStmtResets(t) ==
    /\ pc[t] = "alloc"
    /\ conFlag' = FALSE
    /\ doing' = [doing EXCEPT ![t] = None]
    /\ ret' = [ret EXCEPT ![doing[t]] = "error"]
    /\ pc' = [pc EXCEPT ![t] = "idle"]
    /\ UNCHANGED <<hcon, last, alive, logins, handle, stored, faults>>

-----------------------------------------------------------------------------
Init ==
    /\ conFlag \in BOOLEAN
    /\ hcon = IF conFlag THEN 1 ELSE 0
    /\ last = hcon
    /\ alive = 1..hcon /\ logins = alive
    /\ pc = [t \in Threads |-> "idle"]
    /\ doing = [t \in Threads |-> None]
    /\ handle = [c \in Calls |-> 0]
    /\ stored = [c \in Calls |-> 0]
    /\ ret = [c \in Calls |-> "none"]
    /\ faults = 0

Goto(t, l) == pc' = [pc EXCEPT ![t] = l]

\* The call returns to whoever ignores or logs its result.
Return(t, r) ==
    /\ ret' = [ret EXCEPT ![doing[t]] = r]
    /\ doing' = [doing EXCEPT ![t] = None]
    /\ Goto(t, "idle")

\* conFlag != 1
NeedsConnect == ~conFlag

\* The first lines of BindSql2Exe and BindSql2ExeEx: look at the flag.
Begin(t, c) ==
    /\ pc[t] = "idle"
    /\ ret[c] = "none" /\ \A u \in Threads : doing[u] # c
    /\ doing' = [doing EXCEPT ![t] = c]
    /\ Goto(t, IF NeedsConnect THEN "connect" ELSE "alloc")
    /\ UNCHANGED <<conn, handle, stored, ret, faults>>

\* ConnectToDM.  dm_connect (external) allocates a connection handle into the
\* shared structure ...
Connect(t) ==
    /\ pc[t] = "connect"
    /\ last' = last + 1
    /\ hcon' = last + 1
    /\ Goto(t, "login")
    /\ UNCHANGED <<conFlag, alive, logins, doing, handle, stored, ret, faults>>

\* Mutant: what is allocated is given back when the login fails, though it may
\* be another thread's by then.
LoginFreesOnError(t) ==
    /\ pc[t] = "login"
    /\ \/ /\ hcon \notin alive /\ NoFault
          /\ alive' = alive \cup {hcon} /\ logins' = logins \cup {hcon}
          /\ conFlag' = TRUE
          /\ Goto(t, "alloc")
          /\ UNCHANGED <<doing, ret>>
       \/ /\ (hcon \in alive /\ NoFault) \/ Fault
          /\ Return(t, "error")
          /\ alive' = alive \ {hcon}
          /\ UNCHANGED <<conFlag, logins>>
    /\ UNCHANGED <<hcon, last, handle, stored>>

\* ... and logs in on the one it then finds there, which may be another
\* thread's.  It fails if that is logged in already or the database is away.
Login(t) ==
    /\ pc[t] = "login"
    /\ \/ /\ hcon \notin alive /\ NoFault
          /\ alive' = alive \cup {hcon} /\ logins' = logins \cup {hcon}
          /\ conFlag' = TRUE
          /\ Goto(t, "alloc")
          /\ UNCHANGED <<doing, ret>>
       \/ /\ (hcon \in alive /\ NoFault) \/ Fault
          /\ Return(t, "error")
          /\ UNCHANGED <<conFlag, alive, logins>>
    /\ UNCHANGED <<hcon, last, handle, stored>>

Held(h) == { c \in Calls : handle[c] = h }
Allocatable == hcon \in alive /\ Cardinality(Held(hcon)) < MaxHandles

\* dm_alloc_stmt; its failure returns SH_SQL_GETHANDLE_ERROR.
AllocStmt(t) ==
    /\ pc[t] = "alloc"
    /\ \/ /\ Allocatable
          /\ handle' = [handle EXCEPT ![doing[t]] = hcon]
          /\ Goto(t, "execute")
          /\ UNCHANGED <<doing, ret>>
       \/ ~Allocatable /\ Return(t, "error") /\ UNCHANGED handle
    /\ UNCHANGED <<conn, stored, faults>>

Free(t) == handle' = [handle EXCEPT ![doing[t]] = 0]

\* BindSql2Exe frees the handle of a statement that fails, BindSql2ExeEx does
\* not.
DropsHandle(c) == Kind[c] # "job"

\* DataInsert and the backup jobs return without freeing the handle of a
\* statement that was executed.
KeepsHandle(c) == Kind[c] # "query"

\* The statement takes effect.
Executed(c) == stored' = [stored EXCEPT ![c] = @ + 1]

\* databasePrepare and databaseExecuteDirect succeed.
ExecuteDone(t) ==
    /\ pc[t] = "execute"
    /\ handle[doing[t]] \in alive
    /\ Executed(doing[t])
    /\ \/ KeepsHandle(doing[t]) /\ Return(t, "ok")
       \/ ~KeepsHandle(doing[t]) /\ Goto(t, "read") /\ UNCHANGED <<doing, ret>>
    /\ UNCHANGED <<conn, handle, faults>>

\* One of them fails: the connection is gone, the statement is refused, or
\* its answer is lost after it took effect.
ExecuteFails(t) ==
    /\ pc[t] = "execute"
    /\ \/ handle[doing[t]] \notin alive /\ NoFault /\ UNCHANGED stored
       \/ handle[doing[t]] \in alive /\ Fault /\ UNCHANGED stored
       \/ handle[doing[t]] \in alive /\ Fault /\ Executed(doing[t])
    /\ \/ DropsHandle(doing[t]) /\ Free(t)
       \/ ~DropsHandle(doing[t]) /\ UNCHANGED handle
    /\ Return(t, "error")
    /\ UNCHANGED conn

\* The rows of a query were fetched, and its handle is freed.
Read(t) ==
    /\ pc[t] = "read"
    /\ Free(t) /\ Return(t, "ok")
    /\ UNCHANGED <<conn, stored, faults>>

\* The database drops the connection that is in use.
Drop ==
    /\ hcon \in alive /\ Fault
    /\ alive' = alive \ {hcon}
    /\ UNCHANGED <<conFlag, hcon, last, logins, pc, doing, handle, stored, ret>>

Next ==
    \/ Drop
    \/ \E t \in Threads :
          \/ \E c \in Calls : Begin(t, c)
          \/ Connect(t) \/ Login(t) \/ AllocStmt(t)
          \/ ExecuteDone(t) \/ ExecuteFails(t) \/ Read(t)

Spec == Init /\ [][Next]_vars

-----------------------------------------------------------------------------
(* Properties.                                                             *)

\* DataInsert never frees the handle of a report it stored, so a process
\* stores at most as many reports as its connections have handles.
StoreLimit ==
    Cardinality({c \in Calls : Kind[c] = "insert" /\ ret[c] = "ok"})
        <= MaxHandles * Cardinality(logins)

\* Threads that find conFlag unset at the same time each log in, but no more
\* than that: there are never more connections than threads.
LoginsBounded == Cardinality(logins) <= Cardinality(Threads)

\* Threads that connect at the same time allocate over each other's handle, and
\* one of them may log in on another's.  As long as nothing failed, the handle
\* that is in the structure in the end is logged in all the same: the flag says
\* so, and whoever was too late has only lost its own call.
RaceKeepsConnection ==
    faults = 0 /\ conFlag /\ (\A t \in Threads : pc[t] \notin {"connect", "login"})
        => hcon \in alive

\* The connection is lost or has no handle left, conFlag is 1, no thread is
\* about to connect and none holds a handle.
Unusable ==
    /\ conFlag /\ ~Allocatable
    /\ \A t \in Threads : pc[t] \notin {"connect", "login", "execute", "read"}

\* Nothing repairs that: no thread ever connects again, no handle comes back
\* and no later call takes effect.
UnusableForGood == [][Unusable => Unusable' /\ stored' = stored]_vars
=============================================================================
