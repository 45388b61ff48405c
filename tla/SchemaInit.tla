----------------------------- MODULE SchemaInit -----------------------------
(***************************************************************************)
(* CSqlGradOperate::InitDMShemaAndTable: main brings the schema of the      *)
(* database up to the configuration before it serves.                      *)
(*                                                                         *)
(* The configured tables are 1..NTables, with the columns 1..NColumns each. *)
(* The database outlives the program: main may be restarted after it gave  *)
(* up or crashed anywhere, and finds what earlier runs left.  A statement  *)
(* may fail, and may fail after it took effect (its answer is lost).       *)
(***************************************************************************)
EXTENDS Integers, FiniteSets

CONSTANTS
    NTables,  \* m_pstTableMap->usSize
    NColumns, \* usSize of every table
    Foreign,  \* columns <<i, j>> of a table of that name in another schema
    MaxFaults \* bound: failures, lost answers and crashes

Tables == 1..NTables
Columns == 1..NColumns

ASSUME SchemaAssumption ==
    /\ NTables \in Nat \ {0} /\ NColumns \in Nat \ {0} /\ MaxFaults \in Nat
    /\ Foreign \subseteq Tables \X Columns

VARIABLES
    schema,  \* the schema exists
    tables,  \* its tables
    columns, \* their columns: pairs <<table, column>>
    pc,      \* where InitDMShemaAndTable is
    i, j,    \* its loop counters
    skipped, \* history: a table's column loop was left early in this run
    misread, \* history: a failed fetch was taken for a row in this run
    faults   \* how much has gone wrong so far

vars == <<schema, tables, columns, pc, i, j, skipped, misread, faults>>
db == <<schema, tables, columns>>
loops == <<i, j, skipped>>

-----------------------------------------------------------------------------
(* Mutants: plausible mistakes in the definitions below.                   *)

LastColumnOffByOne(n) == n >= NColumns - 1
CreateTableUnchecked(from, next) ==
    /\ pc = from
    /\ \/ tables' = tables \cup {i} /\ columns' = columns \cup ({i} \X Columns) /\ faults' = faults
       \/ UNCHANGED <<tables, columns>> /\ faults < MaxFaults /\ faults' = faults + 1
    /\ i' = i + 1
    /\ pc' = IF i = NTables THEN "done" ELSE next
    /\ UNCHANGED <<schema, j, skipped, misread>>
TableFoundNever(n) == FALSE
NextTableOffByOne ==
    /\ i' = i + 1
    /\ pc' = IF i > NTables THEN "done" ELSE "table"
    /\ UNCHANGED j

-----------------------------------------------------------------------------
(* The database (external): one statement through BindSql2Exe.             *)

Fault == faults < MaxFaults /\ faults' = faults + 1
NoFault == faults' = faults

\* dba_tab_columns is asked without the owner of the table.
ColumnFound(n, m) == <<n, m>> \in columns \cup Foreign
TableFound(n) == n \in tables

\* The columns CREATE TABLE names: all that are configured.
NewColumns(n) == {n} \X Columns

LastColumn(n) == n >= NColumns

-----------------------------------------------------------------------------
\* The database is new, or was set up from earlier configurations with fewer
\* tables or columns.
Init ==
    /\ schema \in BOOLEAN
    /\ tables \in IF schema THEN SUBSET Tables ELSE {{}}
    /\ columns \in SUBSET (tables \X Columns)
    /\ \A t \in tables : <<t, 1>> \in columns
    /\ pc = "connect"
    /\ i = 1 /\ j = 1
    /\ skipped = FALSE /\ misread = FALSE
    /\ faults = 0

GiveUp == pc' = "failed" /\ UNCHANGED <<loops, misread>>

\* A query that cannot be executed frees its handle in BindSql2Exe, and the
\* caller frees it again: it gives up if dm_free_stmt minds, and else goes on
\* as if there were no row.  A fetch that fails returns something other than
\* DSQL_NO_DATA, which the caller takes for a row.
Query(found, yes, no) ==
    \/ found /\ yes /\ NoFault /\ UNCHANGED misread
    \/ ~found /\ no /\ NoFault /\ UNCHANGED misread
    \/ no /\ Fault /\ UNCHANGED misread
    \/ yes /\ Fault /\ misread' = TRUE
    \/ GiveUp /\ Fault

\* Reading the configuration, then ConnectToDM: main gives up on a negative
\* result only; after any other failure BindSql2Exe connects again.
ConnectToDM ==
    /\ pc = "connect"
    /\ \/ pc' = "schema" /\ UNCHANGED <<loops, misread>> /\ (NoFault \/ Fault)
       \/ GiveUp /\ Fault
    /\ UNCHANGED db

CheckSchema ==
    /\ pc = "schema"
    /\ Query(schema, pc' = "table" /\ UNCHANGED loops,
                     pc' = "createSchema" /\ UNCHANGED loops)
    /\ UNCHANGED db

\* The statement fails if the schema is there.
CreateSchema ==
    /\ pc = "createSchema"
    /\ \/ /\ ~schema /\ schema' = TRUE /\ NoFault
          /\ pc' = "newTable" /\ UNCHANGED <<loops, misread>>
       \/ schema' = TRUE /\ GiveUp /\ Fault
       \/ schema' = schema /\ GiveUp /\ Fault
       \/ schema /\ schema' = schema /\ GiveUp /\ NoFault
    /\ UNCHANGED <<tables, columns>>

\* CreateTable(i), then the next turn of the loop it is called from.  The
\* statement fails if the table is there or the schema is not.
CreateTable(from, next) ==
    /\ pc = from
    /\ \/ /\ schema /\ i \notin tables /\ NoFault
          /\ tables' = tables \cup {i}
          /\ columns' = columns \cup NewColumns(i)
          /\ i' = i + 1
          /\ pc' = IF i = NTables THEN "done" ELSE next
          /\ UNCHANGED <<j, skipped, misread>>
       \/ /\ schema /\ i \notin tables /\ Fault \* the answer is lost
          /\ tables' = tables \cup {i}
          /\ columns' = columns \cup NewColumns(i)
          /\ GiveUp
       \/ UNCHANGED <<tables, columns>> /\ GiveUp /\ Fault
       \/ /\ ~schema \/ i \in tables
          /\ UNCHANGED <<tables, columns>> /\ GiveUp /\ NoFault
    /\ UNCHANGED schema

\* The schema is there: is table i?
CheckTable ==
    /\ pc = "table"
    /\ Query(TableFound(i), pc' = "column" /\ j' = 1 /\ UNCHANGED <<i, skipped>>,
                            pc' = "createTable" /\ UNCHANGED loops)
    /\ UNCHANGED db

NextTable ==
    /\ i' = i + 1
    /\ pc' = IF i = NTables THEN "done" ELSE "table"
    /\ UNCHANGED j

NextColumn ==
    IF LastColumn(j)
      THEN NextTable
      ELSE j' = j + 1 /\ pc' = "column" /\ UNCHANGED i

\* Is column j of table i there?
CheckColumn ==
    /\ pc = "column"
    /\ Query(ColumnFound(i, j), NextColumn /\ UNCHANGED skipped,
                                pc' = "alter" /\ UNCHANGED loops)
    /\ UNCHANGED db

\* ALTER TABLE ... ADD COLUMN: a failure leaves the loop over the columns
\* and goes on with the next table.  The statement fails if the column is
\* there or the table is not.
AlterFails == i \notin tables \/ <<i, j>> \in columns
Altered == i \in tables /\ columns' = columns \cup {<<i, j>>}
LeaveColumns == NextTable /\ skipped' = TRUE /\ UNCHANGED misread

AlterTable ==
    /\ pc = "alter"
    /\ \/ ~AlterFails /\ NoFault /\ Altered /\ NextColumn /\ UNCHANGED <<skipped, misread>>
       \/ AlterFails /\ NoFault /\ columns' = columns /\ LeaveColumns
       \/ Fault /\ columns' = columns /\ LeaveColumns
       \/ Fault /\ Altered /\ LeaveColumns \* the answer is lost
       \/ Fault /\ Altered /\ GiveUp       \* dm_free_stmt fails
    /\ UNCHANGED <<schema, tables>>

\* main is started again after it exited or crashed.
Restart ==
    /\ pc' = "connect" /\ i' = 1 /\ j' = 1 /\ skipped' = FALSE /\ misread' = FALSE
    /\ UNCHANGED db

StartAgain == pc = "failed" /\ Restart /\ NoFault
Crash == pc # "failed" /\ Restart /\ Fault

Program ==
    \/ ConnectToDM \/ CheckSchema \/ CreateSchema
    \/ CreateTable("newTable", "newTable") \/ CheckTable
    \/ CreateTable("createTable", "table") \/ CheckColumn \/ AlterTable

Next == Program \/ StartAgain \/ Crash

\* The program runs on, and whoever runs it starts it again when it gave up.
Spec == Init /\ [][Next]_vars /\ WF_vars(Program) /\ WF_vars(StartAgain)

-----------------------------------------------------------------------------
(* Properties.                                                             *)

TypeOK ==
    /\ schema \in BOOLEAN
    /\ tables \subseteq Tables
    /\ columns \subseteq Tables \X Columns
    /\ pc \in {"connect", "schema", "createSchema", "newTable", "table",
               "createTable", "column", "alter", "done", "failed"}
    /\ i \in 1..(NTables + 1) /\ j \in Columns
    /\ pc # "done" => i \in Tables
    /\ skipped \in BOOLEAN /\ misread \in BOOLEAN
    /\ faults \in 0..MaxFaults

\* When main goes on to serve, the schema and every configured table exist,
\* wherever earlier runs gave up or crashed and whatever the database held,
\* unless a failed fetch of this run was taken for a row.
ReadyMeansTables == pc = "done" /\ ~misread => schema /\ tables = Tables

\* ... and every table has every configured column, unless the column loop
\* of some table was left early or another schema hides a missing column.
ReadyMeansColumns ==
    pc = "done" /\ ~misread /\ ~skipped => (Tables \X Columns) \ Foreign \subseteq columns

\* There is never a table that the next start cannot complete: once nothing
\* goes wrong any more, main gets to serve.
Recovers == <>[](pc = "done")

=============================================================================
