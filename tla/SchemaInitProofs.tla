-------------------------- MODULE SchemaInitProofs --------------------------
(***************************************************************************)
(* What main can rely on when InitDMShemaAndTable returns 0, for any number *)
(* of tables, columns and faults and any database to start from.           *)
(***************************************************************************)
EXTENDS SchemaInit, TLAPS

InLoop == {"newTable", "table", "createTable", "column", "alter"}

\* The loop over the tables starts at the first one.
AtFirst == pc \in {"connect", "schema", "createSchema"} => i = 1

\* The tables before i are there, and so is the one whose columns are
\* checked.
TablesSoFar ==
    ~misread =>
        /\ pc \in InLoop \cup {"done"} => schema
        /\ pc \in InLoop => \A t \in Tables : t < i => t \in tables
        /\ pc \in {"column", "alter"} => i \in tables
        /\ pc = "done" => \A t \in Tables : t \in tables

Has(t, c) == <<t, c>> \in columns \/ <<t, c>> \in Foreign

\* The tables before i have their columns, and table i those before j.
ColumnsSoFar ==
    ~skipped /\ ~misread =>
        /\ pc \in InLoop => \A t \in Tables, c \in Columns : t < i => Has(t, c)
        /\ pc \in {"column", "alter"} => \A c \in Columns : c < j => Has(i, c)
        /\ pc = "done" => \A t \in Tables, c \in Columns : Has(t, c)

-----------------------------------------------------------------------------
(* Types, in three parts: the database, the loops, the history.            *)

DbOK == schema \in BOOLEAN /\ tables \subseteq Tables /\ columns \subseteq Tables \X Columns

LoopOK ==
    /\ pc \in {"connect", "schema", "createSchema", "newTable", "table",
               "createTable", "column", "alter", "done", "failed"}
    /\ i \in 1..(NTables + 1) /\ j \in Columns
    /\ pc # "done" => i \in Tables

HistoryOK == skipped \in BOOLEAN /\ misread \in BOOLEAN /\ faults \in 0..MaxFaults

\* TypeOK is these three.
LEMMA TypeParts == TypeOK <=> DbOK /\ LoopOK /\ HistoryOK
BY Zenon DEF TypeOK, DbOK, LoopOK, HistoryOK

\* No action but these changes the database, and they only add to it what
\* is configured.
LEMMA DbStep ==
    ASSUME TypeOK, Next
    PROVE  DbOK'
<1>1. DbOK /\ LoopOK
  BY TypeParts, Zenon
<1>2. CASE UNCHANGED db
  BY <1>1, <1>2, Zenon DEF DbOK, db
<1>3. CASE CreateSchema
  <2>1. schema' \in BOOLEAN /\ UNCHANGED <<tables, columns>>
    BY <1>1, <1>3, Zenon DEF CreateSchema, DbOK
  <2> QED
    BY <1>1, <2>1, Zenon DEF DbOK
<1>4. ASSUME NEW from, NEW next, from # "done", CreateTable(from, next)
      PROVE  DbOK'
  <2>1. i \in Tables
    BY <1>1, <1>4, Zenon DEF CreateTable, LoopOK
  <2>2. {i} \X Columns \subseteq Tables \X Columns
    BY <2>1
  <2>3. \/ tables' = tables \cup {i} /\ columns' = columns \cup NewColumns(i)
        \/ UNCHANGED <<tables, columns>>
    BY <1>4, Zenon DEF CreateTable
  <2>4. schema' = schema
    BY <1>4, Zenon DEF CreateTable
  <2>5. tables' \subseteq Tables /\ columns' \subseteq Tables \X Columns
    BY <1>1, <2>1, <2>2, <2>3, Zenon DEF DbOK, NewColumns
  <2> QED
    BY <1>1, <2>4, <2>5, Zenon DEF DbOK
<1>5. CASE AlterTable
  <2>1. i \in Tables /\ j \in Columns
    BY <1>1, <1>5, Zenon DEF AlterTable, LoopOK
  <2>2. <<i, j>> \in Tables \X Columns
    BY <2>1
  <2>3. columns' = columns \cup {<<i, j>>} \/ columns' = columns
    BY <1>5, Zenon DEF AlterTable, Altered
  <2>4. columns' \subseteq Tables \X Columns
    BY <1>1, <2>2, <2>3, Zenon DEF DbOK
  <2> QED
    BY <1>1, <1>5, <2>4, Zenon DEF DbOK, AlterTable
<1>6. \/ UNCHANGED db \/ CreateSchema \/ AlterTable
      \/ CreateTable("newTable", "newTable") \/ CreateTable("createTable", "table")
  BY Zenon DEF Next, Program, ConnectToDM, CheckSchema, CheckTable, CheckColumn,
               StartAgain, Crash, Restart
<1> QED
  BY <1>2, <1>3, <1>4, <1>5, <1>6

\* Where a step goes: it restarts, gives up, stays at the same counters, or
\* moves on in the loop over the columns or over the tables.
LEMMA LoopStep ==
    ASSUME TypeOK, Next
    PROVE  LoopOK'
<1>1. /\ LoopOK /\ NTables \in Nat \ {0} /\ NColumns \in Nat \ {0}
  BY TypeParts, SchemaAssumption, Zenon
<1> USE <1>1 DEF LoopOK, Tables, Columns
<1>2. CASE Restart
  BY <1>2 DEF Restart
<1>3. ASSUME pc # "done", GiveUp
      PROVE  LoopOK'
  BY <1>3 DEF GiveUp, loops
<1>4. ASSUME pc # "done", NextTable
      PROVE  LoopOK'
  BY <1>4 DEF NextTable
<1>5. ASSUME pc # "done", NextColumn
      PROVE  LoopOK'
  BY <1>4, <1>5 DEF NextColumn, LastColumn
<1>6. ASSUME NEW from, NEW next, from # "done", CreateTable(from, next),
             next \in {"newTable", "table"}
      PROVE  LoopOK'
  BY <1>3, <1>6 DEF CreateTable
<1>7. ASSUME pc # "done", i' = i, j' = j \/ j' = 1,
             pc' \in {"schema", "createSchema", "newTable", "table",
                      "createTable", "column", "alter"}
      PROVE  LoopOK'
  BY <1>7
<1>8. CASE ConnectToDM \/ CheckSchema \/ CreateSchema
  BY <1>3, <1>7, <1>8, Zenon DEF ConnectToDM, CheckSchema, CreateSchema, Query, loops
<1>9. CASE CheckTable \/ CheckColumn \/ AlterTable
  BY <1>3, <1>4, <1>5, <1>7, <1>9, Zenon DEF CheckTable, CheckColumn, AlterTable,
       LeaveColumns, Query, loops
<1> QED
  BY <1>2, <1>6, <1>8, <1>9, Zenon DEF Next, Program, StartAgain, Crash

\* The history and the bound on faults.
LEMMA HistoryStep ==
    ASSUME TypeOK, Next
    PROVE  HistoryOK'
<1>1. HistoryOK /\ MaxFaults \in Nat
  BY TypeParts, SchemaAssumption, Zenon
<1>2. skipped' \in BOOLEAN /\ misread' \in BOOLEAN
  BY <1>1, Zenon DEF HistoryOK, Next, Program, ConnectToDM, CheckSchema, CreateSchema,
       CreateTable, CheckTable, CheckColumn, AlterTable, StartAgain, Crash, Restart, GiveUp,
       Query, LeaveColumns, loops
<1>3. Fault \/ NoFault
  BY Zenon DEF Next, Program, ConnectToDM, CheckSchema, CreateSchema,
       CreateTable, CheckTable, CheckColumn, AlterTable, StartAgain, Crash, Query
<1>4. faults' \in 0..MaxFaults
  BY <1>1, <1>3 DEF HistoryOK, Fault, NoFault
<1> QED
  BY <1>2, <1>4, Zenon DEF HistoryOK

\* The types at the start.
LEMMA TypeInit == Init => TypeOK
<1> SUFFICES ASSUME Init PROVE TypeOK
  OBVIOUS
<1>1. NTables \in Nat \ {0} /\ NColumns \in Nat \ {0} /\ MaxFaults \in Nat
  BY SchemaAssumption, Zenon
<1>2. LoopOK
  BY <1>1 DEF Init, LoopOK, Tables, Columns
<1>3. HistoryOK
  <2>1. faults \in 0..MaxFaults
    BY <1>1 DEF Init
  <2> QED
    BY <2>1, Zenon DEF Init, HistoryOK
<1>4. tables \subseteq Tables
  BY Zenon DEF Init
<1>5. columns \subseteq tables \X Columns
  BY Zenon DEF Init
<1>6. columns \subseteq Tables \X Columns
  BY <1>4, <1>5
<1> QED
  BY <1>2, <1>3, <1>4, <1>6, TypeParts, Zenon DEF Init, DbOK

\* InitDMShemaAndTable keeps its counters within the configured tables and
\* columns, and adds nothing to the database that is not configured.
THEOREM TypeCorrect == Spec => []TypeOK
<1>1. TypeOK /\ [Next]_vars => TypeOK'
  <2> SUFFICES ASSUME TypeOK, [Next]_vars PROVE TypeOK'
    OBVIOUS
  <2>1. CASE Next
    BY <2>1, TypeParts, DbStep, LoopStep, HistoryStep DEF TypeOK, DbOK, LoopOK, HistoryOK
  <2>2. CASE UNCHANGED vars
    BY <2>2, Zenon DEF vars, TypeOK
  <2> QED
    BY <2>1, <2>2
<1> QED
  BY TypeInit, <1>1, PTL DEF Spec

-----------------------------------------------------------------------------
(* Tables.                                                                 *)

\* The loop over the tables starts at the first one.
LEMMA AtFirstStep ==
    ASSUME AtFirst, Next
    PROVE  AtFirst'
<1> USE DEF AtFirst
<1>1. CASE ConnectToDM \/ CheckSchema \/ CreateSchema
  BY <1>1, Zenon DEF ConnectToDM, CheckSchema, CreateSchema, GiveUp, Query, loops
<1>2. CASE Restart
  BY <1>2, Zenon DEF Restart
<1>3. ASSUME NEW from, NEW next \in {"newTable", "table"}, CreateTable(from, next)
      PROVE  AtFirst'
  BY <1>3 DEF CreateTable, GiveUp
<1>4. CASE CheckTable \/ CheckColumn \/ AlterTable
  BY <1>4 DEF CheckTable, CheckColumn, AlterTable, NextColumn, NextTable, LeaveColumns,
              GiveUp, Query
<1> QED
  BY <1>1, <1>2, <1>3, <1>4 DEF Next, Program, StartAgain, Crash

\* A step that is no restart forgets no failed fetch.
LEMMA MisreadStep ==
    ASSUME Next, ~misread', ~Restart
    PROVE  ~misread
BY Zenon DEF Next, Program, ConnectToDM, CheckSchema, CreateSchema, CreateTable, CheckTable,
     CheckColumn, AlterTable, StartAgain, Crash, GiveUp, Query, LeaveColumns

\* One step keeps what is known of the tables so far.
LEMMA TablesStep ==
    ASSUME TypeOK, AtFirst, TablesSoFar, Next
    PROVE  TablesSoFar'
<1>1. /\ NTables \in Nat \ {0} /\ i \in Int
      /\ pc # "done" => i \in Tables
  BY SchemaAssumption DEF TypeOK
<1> USE DEF InLoop
<1>2. CASE Restart
  BY <1>2 DEF Restart, TablesSoFar
<1> SUFFICES ASSUME ~misread', ~Restart PROVE TablesSoFar'
  BY <1>2, Zenon DEF TablesSoFar
<1>3. ~misread
  BY MisreadStep
<1> USE <1>3 DEF TablesSoFar
<1>4. ASSUME pc' = "failed"
      PROVE  TablesSoFar'
  BY <1>4
<1>5. ASSUME pc \in InLoop, NextTable, schema' = schema, tables' = tables, i \in tables
      PROVE  TablesSoFar'
  BY <1>1, <1>5 DEF NextTable, Tables
<1>6. ASSUME pc \in {"column", "alter"}, NextColumn, schema' = schema, tables' = tables
      PROVE  TablesSoFar'
  BY <1>5, <1>6 DEF NextColumn
<1>7. ASSUME NEW from \in {"newTable", "createTable"}, NEW next \in {"newTable", "table"},
             CreateTable(from, next)
      PROVE  TablesSoFar'
  <2>1. CASE pc' = "failed"
    BY <1>4, <2>1
  <2>2. CASE /\ tables' = tables \cup {i} /\ i' = i + 1 /\ schema' = schema
             /\ pc' = IF i = NTables THEN "done" ELSE next
    BY <1>1, <1>7, <2>2 DEF CreateTable, Tables
  <2> QED
    BY <1>7, <2>1, <2>2, Zenon DEF CreateTable, GiveUp
<1>8. CASE ConnectToDM
  BY <1>8 DEF ConnectToDM, GiveUp, db, loops
<1>9. CASE CheckSchema
  <2>1. \/ pc' = "table" /\ schema /\ i' = i
        \/ pc' \in {"createSchema", "failed"}
    BY <1>9, Zenon DEF CheckSchema, GiveUp, Query, loops
  <2>2. i = 1 /\ schema' = schema
    BY <1>9 DEF CheckSchema, AtFirst, db
  <2> QED
    BY <2>1, <2>2 DEF Tables
<1>10. CASE CreateSchema
  BY <1>10 DEF CreateSchema, GiveUp, Tables, AtFirst, loops
<1>11. CASE CheckTable
  <2>1. \/ pc' = "column" /\ i \in tables /\ i' = i
        \/ pc' = "createTable" /\ i' = i
        \/ pc' = "failed"
    BY <1>11, Zenon DEF CheckTable, GiveUp, Query, TableFound, loops
  <2>2. pc = "table" /\ schema' = schema /\ tables' = tables
    BY <1>11 DEF CheckTable, db
  <2> QED
    BY <2>1, <2>2
<1>12. CASE CheckColumn
  <2>1. \/ NextColumn
        \/ pc' = "alter" /\ i' = i
        \/ pc' = "failed"
    BY <1>12, Zenon DEF CheckColumn, GiveUp, Query, loops
  <2>2. pc = "column" /\ schema' = schema /\ tables' = tables
    BY <1>12 DEF CheckColumn, db
  <2> QED
    BY <1>4, <1>6, <2>1, <2>2
<1>13. CASE AlterTable
  BY <1>4, <1>5, <1>6, <1>13 DEF AlterTable, GiveUp, LeaveColumns
<1> QED
  BY <1>7, <1>8, <1>9, <1>10, <1>11, <1>12, <1>13 DEF Next, Program, StartAgain, Crash

\* Whatever happened before, main goes on to serve only when the schema and
\* every configured table exist, if every fetch of this run succeeded.
THEOREM TablesReady == Spec => []ReadyMeansTables
<1> DEFINE SoFar == AtFirst /\ TablesSoFar
<1>1. Init => SoFar
  BY DEF Init, AtFirst, TablesSoFar, InLoop
<1>2. TypeOK /\ SoFar /\ [Next]_vars => SoFar'
  <2> SUFFICES ASSUME TypeOK, SoFar, [Next]_vars PROVE SoFar'
    OBVIOUS
  <2>1. CASE Next
    BY <2>1, AtFirstStep, TablesStep
  <2>2. CASE UNCHANGED vars
    BY <2>2, Zenon DEF vars, AtFirst, TablesSoFar
  <2> QED
    BY <2>1, <2>2
<1>3. TypeOK /\ SoFar => ReadyMeansTables
  BY DEF TypeOK, TablesSoFar, ReadyMeansTables
<1> QED
  BY TypeCorrect, <1>1, <1>2, <1>3, PTL DEF Spec

-----------------------------------------------------------------------------
(* Columns.                                                                *)

\* One step keeps what is known of the columns so far.
LEMMA ColumnsStep ==
    ASSUME TypeOK, AtFirst, ColumnsSoFar, Next
    PROVE  ColumnsSoFar'
<1> DEFINE New(t, c) == <<t, c>> \in columns' \/ <<t, c>> \in Foreign
<1>1. /\ NTables \in Nat \ {0} /\ NColumns \in Nat \ {0}
      /\ i \in Int /\ j \in Columns
      /\ pc # "done" => i \in Tables
  BY SchemaAssumption DEF TypeOK
<1>2. columns \subseteq columns'
  BY Zenon DEF Next, Program, ConnectToDM, CheckSchema, CreateSchema, CreateTable,
       CheckTable, CheckColumn, AlterTable, Altered, StartAgain, Crash, Restart, db
<1>3. \A t \in Tables, c \in Columns : Has(t, c) => New(t, c)
  BY <1>2, Zenon DEF Has
<1>4. ASSUME skipped' \/ misread' PROVE ColumnsSoFar'
  BY <1>4, Zenon DEF ColumnsSoFar
<1> SUFFICES ASSUME ~skipped', ~misread' PROVE ColumnsSoFar'
  BY <1>4, Zenon
<1>5. CASE Restart
  BY <1>5, <1>1 DEF Restart, ColumnsSoFar, InLoop
<1>6. ASSUME pc' = "failed" PROVE ColumnsSoFar'
  BY <1>6 DEF ColumnsSoFar, InLoop
<1>7. CASE ~Restart /\ pc' # "failed"
  <2>1. ~misread
    BY <1>7, MisreadStep
  <2>2. ~skipped
    BY <1>7, Zenon DEF Next, Program, ConnectToDM, CheckSchema, CreateSchema, CreateTable,
       CheckTable, CheckColumn, AlterTable, StartAgain, Crash, GiveUp, Query, LeaveColumns, loops
  <2>3. /\ pc \in InLoop => \A t \in Tables, c \in Columns : t < i => New(t, c)
        /\ pc \in {"column", "alter"} => \A c \in Columns : c < j => New(i, c)
    BY <1>1, <1>3, <2>2, <2>1 DEF ColumnsSoFar, InLoop
  <2>4. ASSUME i' = i + 1, pc' \in {"newTable", "table", "done"},
              \A t \in Tables, c \in Columns : t < i + 1 => New(t, c),
              pc' = "done" => i = NTables
        PROVE  ColumnsSoFar'
    <3>1. i = NTables => \A t \in Tables : t < i + 1
      BY <1>1 DEF Tables
    <3>2. pc' = "done" => \A t \in Tables, c \in Columns : New(t, c)
      BY <2>4, <3>1, Zenon
    <3>3. \A t \in Tables, c \in Columns : t < i' => New(t, c)
      BY <2>4
    <3>4. /\ pc' \in InLoop => \A t \in Tables, c \in Columns : t < i' => Has(t, c)'
          /\ pc' = "done" => \A t \in Tables, c \in Columns : Has(t, c)'
      BY <3>2, <3>3, Zenon DEF Has
    <3>5. pc' \notin {"column", "alter"}
      BY <2>4
    <3> QED
      BY <3>4, <3>5 DEF ColumnsSoFar
  <2> USE DEF InLoop
  <2>5. ASSUME NEW from \in {"newTable", "createTable"}, NEW next \in {"newTable", "table"},
               CreateTable(from, next)
        PROVE  ColumnsSoFar'
    <3>1. /\ pc \in InLoop /\ columns' = columns \cup NewColumns(i) /\ i' = i + 1
          /\ pc' = IF i = NTables THEN "done" ELSE next
      BY <1>7, <2>5, Zenon DEF CreateTable, GiveUp
    <3>2. \A c \in Columns : New(i, c)
      BY <3>1 DEF NewColumns, Has
    <3>3. \A t \in Tables, c \in Columns : t < i + 1 => New(t, c)
      BY <1>1, <2>3, <3>1, <3>2 DEF Tables
    <3> QED
      BY <2>4, <1>1, <3>1, <3>3 DEF Tables
  <2>6. ASSUME pc \in {"column", "alter"}, NextColumn, New(i, j)
        PROVE  ColumnsSoFar'
    <3>1. \A c \in Columns : c <= j => New(i, c)
      BY <1>1, <2>3, <2>6 DEF Columns
    <3>2. CASE LastColumn(j)
      <4>1. \A c \in Columns : New(i, c)
        BY <1>1, <3>1, <3>2 DEF LastColumn, Columns
      <4>2. i' = i + 1 /\ pc' = IF i = NTables THEN "done" ELSE "table"
        BY <2>6, <3>2, Zenon DEF NextColumn, NextTable
      <4>3. \A t \in Tables, c \in Columns : t < i + 1 => New(t, c)
        BY <1>1, <2>3, <2>6, <4>1 DEF Tables
      <4> QED
        BY <2>4, <1>1, <4>2, <4>3 DEF Tables
    <3>3. CASE ~LastColumn(j)
      <4>1. j' = j + 1 /\ pc' = "column" /\ i' = i
        BY <2>6, <3>3, Zenon DEF NextColumn
      <4>2. \A c \in Columns : c < j + 1 => New(i, c)
        BY <1>1, <3>1 DEF Columns
      <4> QED
        BY <2>3, <2>6, <4>1, <4>2 DEF ColumnsSoFar, Has
    <3> QED
      BY <3>2, <3>3
  <2>7. CASE ConnectToDM
    BY <1>7, <2>7 DEF ConnectToDM, GiveUp, ColumnsSoFar
  <2>8. CASE CheckSchema \/ CreateSchema
    <3>1. i = 1 /\ i' = 1 /\ pc' \notin {"column", "alter", "done"}
      BY <1>7, <2>8, <2>1 DEF CheckSchema, CreateSchema, AtFirst, GiveUp, Query, loops
    <3> QED
      BY <3>1 DEF ColumnsSoFar, Tables
  <2>9. CASE CheckTable
    <3>1. pc \in InLoop /\ i' = i /\ pc' \in {"column", "createTable"} /\ (pc' = "column" => j' = 1)
      BY <1>7, <2>9, <2>1 DEF CheckTable, GiveUp, Query, loops
    <3> QED
      BY <2>3, <3>1 DEF ColumnsSoFar, Columns, Has
  <2>10. CASE CheckColumn
    <3>1. CASE ColumnFound(i, j) /\ NextColumn
      <4>1. New(i, j)
        BY <1>2, <3>1, Zenon DEF ColumnFound, Has
      <4> QED
        BY <2>6, <2>10, <3>1, <4>1 DEF CheckColumn
    <3>2. CASE pc' = "alter" /\ i' = i /\ j' = j
      BY <2>3, <2>10, <3>2 DEF CheckColumn, ColumnsSoFar, Has
    <3> QED
      BY <1>7, <2>10, <2>1, <3>1, <3>2, Zenon DEF CheckColumn, GiveUp, Query, loops
  <2>11. CASE AlterTable
    <3>1. columns' = columns \cup {<<i, j>>} /\ NextColumn /\ pc = "alter"
      BY <1>7, <2>11, Zenon DEF AlterTable, GiveUp, Altered, LeaveColumns
    <3>2. New(i, j)
      BY <3>1, Zenon DEF Has
    <3> QED
      BY <2>6, <3>1, <3>2
  <2> QED
    BY <1>7, <2>5, <2>7, <2>8, <2>9, <2>10, <2>11 DEF Next, Program, StartAgain, Crash
<1> QED
  BY <1>5, <1>6, <1>7

\* When main goes on to serve, no fetch failed and no column loop was left
\* early in this run, every configured column is there, or another schema hides that it is not.
THEOREM ColumnsReady == Spec => []ReadyMeansColumns
<1> DEFINE SoFar == AtFirst /\ ColumnsSoFar
<1>1. Init => SoFar
  BY DEF Init, AtFirst, ColumnsSoFar, InLoop
<1>2. TypeOK /\ SoFar /\ [Next]_vars => SoFar'
  <2> SUFFICES ASSUME TypeOK, SoFar, [Next]_vars PROVE SoFar'
    OBVIOUS
  <2>1. CASE Next
    BY <2>1, AtFirstStep, ColumnsStep
  <2>2. CASE UNCHANGED vars
    BY <2>2, Zenon DEF vars, AtFirst, ColumnsSoFar, Has
  <2> QED
    BY <2>1, <2>2
<1>3. SoFar => ReadyMeansColumns
  BY DEF ColumnsSoFar, ReadyMeansColumns, Has
<1> QED
  BY TypeCorrect, <1>1, <1>2, <1>3, PTL DEF Spec
=============================================================================
