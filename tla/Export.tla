------------------------------- MODULE Export -------------------------------
(***************************************************************************)
(* CSqlGradOperate's reads of a report table while workers insert into it: *)
(* GetDataBySubmitTime with SavaDataAsCsv ("export"), which counts the rows *)
(* of a period by one query and selects them by a second, and GetPageLines  *)
(* and GetPageLinesLimitId ("page"), which only count.                     *)
(*                                                                         *)
(* The rows of the period are numbered as they are inserted; nothing       *)
(* deletes them.  A cell is <<row, column>>, and row 0 is the buffer as    *)
(* memset left it.                                                         *)
(***************************************************************************)
EXTENDS Integers, Sequences

CONSTANTS
    NColumns, \* iClomuSize of the table
    Orders,   \* orders in which the database may have the columns
    Garbage,  \* values of the uninitialised iLineSize
    ShortMod, \* 2^16: one more than an unsigned short holds
    MaxRows,  \* bound: rows that are ever inserted
    MaxErrors \* bound: fetches that fail

Columns == 1..NColumns

ASSUME ExportAssumption ==
    /\ NColumns \in Nat \ {0} /\ ShortMod \in Nat \ {0}
    /\ MaxRows \in Nat /\ MaxErrors \in Nat
    /\ Garbage \subseteq Int /\ Garbage # {}
    /\ Orders # {} /\ Orders \subseteq [Columns -> Columns]

VARIABLES
    kind,    \* "export" or "page"
    known,   \* the table is one of m_pstTableMap's
    writable, \* the file can be opened
    order,   \* the column that SELECT * has at each place
    nrows,   \* rows of the period in the table now
    pc,      \* where the call is
    lines,   \* dataAll.iLineSize, or RowNumber
    result,  \* what is left of the result set
    i,       \* the loop counter of GetDataByExcuteSql
    buf,     \* the row in the bound buffers
    cells,   \* dataAll.vecDbRow
    file,    \* the lines below the header that reached the file
    open,    \* statement handles of the call that are not freed
    before,  \* history: nrows when the call began
    counted, \* history: the count was answered
    errors,  \* history: fetches that failed and were taken for a row
    kept     \* history: dm_free_stmt failed

vars == <<kind, known, writable, order, nrows, pc, lines, result, i, buf, cells, file, open,
          before, counted, errors, kept>>
fixed == <<kind, known, writable, order, before>>
data == <<result, i, buf, cells>>

-----------------------------------------------------------------------------
(* Mutants: plausible mistakes in the definitions below.                   *)

CutOffByOne(n) == IF kind = "page" THEN n % (ShortMod - 1) ELSE n
RowCellsShifted(row) == [c \in Columns |-> <<row, order[1 + (c % NColumns)]>>]
BindColumnsKeeps ==
    /\ pc = "bind"
    /\ pc' \in {"fetch", "failed"}
    /\ UNCHANGED <<fixed, nrows, lines, data, file, open, counted, errors, kept>>

-----------------------------------------------------------------------------
\* GetCommitTimeLines hands the count out as a long, the page counts as an
\* unsigned short.
Cut(n) == IF kind = "page" THEN n % ShortMod ELSE n

\* One row of the bound buffers as GetDataByExcuteSql pushes it: by place.
RowCells(row) == [c \in Columns |-> <<row, order[c]>>]

\* Line l of vecDbRow, cells (l - 1) * iClomuSize and following.
LineOf(l) == [c \in Columns |-> cells[(l - 1) * NColumns + c]]

\* The result of a SELECT without ORDER BY (external).
RowOrders(n) == { s \in [1..n -> 1..n] : \A a, b \in 1..n : s[a] = s[b] => a = b }

\* dm_free_stmt (external) on the last handle, and whether it worked.
Freed == open' = open - 1 /\ kept' = kept
NotFreed == open' = open /\ kept' = TRUE

-----------------------------------------------------------------------------
(* CDbData's constructor leaves iLineSize as it is.  The caller's table    *)
(* may be unknown, and its columns may be in another order than the        *)
(* configuration has them: InitDMShemaAndTable adds missing ones last.     *)
Init ==
    /\ kind \in {"export", "page"}
    /\ known \in BOOLEAN /\ writable \in BOOLEAN
    /\ order \in Orders
    /\ nrows \in 0..MaxRows
    /\ pc = "init"
    /\ lines \in Garbage
    /\ result = <<>> /\ i = 0 /\ buf = 0 /\ cells = <<>> /\ file = <<>>
    /\ open = 0
    /\ before = nrows
    /\ counted = FALSE /\ errors = 0 /\ kept = FALSE

\* A worker's DataInsert commits a row of the period.
Insert ==
    /\ nrows < MaxRows
    /\ nrows' = nrows + 1
    /\ UNCHANGED <<fixed, pc, lines, data, file, open, counted, errors, kept>>

\* InitDbData: the check for an unknown table is inside the loop and never
\* true, so an unknown one goes on with an uninitialised pointer.
InitDbData ==
    /\ pc = "init"
    /\ pc' = IF known \/ kind = "page" THEN "count" ELSE "undefined"
    /\ UNCHANGED <<fixed, nrows, lines, data, file, open, counted, errors, kept>>

\* The caller on the result of the count: the export ignores it.
AfterCount == IF kind = "export" THEN "select" ELSE "done"

\* The count query is executed, or is not and has its handle freed.
Count ==
    /\ pc = "count"
    /\ \/ pc' = "countFetch" /\ open' = open + 1 /\ result' = <<nrows>>
       \/ pc' = AfterCount /\ UNCHANGED <<open, result>>
    /\ UNCHANGED <<fixed, nrows, lines, i, buf, cells, file, counted, errors, kept>>

\* Binding fails, the fetch fails and the count stays 0, or it is answered;
\* in each case the handle is freed and the result ignored.
CountFetch ==
    /\ pc = "countFetch"
    /\ \/ UNCHANGED <<lines, counted, errors>>
       \/ lines' = 0 /\ errors < MaxErrors /\ errors' = errors + 1 /\ counted' = TRUE
       \/ lines' = Cut(result[1]) /\ counted' = TRUE /\ UNCHANGED errors
    /\ result' = <<>>
    /\ Freed \/ NotFreed
    /\ pc' = AfterCount
    /\ UNCHANGED <<fixed, nrows, i, buf, cells, file>>

\* GetSqlByTime and BindSql2Exe.
Select ==
    /\ pc = "select"
    /\ \/ pc' = "bind" /\ open' = open + 1 /\ result' \in RowOrders(nrows)
       \/ pc' = "failed" /\ UNCHANGED <<open, result>>
    /\ UNCHANGED <<fixed, nrows, lines, i, buf, cells, file, counted, errors, kept>>

\* GetDataByExcuteSql binds the columns.
BindColumns ==
    /\ pc = "bind"
    /\ \/ pc' = "fetch" /\ UNCHANGED <<open, kept>>
       \/ pc' = "failed" /\ (Freed \/ NotFreed)
    /\ UNCHANGED <<fixed, nrows, lines, data, file, counted, errors>>

\* Mutant: the end of the result is not noticed.
FetchOn ==
    /\ pc = "fetch" /\ i < lines
    /\ \/ /\ result # <<>>
          /\ buf' = Head(result) /\ result' = Tail(result)
       \/ result = <<>> /\ UNCHANGED <<buf, result>>
    /\ cells' = cells \o RowCells(buf')
    /\ i' = i + 1
    /\ UNCHANGED <<fixed, nrows, pc, lines, file, open, counted, errors, kept>>

\* One round of the loop.  DSQL_NO_DATA alone ends it early; else a row was
\* fetched into the buffers, or the fetch failed and left them as they were,
\* and they are pushed either way.
Fetch ==
    /\ pc = "fetch" /\ i < lines
    /\ \/ /\ result = <<>>
          /\ pc' = "free" /\ UNCHANGED <<data, errors>>
       \/ /\ result # <<>>
          /\ buf' = Head(result) /\ result' = Tail(result)
          /\ cells' = cells \o RowCells(buf')
          /\ i' = i + 1
          /\ UNCHANGED <<pc, errors>>
       \/ /\ errors < MaxErrors /\ errors' = errors + 1
          /\ cells' = cells \o RowCells(buf)
          /\ i' = i + 1
          /\ UNCHANGED <<pc, buf, result>>
    /\ UNCHANGED <<fixed, nrows, lines, file, open, counted, kept>>

\* The loop ends, the handle is freed: a failure discards the whole result.
FreeStmt ==
    /\ pc = "free" \/ (pc = "fetch" /\ i >= lines)
    /\ \/ Freed /\ pc' = "save"
       \/ NotFreed /\ pc' = "failed"
    /\ UNCHANGED <<fixed, nrows, lines, data, file, counted, errors>>

\* The lines that SavaDataAsCsv's loop gets through; -1 when vecDbRow.at
\* throws at a line that is not there.  A negative size is a huge size_t.
SaveLines == IF lines \in 0..(Len(cells) \div NColumns) THEN lines ELSE -1

\* The stream is never asked whether it could be opened.
SavaDataAsCsv ==
    /\ pc = "save"
    /\ LET have == Len(cells) \div NColumns
           n    == IF SaveLines = -1 THEN have ELSE SaveLines
       IN  file' = IF writable THEN [l \in 1..n |-> LineOf(l)] ELSE <<>>
    /\ pc' = IF SaveLines = -1 THEN "thrown" ELSE "done"
    /\ UNCHANGED <<fixed, nrows, lines, data, open, counted, errors, kept>>

Next ==
    \/ Insert \/ InitDbData \/ Count \/ CountFetch \/ Select
    \/ BindColumns \/ Fetch \/ FreeStmt \/ SavaDataAsCsv

Spec == Init /\ [][Next]_vars

-----------------------------------------------------------------------------
(* Properties.                                                             *)

Ended == {"done", "failed", "thrown", "undefined"}

\* Rows of the result that reached the file.
RowOf(l) == file[l][1][1]

\* Every line of the file is one row, its cells at the places the database
\* has the columns, so under their own names if the table was created as it
\* is configured.  The flat vecDbRow and the line size, which come from two
\* queries, never shift a line into the next.
LinesAreRows ==
    \A l \in 1..Len(file) : file[l] = [c \in Columns |-> <<RowOf(l), order[c]>>]

\* No row is in the file twice, and none that is not in the table, unless a
\* failed fetch was taken for a row.
EachRowOnce ==
    errors = 0 =>
        /\ \A l \in 1..Len(file) : RowOf(l) \in 1..nrows
        /\ \A l, m \in 1..Len(file) : RowOf(l) = RowOf(m) => l = m

\* A call whose rows were counted does not throw, though the rows it indexes
\* by that count come from a later query, and ends with as many lines, or the
\* page count, as the table had rows at some moment of the call: exactly those
\* rows if none was inserted meanwhile, otherwise new rows may stand in for old
\* ones.  A page count holds up to what an unsigned short can tell.
CountedIsComplete ==
    counted =>
        /\ pc # "thrown"
        /\ kind = "export" /\ pc = "done" /\ errors = 0 /\ writable =>
              /\ before <= Len(file) /\ Len(file) <= nrows
              /\ nrows = before => { RowOf(l) : l \in 1..Len(file) } = 1..before
        /\ kind = "page" /\ pc = "done" /\ errors = 0 /\ nrows < ShortMod =>
              before <= lines /\ lines <= nrows

\* However the call ends, it has given its statement handles back, unless
\* dm_free_stmt itself failed.
HandlesFreed == pc \in Ended /\ ~kept => open = 0
=============================================================================
