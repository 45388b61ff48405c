---------------------------- MODULE ExportProofs ----------------------------
(***************************************************************************)
(* What holds of the export and the page counts for tables with any number *)
(* of columns in any order, any number of rows inserted meanwhile, any     *)
(* uninitialised line size and any number of failing fetches.              *)
(***************************************************************************)
EXTENDS Export, FiniteSetTheorems, FunctionTheorems, TLAPS

\* Where a call can be.
Labels == {"init", "count", "countFetch", "select", "bind", "fetch", "free", "save"} \cup Ended

\* A cell is the row and the column that a string came from.
Cell == Nat \X Columns

\* The values the variables take; the count is a result of one row.
TypeOK ==
    /\ kind \in {"export", "page"}
    /\ order \in [Columns -> Columns]
    /\ nrows \in Nat /\ before \in 0..nrows
    /\ pc \in Labels
    /\ lines \in Int /\ i \in Nat /\ buf \in Nat /\ errors \in Nat
    /\ result \in Seq(Nat)
    /\ cells \in Seq(Cell)
    /\ pc = "countFetch" => Len(result) = 1

-----------------------------------------------------------------------------
(* Lines of the flat vector.                                               *)

\* The row that line l of vecDbRow came from.
Row(l) == cells[(l - 1) * NColumns + 1][1]

\* vecDbRow holds i lines, and each is one row.
CellsInv ==
    /\ Len(cells) = i * NColumns
    /\ \A l \in 1..i, c \in Columns : cells[(l - 1) * NColumns + c] = <<Row(l), order[c]>>

\* The loop has not begun.
Fresh == i = 0 /\ cells = <<>>

\* The file is made of the first lines of vecDbRow.
FileInv ==
    /\ pc \in {"init", "count", "countFetch", "select", "bind"} => Fresh
    /\ file \in Seq([Columns -> Cell])
    /\ Len(file) <= i
    /\ \A l \in 1..Len(file) : file[l] = LineOf(l)
    /\ pc \notin {"done", "thrown"} => file = <<>>

\* Line l begins behind the lines before it, its cells lie within the first n
\* lines if it is one of them, and n lines of cells are n lines.
LEMMA LinePlace ==
    ASSUME NEW n \in Nat, NEW l \in 1..n, NEW c \in Columns
    PROVE  (l - 1) * NColumns + c \in 1..(n * NColumns)
<1>1. NColumns \in Nat \ {0} /\ c \in 1..NColumns
  BY ExportAssumption DEF Columns
<1>2. (l - 1) * NColumns \in Nat
  BY <1>1
<1>3. (n - l) * NColumns \in Nat
  BY <1>1
<1>4. n * NColumns = (l - 1) * NColumns + (n - l) * NColumns + NColumns
  BY <1>1
<1> QED
  BY <1>1, <1>2, <1>3, <1>4

\* n lines of cells are n lines.
LEMMA LinesOf ==
    ASSUME NEW n \in Nat
    PROVE  /\ n * NColumns \in Nat
           /\ (n + 1) * NColumns = n * NColumns + NColumns
           /\ (n * NColumns) \div NColumns = n
BY ExportAssumption

\* A function on 1..n is a sequence of length n.
LEMMA FunctionIsSeq ==
    ASSUME NEW S, NEW n \in Nat, NEW f \in [1..n -> S]
    PROVE  f \in Seq(S) /\ Len(f) = n
OBVIOUS

\* What is joined is behind what it is joined to.
LEMMA Joined ==
    ASSUME NEW S, NEW s \in Seq(S), NEW t \in Seq(S)
    PROVE  /\ s \o t \in Seq(S) /\ Len(s \o t) = Len(s) + Len(t)
           /\ \A k \in 1..Len(s) : (s \o t)[k] = s[k]
           /\ \A k \in 1..Len(t) : (s \o t)[Len(s) + k] = t[k]
OBVIOUS

\* The cells of a row, in the order of the columns.
LEMMA RowCellsType ==
    ASSUME TypeOK, NEW r \in Nat
    PROVE  /\ RowCells(r) \in Seq(Cell) /\ Len(RowCells(r)) = NColumns
           /\ \A c \in Columns : RowCells(r)[c] = <<r, order[c]>>
<1>1. NColumns \in Nat
  BY ExportAssumption
<1>2. \A c \in Columns : <<r, order[c]>> \in Cell
  BY DEF TypeOK, Cell
<1>3. RowCells(r) \in [1..NColumns -> Cell]
  BY <1>2 DEF RowCells, Columns
<1> QED
  BY <1>1, <1>3, FunctionIsSeq DEF RowCells

\* One round of the loop adds one line and leaves the others.
LEMMA PushRow ==
    ASSUME TypeOK, CellsInv, NEW r \in Nat,
           cells' = cells \o RowCells(r), i' = i + 1, order' = order
    PROVE  /\ cells' \in Seq(Cell) /\ CellsInv' /\ Row(i)' = r
           /\ \A l \in 1..i : Row(l)' = Row(l) /\ LineOf(l)' = LineOf(l)
<1> DEFINE new == RowCells(r)
<1>1. /\ new \in Seq(Cell) /\ Len(new) = NColumns
      /\ \A c \in Columns : new[c] = <<r, order[c]>>
  BY RowCellsType
<1>2. NColumns \in Nat \ {0} /\ i \in Nat /\ cells \in Seq(Cell)
      /\ i * NColumns \in Nat /\ Len(cells) = i * NColumns
  BY ExportAssumption, LinesOf DEF TypeOK, CellsInv
<1> HIDE DEF new
<1>3. /\ cells' \in Seq(Cell)
      /\ Len(cells') = Len(cells) + NColumns
      /\ \A k \in 1..Len(cells) : cells'[k] = cells[k]
      /\ \A c \in Columns : cells'[Len(cells) + c] = new[c]
  <2>1. cells' = cells \o new
    BY DEF new
  <2>2. 1..Len(new) = Columns
    BY <1>1 DEF Columns
  <2>3. /\ cells \o new \in Seq(Cell) /\ Len(cells \o new) = Len(cells) + Len(new)
        /\ \A k \in 1..Len(cells) : (cells \o new)[k] = cells[k]
        /\ \A k \in 1..Len(new) : (cells \o new)[Len(cells) + k] = new[k]
    <3>1. new \in Seq(Cell) /\ cells \in Seq(Cell)
      BY <1>1, <1>2
    <3> QED
      BY <3>1, Joined
  <2> QED
    BY <1>1, <2>1, <2>2, <2>3, Zenon
<1>4. Len(cells') = i' * NColumns
  BY <1>2, <1>3, LinesOf
<1>5. ASSUME NEW l \in 1..i, NEW c \in Columns
      PROVE  cells'[(l - 1) * NColumns + c] = cells[(l - 1) * NColumns + c]
  BY <1>2, <1>3, LinePlace
<1>6. \A l \in 1..i : Row(l)' = Row(l) /\ LineOf(l)' = LineOf(l)
  <2>1. 1 \in Columns
    BY <1>2 DEF Columns
  <2> QED
    BY <1>5, <2>1 DEF Row, LineOf
<1>7. \A c \in Columns : cells'[(i' - 1) * NColumns + c] = <<r, order[c]>>
  <2>1. (i' - 1) * NColumns = Len(cells)
    BY <1>2
  <2> QED
    BY <1>1, <1>3, <2>1
<1>8. Row(i)' = r
  <2>1. 1 \in Columns
    BY <1>2 DEF Columns
  <2>2. cells'[(i' - 1) * NColumns + 1] = <<r, order[1]>>
    BY <1>7, <2>1
  <2>3. <<r, order[1]>>[1] = r
    OBVIOUS
  <2> QED
    BY <2>2, <2>3, Zenon DEF Row
<1>9. \A l \in 1..i', c \in Columns : cells'[(l - 1) * NColumns + c] = <<Row(l)', order'[c]>>
  <2>1. \A l \in 1..i, c \in Columns : cells'[(l - 1) * NColumns + c] = <<Row(l)', order'[c]>>
    BY <1>5, <1>6 DEF CellsInv
  <2>2. \A c \in Columns : cells'[(i' - 1) * NColumns + c] = <<Row(i)', order'[c]>>
    BY <1>7, <1>8
  <2>3. \A l \in 1..i' : l \in 1..i \/ l = i'
    BY <1>2
  <2> QED
    BY <2>1, <2>2, <2>3, Zenon
<1> QED
  BY <1>3, <1>4, <1>6, <1>8, <1>9 DEF CellsInv

\* The first element of a sequence and the rest.
LEMMA HeadTail ==
    ASSUME NEW S, NEW s \in Seq(S), s # <<>>
    PROVE  /\ Len(s) \in Nat /\ Len(s) > 0 /\ Head(s) \in S /\ Head(s) = s[1]
           /\ Tail(s) \in Seq(S) /\ Len(Tail(s)) = Len(s) - 1
           /\ \A k \in 1..(Len(s) - 1) : k + 1 \in 1..Len(s) /\ Tail(s)[k] = s[k + 1]
OBVIOUS

\* What a SELECT returns: nrows different rows of the table.
LEMMA SelectedRows ==
    ASSUME NEW n \in Nat, NEW s \in RowOrders(n)
    PROVE  /\ s \in Seq(Nat) /\ Len(s) = n
           /\ \A p \in 1..n : s[p] \in 1..n
           /\ \A p, q \in 1..n : s[p] = s[q] => p = q
<1>1. s \in [1..n -> Nat]
  BY DEF RowOrders
<1>2. \A p \in 1..n : s[p] \in 1..n
  BY DEF RowOrders
<1>3. \A p, q \in 1..n : s[p] = s[q] => p = q
  BY DEF RowOrders
<1> QED
  BY <1>1, <1>2, <1>3, FunctionIsSeq

\* The count is a number.
LEMMA CountedRows ==
    ASSUME TypeOK, pc = "countFetch"
    PROVE  result[1] \in Nat
<1>1. result \in Seq(Nat) /\ Len(result) = 1
  BY DEF TypeOK
<1>2. Len(<<>>) = 0 /\ 0 # 1
  OBVIOUS
<1>3. result # <<>>
  BY <1>1, <1>2, Zenon
<1> QED
  BY <1>1, <1>3, HeadTail

\* vecDbRow is empty at first.
LEMMA TypeInit == Init => TypeOK /\ CellsInv
<1> SUFFICES ASSUME Init PROVE TypeOK /\ CellsInv
  OBVIOUS
<1>1. order \in [Columns -> Columns] /\ lines \in Int
  BY ExportAssumption DEF Init
<1>2. nrows \in Nat /\ before \in 0..nrows
  BY ExportAssumption DEF Init
<1>3. CellsInv
  BY ExportAssumption DEF Init, CellsInv
<1> QED
  BY <1>1, <1>2, <1>3 DEF Init, TypeOK, Labels

\* Every step keeps the lines of vecDbRow whole.
LEMMA TypeNext == TypeOK /\ CellsInv /\ [Next]_vars => TypeOK' /\ CellsInv'
<1> SUFFICES ASSUME TypeOK, CellsInv, [Next]_vars PROVE TypeOK' /\ CellsInv'
  OBVIOUS
<1>1. ASSUME UNCHANGED <<i, cells, order>> PROVE CellsInv'
  BY <1>1 DEF CellsInv, Row
<1> USE DEF fixed, data
<1>2. CASE Insert
  BY <1>1, <1>2 DEF Insert, TypeOK
<1>3. CASE InitDbData
  BY <1>1, <1>3 DEF InitDbData, TypeOK, Labels, Ended
<1>4. CASE Count
  <2>1. <<nrows>> \in Seq(Nat) /\ Len(<<nrows>>) = 1
    BY DEF TypeOK
  <2>2. result' \in Seq(Nat) /\ (pc' = "countFetch" => Len(result') = 1)
    BY <1>4, <2>1 DEF Count, AfterCount, TypeOK
  <2>3. pc' \in Labels
    BY <1>4 DEF Count, AfterCount, Labels, Ended
  <2> QED
    BY <1>1, <1>4, <2>2, <2>3 DEF Count, TypeOK
<1>5. CASE CountFetch
  <2>1. Cut(result[1]) \in Int
    <3>1. ShortMod \in Nat \ {0}
      BY ExportAssumption
    <3>2. result[1] \in Nat
      BY <1>5, CountedRows DEF CountFetch
    <3> QED
      BY <3>1, <3>2 DEF Cut
  <2>2. lines' \in Int /\ errors' \in Nat
    BY <1>5, <2>1 DEF CountFetch, TypeOK
  <2> QED
    BY <1>1, <1>5, <2>2 DEF CountFetch, AfterCount, TypeOK, Labels, Ended
<1>6. CASE Select
  <2>1. result' \in Seq(Nat)
    BY <1>6, SelectedRows DEF Select, TypeOK
  <2> QED
    BY <1>1, <1>6, <2>1 DEF Select, TypeOK, Labels, Ended
<1>7. CASE BindColumns
  BY <1>1, <1>7 DEF BindColumns, TypeOK, Labels, Ended
<1>8. CASE Fetch
  <2>1. CASE pc' = "free" /\ UNCHANGED <<data, errors>>
    BY <1>1, <1>8, <2>1 DEF Fetch, TypeOK, Labels
  <2>2. CASE /\ result # <<>> /\ buf' = Head(result) /\ result' = Tail(result)
             /\ cells' = cells \o RowCells(buf') /\ i' = i + 1 /\ UNCHANGED <<pc, errors>>
    <3>1. Head(result) \in Nat /\ result' \in Seq(Nat)
      BY <2>2, HeadTail DEF TypeOK
    <3>2. cells' \in Seq(Cell) /\ CellsInv'
      BY <1>8, <2>2, <3>1, PushRow DEF Fetch
    <3> QED
      BY <1>8, <2>2, <3>1, <3>2 DEF Fetch, TypeOK
  <2>3. CASE /\ errors' = errors + 1 /\ cells' = cells \o RowCells(buf) /\ i' = i + 1
             /\ UNCHANGED <<pc, buf, result>>
    <3>1. cells' \in Seq(Cell) /\ CellsInv'
      BY <1>8, <2>3, PushRow DEF Fetch, TypeOK
    <3> QED
      BY <1>8, <2>3, <3>1 DEF Fetch, TypeOK
  <2> QED
    BY <1>8, <2>1, <2>2, <2>3 DEF Fetch
<1>9. CASE FreeStmt
  BY <1>1, <1>9 DEF FreeStmt, TypeOK, Labels, Ended
<1>10. CASE SavaDataAsCsv
  BY <1>1, <1>10 DEF SavaDataAsCsv, TypeOK, Labels, Ended
<1>11. CASE UNCHANGED vars
  BY <1>1, <1>11 DEF vars, TypeOK
<1> QED
  BY <1>2, <1>3, <1>4, <1>5, <1>6, <1>7, <1>8, <1>9, <1>10, <1>11 DEF Next

\* How many lines SavaDataAsCsv writes.
Saved == IF SaveLines = -1 THEN i ELSE SaveLines

\* SavaDataAsCsv writes as many lines as it was told, or all there are if there
\* are fewer.
LEMMA SavedLines ==
    ASSUME TypeOK, CellsInv
    PROVE  /\ Len(cells) \div NColumns = i
           /\ Saved \in 0..i
           /\ SaveLines = -1 <=> lines \notin 0..i
           /\ SaveLines # -1 => Saved = lines
<1>1. Len(cells) \div NColumns = i /\ i \in Nat
  BY LinesOf DEF TypeOK, CellsInv
<1> QED
  BY <1>1 DEF Saved, SaveLines

\* Line l of the vector is made of cells.
LEMMA LineType ==
    ASSUME TypeOK, CellsInv, NEW l \in 1..i
    PROVE  /\ LineOf(l) \in [Columns -> Cell] /\ LineOf(l)[1][1] = Row(l)
           /\ LineOf(l) = [c \in Columns |-> <<Row(l), order[c]>>]
<1>1. i \in Nat /\ Len(cells) = i * NColumns /\ cells \in Seq(Cell)
  BY DEF TypeOK, CellsInv
<1>2. 1 \in Columns
  BY ExportAssumption DEF Columns
<1>3. \A c \in Columns : (l - 1) * NColumns + c \in 1..Len(cells)
  BY <1>1, LinePlace
<1>4. \A c \in Columns : cells[(l - 1) * NColumns + c] \in Cell
  BY <1>1, <1>3
<1>5. LineOf(l) = [c \in Columns |-> <<Row(l), order[c]>>]
  BY DEF LineOf, CellsInv
<1> QED
  BY <1>2, <1>4, <1>5 DEF LineOf, Row

\* There is no file at first.
LEMMA FileInit == Init => FileInv
BY DEF Init, FileInv, Fresh

\* Every step keeps the file what was in vecDbRow.
LEMMA FileNext == TypeOK /\ CellsInv /\ FileInv /\ [Next]_vars => FileInv'
<1> SUFFICES ASSUME TypeOK, CellsInv, FileInv, [Next]_vars PROVE FileInv'
  OBVIOUS
<1> USE DEF fixed, data
<1>1. ASSUME UNCHANGED <<i, cells, file>>,
             pc' \in {"init", "count", "countFetch", "select", "bind"} => Fresh,
             file = <<>> \/ (pc \in {"done", "thrown"} /\ pc' = pc)
      PROVE  FileInv'
  BY <1>1 DEF FileInv, LineOf, Fresh
<1>2. CASE Insert
  BY <1>1, <1>2 DEF Insert, FileInv
<1>3. CASE InitDbData \/ Count \/ CountFetch \/ Select
  <2>1. UNCHANGED <<i, cells, file>> /\ Fresh /\ file = <<>>
    BY <1>3 DEF InitDbData, Count, CountFetch, Select, FileInv
  <2> QED
    BY <1>1, <2>1
<1>4. CASE BindColumns
  BY <1>1, <1>4 DEF BindColumns, FileInv
<1>5. CASE Fetch
  <2>1. file = <<>> /\ file' = file /\ i' \in Nat /\ pc' \in {"fetch", "free"}
    BY <1>5 DEF Fetch, FileInv, TypeOK
  <2>2. Len(file') = 0 /\ file' \in Seq([Columns -> Cell])
    BY <2>1
  <2> QED
    BY <2>1, <2>2 DEF FileInv
<1>6. CASE FreeStmt
  BY <1>1, <1>6 DEF FreeStmt, FileInv
<1>7. CASE SavaDataAsCsv
  <2>1. pc' \in {"done", "thrown"} /\ UNCHANGED <<i, cells>> /\ i \in Nat
    BY <1>7 DEF SavaDataAsCsv, TypeOK
  <2>2. CASE file' = <<>>
    BY <2>1, <2>2 DEF FileInv
  <2>3. CASE file' # <<>>
    <3>1. file' = [l \in 1..Saved |-> LineOf(l)] /\ Saved \in 0..i
      BY <1>7, <2>3, SavedLines DEF SavaDataAsCsv, Saved
    <3>2. file' \in [1..Saved -> [Columns -> Cell]]
      BY <2>1, <3>1, LineType
    <3>3. Saved \in Nat /\ Saved <= i
      BY <2>1, <3>1
    <3> HIDE DEF Saved
    <3>4. file' \in Seq([Columns -> Cell]) /\ Len(file') = Saved
      BY <3>2, <3>3, FunctionIsSeq
    <3>5. \A l \in 1..Saved : LineOf(l)' = LineOf(l)
      BY <2>1 DEF LineOf
    <3>6. \A l \in 1..Len(file') : file'[l] = LineOf(l)'
      BY <3>1, <3>4, <3>5
    <3> QED
      BY <2>1, <3>3, <3>4, <3>6 DEF FileInv
  <2> QED
    BY <2>2, <2>3
<1>8. CASE UNCHANGED vars
  BY <1>1, <1>8 DEF vars, FileInv
<1> QED
  BY <1>2, <1>3, <1>4, <1>5, <1>6, <1>7, <1>8 DEF Next

\* The lines of the file are the lines of the vector, row by row.
LEMMA FileRows ==
    ASSUME TypeOK, CellsInv, FileInv, NEW l \in 1..Len(file)
    PROVE  l \in 1..i /\ RowOf(l) = Row(l) /\ file[l] = [c \in Columns |-> <<Row(l), order[c]>>]
<1>1. l \in 1..i
  BY DEF TypeOK, FileInv
<1>2. file[l] = LineOf(l)
  BY DEF FileInv
<1> QED
  BY <1>1, <1>2, LineType DEF RowOf

\* The three hold throughout.
LEMMA FileAlways == Spec => [](TypeOK /\ CellsInv /\ FileInv)
<1>1. Init => TypeOK /\ CellsInv /\ FileInv
  BY TypeInit, FileInit
<1>2. TypeOK /\ CellsInv /\ FileInv /\ [Next]_vars => (TypeOK /\ CellsInv /\ FileInv)'
  BY TypeNext, FileNext
<1> QED
  BY <1>1, <1>2, PTL DEF Spec

\* SavaDataAsCsv indexes a flat vector by a line size that comes from another
\* query, over a table of any width and with its columns in any order: a line
\* of the file still is one row, its cells at the places of their columns.
THEOREM WholeRowsInFile == Spec => []LinesAreRows
<1>1. TypeOK /\ CellsInv /\ FileInv => LinesAreRows
  BY FileRows DEF LinesAreRows
<1> QED
  BY <1>1, FileAlways, PTL

-----------------------------------------------------------------------------
(* Rows of the result.                                                     *)

\* What is left of the result are different rows of the table and, unless a
\* fetch failed, so are the lines, and none of them is left.
OnceInv ==
    /\ \A p \in 1..Len(result) : pc # "countFetch" => result[p] \in 1..nrows
    /\ \A p, q \in 1..Len(result) : result[p] = result[q] => p = q
    /\ errors = 0 =>
          /\ \A l \in 1..i : Row(l) \in 1..nrows
          /\ \A l, m \in 1..i : Row(l) = Row(m) => l = m
          /\ \A l \in 1..i, p \in 1..Len(result) : Row(l) # result[p]

\* Nothing is fetched at first.
LEMMA OnceInit == Init => OnceInv
BY DEF Init, OnceInv

\* Every fetch takes a row off the result, and inserted rows are other ones.
LEMMA OnceNext == TypeOK /\ CellsInv /\ FileInv /\ OnceInv /\ [Next]_vars => OnceInv'
<1> SUFFICES ASSUME TypeOK, CellsInv, FileInv, OnceInv, [Next]_vars PROVE OnceInv'
  OBVIOUS
<1> USE DEF fixed, data
<1>1. ASSUME UNCHANGED <<i, cells, result, errors>>, nrows' \in Nat, nrows' >= nrows,
             pc' # "countFetch" => pc # "countFetch"
      PROVE  OnceInv'
  <2>1. 1..nrows \subseteq 1..nrows'
    BY <1>1 DEF TypeOK
  <2>2. \A l \in 1..i : Row(l)' = Row(l)
    BY <1>1 DEF Row
  <2> QED
    BY <1>1, <2>1, <2>2 DEF OnceInv
<1>2. ASSUME i' = 0,
             \A p \in 1..Len(result') : pc' # "countFetch" => result'[p] \in 1..nrows',
             \A p, q \in 1..Len(result') : result'[p] = result'[q] => p = q
      PROVE  OnceInv'
  BY <1>2 DEF OnceInv
<1>3. CASE Insert
  BY <1>1, <1>3 DEF Insert, TypeOK
<1>4. CASE InitDbData
  BY <1>1, <1>4 DEF InitDbData, TypeOK
<1>5. CASE Count
  <2>1. CASE pc' = "countFetch" /\ result' = <<nrows>>
    BY <1>2, <1>5, <2>1 DEF Count, FileInv, Fresh
  <2>2. CASE UNCHANGED result
    BY <1>1, <1>5, <2>2 DEF Count, TypeOK
  <2> QED
    BY <1>5, <2>1, <2>2 DEF Count
<1>6. CASE CountFetch
  BY <1>2, <1>6 DEF CountFetch, FileInv, Fresh
<1>7. CASE Select
  <2>1. CASE result' \in RowOrders(nrows)
    BY <1>2, <1>7, <2>1, SelectedRows DEF Select, FileInv, Fresh, TypeOK
  <2>2. CASE UNCHANGED result
    BY <1>1, <1>7, <2>2 DEF Select, TypeOK
  <2> QED
    BY <1>7, <2>1, <2>2 DEF Select
<1>8. CASE BindColumns
  BY <1>1, <1>8 DEF BindColumns, TypeOK
<1>9. CASE Fetch
  <2>1. CASE UNCHANGED <<data, errors>>
    BY <1>1, <1>9, <2>1 DEF Fetch, TypeOK
  <2>2. CASE /\ result # <<>> /\ buf' = Head(result) /\ result' = Tail(result)
             /\ cells' = cells \o RowCells(buf') /\ i' = i + 1 /\ UNCHANGED <<pc, errors>>
    <3> DEFINE n == Len(result)
    <3>1. /\ n \in Nat /\ n > 0 /\ Head(result) = result[1] /\ Head(result) \in Nat
          /\ Len(result') = n - 1
          /\ \A p \in 1..(n - 1) : p + 1 \in 1..n /\ result'[p] = result[p + 1]
      BY <2>2, HeadTail DEF TypeOK
    <3>2. Row(i)' = result[1] /\ \A l \in 1..i : Row(l)' = Row(l)
      <4>1. cells' = cells \o RowCells(Head(result)) /\ order' = order
        BY <1>9, <2>2 DEF Fetch
      <4> QED
        BY <2>2, <3>1, <4>1, PushRow
    <3>3. \A l \in 1..i' : l \in 1..i \/ l = i'
      BY <2>2 DEF TypeOK
    <3>4. nrows' = nrows /\ pc # "countFetch"
      BY <1>9 DEF Fetch
    <3> HIDE DEF n
    <3>5. 1 \in 1..n
      BY <3>1
    <3>6. \A p \in 1..(n - 1) : result'[p] \in 1..nrows' /\ result'[p] # result[1]
      <4>1. \A p \in 1..(n - 1) : p + 1 # 1
        BY <3>1
      <4> QED
        BY <3>1, <3>4, <3>5, <4>1 DEF OnceInv, n
    <3>7. \A p, q \in 1..(n - 1) : result'[p] = result'[q] => p = q
      <4>1. \A p, q \in 1..(n - 1) : p + 1 = q + 1 => p = q
        BY <3>1
      <4> QED
        BY <3>1, <4>1 DEF OnceInv, n
    <3>8. ASSUME errors = 0
          PROVE  /\ \A l \in 1..i' : Row(l)' \in 1..nrows'
                 /\ \A l, m \in 1..i' : Row(l)' = Row(m)' => l = m
                 /\ \A l \in 1..i', p \in 1..(n - 1) : Row(l)' # result'[p]
      <4>1. \A l \in 1..i' : l = i' => Row(l)' = result[1]
        BY <3>2
      <4>2. result[1] \in 1..nrows /\ \A l \in 1..i : Row(l) # result[1]
        BY <3>4, <3>5, <3>8 DEF OnceInv, n
      <4>3. \A l \in 1..i' : Row(l)' \in 1..nrows'
        BY <3>2, <3>3, <3>4, <3>8, <4>1, <4>2 DEF OnceInv
      <4>4. \A l, m \in 1..i' : Row(l)' = Row(m)' => l = m
        BY <3>2, <3>3, <3>8, <4>1, <4>2 DEF OnceInv
      <4>5. \A l \in 1..i, p \in 1..(n - 1) : Row(l)' # result'[p]
        BY <3>1, <3>2, <3>8 DEF OnceInv, n
      <4>6. \A l \in 1..i', p \in 1..(n - 1) : Row(l)' # result'[p]
        BY <3>3, <3>6, <4>1, <4>5
      <4> QED
        BY <4>3, <4>4, <4>6
    <3>9. 1..Len(result') = 1..(n - 1) /\ errors' = errors
      BY <2>2, <3>1
    <3> QED
      BY <3>6, <3>7, <3>8, <3>9, Zenon DEF OnceInv
  <2>3. CASE errors' = errors + 1 /\ UNCHANGED <<pc, result>>
    BY <1>9, <2>3 DEF Fetch, OnceInv, TypeOK
  <2> QED
    BY <1>9, <2>1, <2>2, <2>3 DEF Fetch
<1>10. CASE FreeStmt
  BY <1>1, <1>10 DEF FreeStmt, TypeOK
<1>11. CASE SavaDataAsCsv
  BY <1>1, <1>11 DEF SavaDataAsCsv, TypeOK
<1>12. CASE UNCHANGED vars
  BY <1>1, <1>12 DEF vars, TypeOK
<1> QED
  BY <1>3, <1>4, <1>5, <1>6, <1>7, <1>8, <1>9, <1>10, <1>11, <1>12 DEF Next

\* The four hold throughout.
LEMMA OnceAlways == Spec => [](TypeOK /\ CellsInv /\ FileInv /\ OnceInv)
BY OnceInit, OnceNext, FileAlways, PTL DEF Spec

\* Rows that workers insert between the two queries or while the result is
\* fetched make no row appear twice in the file, nor one that the table does
\* not have.
THEOREM NoRowTwice == Spec => []EachRowOnce
<1>1. TypeOK /\ CellsInv /\ FileInv /\ OnceInv => EachRowOnce
  <2> SUFFICES ASSUME TypeOK, CellsInv, FileInv, OnceInv PROVE EachRowOnce
    OBVIOUS
  <2>1. \A l \in 1..Len(file) : l \in 1..i /\ RowOf(l) = Row(l)
    BY FileRows
  <2> QED
    BY <2>1 DEF OnceInv, EachRowOnce
<1> QED
  BY <1>1, OnceAlways, PTL

-----------------------------------------------------------------------------
(* The two queries.                                                        *)

\* The count was answered with the number of rows at some moment of the call,
\* the result has at least as many, and the loop goes on until they are lines.
CountInv ==
    /\ pc \in {"select", "bind", "fetch", "free", "save", "thrown"} => kind = "export"
    /\ pc \in {"init", "count", "countFetch"} => ~counted
    /\ pc = "countFetch" => before <= result[1] /\ result[1] <= nrows
    /\ counted /\ kind = "page" /\ errors = 0 /\ nrows < ShortMod => before <= lines /\ lines <= nrows
    /\ counted /\ kind = "export" =>
          /\ i <= lines /\ lines <= nrows
          /\ errors = 0 => before <= lines
          /\ pc \in {"bind", "fetch"} => lines <= i + Len(result)
          /\ pc \notin {"free", "thrown"}
          /\ pc = "save" => i = lines
          /\ pc = "done" /\ writable => Len(file) = lines

\* Nothing is counted at first.
LEMMA CountInit == Init => CountInv
BY DEF Init, CountInv

\* Every step keeps the count within the rows there are.
LEMMA CountNext == TypeOK /\ CellsInv /\ FileInv /\ CountInv /\ [Next]_vars => CountInv'
<1> SUFFICES ASSUME TypeOK, CellsInv, FileInv, CountInv, [Next]_vars PROVE CountInv'
  OBVIOUS
<1> USE DEF fixed, data
<1>1. CASE Insert
  <2>1. nrows' = nrows + 1 /\ nrows \in Nat /\ before \in Nat /\ lines \in Int /\ ShortMod \in Nat /\ i \in Nat
    BY <1>1, ExportAssumption DEF Insert, TypeOK
  <2>2. UNCHANGED <<kind, writable, pc, lines, result, i, file, before, counted, errors>>
    BY <1>1 DEF Insert
  <2>3. pc = "countFetch" => result[1] \in Nat
    BY CountedRows
  <2> QED
    BY <2>1, <2>2, <2>3 DEF CountInv
<1>2. CASE InitDbData
  BY <1>2 DEF InitDbData, CountInv
<1>3. CASE Count
  BY <1>3 DEF Count, AfterCount, CountInv, TypeOK
<1>4. CASE CountFetch
  <2>1. /\ pc' = AfterCount /\ i' = 0 /\ Len(result') = 0
        /\ UNCHANGED <<kind, writable, nrows, file, before>>
    BY <1>4 DEF CountFetch, FileInv, Fresh
  <2>2. (pc' = "select" /\ kind = "export") \/ (pc' = "done" /\ kind = "page")
    BY <2>1 DEF AfterCount, TypeOK
  <2>3. before \in Nat /\ nrows \in Nat /\ errors \in Nat /\ ShortMod \in Nat \ {0}
    BY ExportAssumption DEF TypeOK
  <2>4. CASE UNCHANGED counted
    BY <1>4, <2>1, <2>2, <2>4 DEF CountFetch, CountInv
  <2>5. CASE lines' = 0 /\ errors' = errors + 1
    BY <2>1, <2>2, <2>3, <2>5 DEF CountInv
  <2>6. CASE lines' = Cut(result[1]) /\ UNCHANGED errors
    <3>1. result[1] \in before..nrows
      BY <1>4, <2>3, CountedRows DEF CountInv, CountFetch
    <3>2. kind = "export" => lines' \in before..nrows
      BY <2>6, <3>1 DEF Cut
    <3>3. kind = "page" /\ nrows < ShortMod => lines' \in before..nrows
      BY <2>3, <2>6, <3>1 DEF Cut
    <3> QED
      BY <2>1, <2>2, <2>3, <3>2, <3>3 DEF CountInv
  <2> QED
    BY <1>4, <2>4, <2>5, <2>6 DEF CountFetch
<1>5. CASE Select
  <2>1. CASE pc' = "bind" /\ result' \in RowOrders(nrows)
    <3>1. Len(result') = nrows /\ nrows \in Nat /\ lines \in Int /\ i = 0
      BY <1>5, <2>1, SelectedRows DEF TypeOK, FileInv, Fresh, Select
    <3> QED
      BY <1>5, <2>1, <3>1 DEF Select, CountInv
  <2>2. CASE pc' = "failed"
    BY <1>5, <2>2 DEF Select, CountInv
  <2> QED
    BY <1>5, <2>1, <2>2 DEF Select
<1>6. CASE BindColumns
  BY <1>6 DEF BindColumns, CountInv
<1>7. CASE Fetch
  <2>1. CASE result = <<>> /\ pc' = "free" /\ UNCHANGED <<data, errors>>
    <3>1. ~counted
      <4>1. Len(result) = 0 /\ i \in Nat /\ lines \in Int /\ i < lines
        BY <1>7, <2>1 DEF Fetch, TypeOK
      <4> QED
        BY <1>7, <4>1 DEF Fetch, CountInv
    <3> QED
      BY <1>7, <2>1, <3>1 DEF Fetch, CountInv
  <2>2. CASE result # <<>> /\ result' = Tail(result) /\ i' = i + 1 /\ UNCHANGED <<pc, errors>>
    <3>1. Len(result) \in Nat /\ Len(result') = Len(result) - 1
      BY <2>2, HeadTail DEF TypeOK
    <3>2. i \in Nat /\ lines \in Int /\ i < lines
      BY <1>7 DEF Fetch, TypeOK
    <3>3. pc = "fetch" /\ UNCHANGED <<kind, nrows, writable, before, lines, counted, file>>
      BY <1>7 DEF Fetch
    <3>4. lines <= i + Len(result) => lines <= i' + Len(result')
      BY <2>2, <3>1, <3>2
    <3>5. i' <= lines
      BY <2>2, <3>2
    <3> QED
      BY <2>2, <3>3, <3>4, <3>5 DEF CountInv
  <2>3. CASE errors' = errors + 1 /\ i' = i + 1 /\ UNCHANGED <<pc, result>>
    <3>1. i \in Nat /\ lines \in Int /\ i < lines /\ errors \in Nat /\ Len(result) \in Nat
      BY <1>7 DEF Fetch, TypeOK
    <3> QED
      BY <1>7, <2>3, <3>1 DEF Fetch, CountInv
  <2> QED
    BY <1>7, <2>1, <2>2, <2>3 DEF Fetch
<1>8. CASE FreeStmt
  <2>1. counted => i = lines
    BY <1>8 DEF FreeStmt, CountInv, TypeOK
  <2> QED
    BY <1>8, <2>1 DEF FreeStmt, CountInv
<1>9. CASE SavaDataAsCsv
  <2>1. counted => lines \in 0..i /\ lines = i
    BY <1>9 DEF SavaDataAsCsv, CountInv, TypeOK
  <2>2. counted => SaveLines # -1 /\ Saved = lines
    BY <2>1, SavedLines
  <2>3. counted => pc' = "done"
    BY <1>9, <2>2 DEF SavaDataAsCsv
  <2>4. counted /\ writable => Len(file') = lines
    <3>1. counted /\ writable => file' = [l \in 1..Saved |-> LineOf(l)]
      BY <1>9, SavedLines DEF SavaDataAsCsv, Saved
    <3>2. i \in Nat /\ lines \in Int
      BY DEF TypeOK
    <3> QED
      BY <2>1, <2>2, <3>1, <3>2
  <2>5. UNCHANGED <<kind, writable, nrows, lines, result, i, before, counted, errors>> /\ pc' \in {"done", "thrown"}
    BY <1>9 DEF SavaDataAsCsv
  <2>6. kind = "export"
    BY <1>9 DEF SavaDataAsCsv, CountInv
  <2> QED
    BY <2>3, <2>4, <2>5, <2>6 DEF CountInv
<1>10. CASE UNCHANGED vars
  BY <1>10 DEF vars, CountInv
<1> QED
  BY <1>1, <1>2, <1>3, <1>4, <1>5, <1>6, <1>7, <1>8, <1>9, <1>10 DEF Next

\* n different rows of 1..n are all of them.
LEMMA AllRows ==
    ASSUME NEW n \in Nat, NEW f \in [1..n -> 1..n], \A l, m \in 1..n : f[l] = f[m] => l = m
    PROVE  {f[l] : l \in 1..n} = 1..n
<1>1. f \in Injection(1..n, 1..n)
  BY Fun_IsInj
<1>2. IsFiniteSet(1..n)
  BY FS_Interval
<1>3. f \in Surjection(1..n, 1..n)
  BY <1>1, <1>2, FS_Injection
<1> QED
  BY <1>3 DEF Surjection

\* The count and the rows come from two queries between which rows may be
\* inserted: a call whose count was answered still never indexes a line that is
\* not there, and ends with as many rows as the table had at some moment of the
\* call, exactly those it had if none was inserted meanwhile.
THEOREM CountedCallsComplete == Spec => []CountedIsComplete
<1> DEFINE Inv == TypeOK /\ CellsInv /\ FileInv /\ OnceInv /\ CountInv
<1>1. Inv => CountedIsComplete
  <2> SUFFICES ASSUME TypeOK, CellsInv, FileInv, OnceInv, CountInv, counted PROVE
            /\ pc # "thrown"
            /\ kind = "export" /\ pc = "done" /\ errors = 0 /\ writable =>
                  /\ before <= Len(file) /\ Len(file) <= nrows
                  /\ nrows = before => { RowOf(l) : l \in 1..Len(file) } = 1..before
            /\ kind = "page" /\ pc = "done" /\ errors = 0 /\ nrows < ShortMod =>
                  before <= lines /\ lines <= nrows
    BY DEF CountedIsComplete
  <2>1. pc # "thrown"
    BY DEF CountInv
  <2>2. kind = "page" /\ pc = "done" /\ errors = 0 /\ nrows < ShortMod => before <= lines /\ lines <= nrows
    BY DEF CountInv
  <2>3. ASSUME kind = "export", pc = "done", errors = 0, writable
        PROVE  before <= Len(file) /\ Len(file) <= nrows
    BY <2>3 DEF CountInv
  <2>4. ASSUME kind = "export", pc = "done", errors = 0, writable, nrows = before
        PROVE  { RowOf(l) : l \in 1..Len(file) } = 1..before
    <3>1. Len(file) = before /\ before \in Nat
      BY <2>3, <2>4 DEF TypeOK, FileInv
    <3> DEFINE f == [l \in 1..before |-> Row(l)]
    <3>2. \A l \in 1..before : l \in 1..i /\ RowOf(l) = Row(l)
      BY <3>1, FileRows
    <3>3. f \in [1..before -> 1..before]
      BY <2>4, <3>2 DEF OnceInv
    <3>4. \A l, m \in 1..before : f[l] = f[m] => l = m
      BY <2>4, <3>2 DEF OnceInv
    <3>5. \A l \in 1..before : f[l] = RowOf(l)
      BY <3>2
    <3> HIDE DEF f
    <3>6. {f[l] : l \in 1..before} = 1..before
      BY <3>1, <3>3, <3>4, AllRows
    <3> QED
      BY <3>1, <3>5, <3>6
  <2> QED
    BY <2>1, <2>2, <2>3, <2>4
<1>2. Spec => []Inv
  BY CountInit, CountNext, OnceAlways, PTL DEF Spec
<1> QED
  BY <1>1, <1>2, PTL

-----------------------------------------------------------------------------
(* Handles.                                                                *)

\* A handle is held between a statement and the call that frees it, and at no
\* other time.
HandleInv == ~kept => open = IF pc \in {"countFetch", "bind", "fetch", "free"} THEN 1 ELSE 0

\* Every step keeps that.
LEMMA HandleNext == TypeOK /\ HandleInv /\ [Next]_vars => HandleInv'
<1> SUFFICES ASSUME TypeOK, HandleInv, [Next]_vars, ~kept'
             PROVE  open' = IF pc' \in {"countFetch", "bind", "fetch", "free"} THEN 1 ELSE 0
  BY DEF HandleInv
<1> USE DEF HandleInv, fixed, data
<1>1. CASE Insert \/ InitDbData
  BY <1>1 DEF Insert, InitDbData
<1>2. CASE Count
  BY <1>2 DEF Count, AfterCount
<1>3. CASE CountFetch
  BY <1>3 DEF CountFetch, AfterCount, Freed, NotFreed
<1>4. CASE Select
  BY <1>4 DEF Select
<1>5. CASE BindColumns
  BY <1>5 DEF BindColumns, Freed, NotFreed
<1>6. CASE Fetch
  BY <1>6 DEF Fetch
<1>7. CASE FreeStmt
  BY <1>7 DEF FreeStmt, Freed, NotFreed
<1>8. CASE SavaDataAsCsv
  BY <1>8 DEF SavaDataAsCsv
<1>9. CASE UNCHANGED vars
  BY <1>9 DEF vars
<1> QED
  BY <1>1, <1>2, <1>3, <1>4, <1>5, <1>6, <1>7, <1>8, <1>9 DEF Next

\* Each early return of GetDataBySubmitTime and the page counts has freed the
\* handle of the statement that was executed, unless freeing it failed.
THEOREM HandlesGivenBack == Spec => []HandlesFreed
<1>1. Init => HandleInv
  BY DEF Init, HandleInv
<1>2. HandleInv => HandlesFreed
  BY DEF HandleInv, HandlesFreed, Ended
<1> QED
  BY <1>1, <1>2, HandleNext, FileAlways, PTL DEF Spec
=============================================================================
