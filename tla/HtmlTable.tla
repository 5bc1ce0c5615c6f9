----------------------------- MODULE HtmlTable ------------------------------
(***************************************************************************)
(* The script in the page that StatisticsWriterHtml writes: a click on a   *)
(* header sorts the table by its column.                                   *)
(***************************************************************************)
EXTENDS Report

\* The cells of the header: their row, and their data-sort-index.  The groups
\* "Self Time" and "Total Time" have the index of their first column.
HeaderCells == ({1} \X {0, 1, 2, 3, 7}) \cup ({2} \X (3 .. 10))

\* How localeCompare orders the types.
TypeOrder == <<"native", "normal", "public">>

\* What the comparator makes of a cell.  /^[0-9]+/ fits every number that has
\* digits, so decimals go to parseInt; text, and NaN, to localeCompare.
SortKey(row, colIndex) ==
    LET cell == row[colIndex + 1]
    IN  CASE colIndex = 0 -> CHOOSE n \in 1 .. 3 : TypeOrder[n] = cell
          [] colIndex \in 1 .. 2 -> cell
          [] OTHER -> IF cell = NaN THEN 0 ELSE cell.value \div cell.scale

\* sign * comparator(value, otherValue) < 0
GoesBefore(row, other, colIndex, reverseOrder) ==
    IF reverseOrder THEN SortKey(row, colIndex) > SortKey(other, colIndex)
    ELSE SortKey(row, colIndex) < SortKey(other, colIndex)

\* Mutant: equal rows change places.
GoesBeforeEqual(rows, i, colIndex, reverseOrder) ==
    LET places == {j \in 1 .. i - 1 :
                      ~GoesBefore(rows[j], rows[i], colIndex, reverseOrder)}
    IN  IF places = {} THEN rows
        ELSE InsertAt(RemoveAt(rows, i), Min(places), rows[i])

\* The body of the outer loop of sort: row i moves before the first of the
\* rows before it that it goes before.
MoveRow(rows, i, colIndex, reverseOrder) ==
    LET places == {j \in 1 .. i - 1 :
                      GoesBefore(rows[i], rows[j], colIndex, reverseOrder)}
    IN  IF places = {} THEN rows
        ELSE InsertAt(RemoveAt(rows, i), Min(places), rows[i])

\* function sort
SortRows(rows, colIndex, reverseOrder) ==
    LET sorted[i \in 0 .. Len(rows)] ==
            IF i = 0 THEN rows
            ELSE MoveRow(sorted[i - 1], i, colIndex, reverseOrder)
    IN  sorted[Len(rows)]

\* The page when it has been loaded.
NewPage(rows) == [rows |-> rows,
                  asc |-> [c \in 0 .. 10 |-> FALSE],
                  arrow |-> [c \in HeaderCells |-> "none"]]

\* Mutant: the arrows of the other row of the header stay.
ClickedInRow(page, cell) ==
    [rows |-> SortRows(page.rows, cell[2], page.asc[cell[2]]),
     asc |-> [page.asc EXCEPT ![cell[2]] = ~@],
     arrow |-> [c \in HeaderCells |->
                   IF c = cell
                   THEN IF page.asc[cell[2]] THEN "down" ELSE "up"
                   ELSE IF c[1] = cell[1] THEN "none" ELSE page.arrow[c]]]

\* The function that is called when a cell of the header is clicked.
Clicked(page, cell) ==
    [rows |-> SortRows(page.rows, cell[2], page.asc[cell[2]]),
     asc |-> [page.asc EXCEPT ![cell[2]] = ~@],
     arrow |-> [c \in HeaderCells |->
                   IF c # cell THEN "none"
                   ELSE IF page.asc[cell[2]] THEN "down" ELSE "up"]]
=============================================================================
