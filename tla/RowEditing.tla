----------------------------- MODULE RowEditing -----------------------------
(***************************************************************************)
(* The data tab of a table: the rows in the grid (EditableGridData), the    *)
(* one row that is being edited or has been inserted and is not saved yet,  *)
(* and the table on the server.                                            *)
(*                                                                         *)
(* A row has a primary key, filled in by the server (AUTO_INCREMENT) when a *)
(* new row has none, and a value; its shape stands for any columns.  Rows   *)
(* are numbered from 1, and 0 stands for the code's -1 and for an invalid   *)
(* index.  Everything runs on the main thread and nobody else writes the    *)
(* table.  There is no local filter, so rows of the view are rows of the    *)
(* model.                                                                  *)
(***************************************************************************)
EXTENDS Integers, Sequences, FiniteSets, FiniteSetsExt, SequencesExt

CONSTANTS
    MaxKey,        \* bound: keys are 1 .. MaxKey
    Vals,          \* values of a cell
    DefaultVal,    \* the column's default
    InitialRows,   \* rows of the table when it is opened
    Step,          \* DATA_ROWS_PER_STEP
    MaxLoad,       \* DATA_MAX_ROWS
    Failing,       \* what may fail: "statement", "reload" (of a row), "load"
    MaxGrid        \* bound: no row is inserted into a grid of so many

ASSUME RowEditingAssumption ==
    /\ {MaxKey, InitialRows, MaxGrid} \subseteq Nat
    /\ InitialRows <= MaxKey
    /\ DefaultVal \in Vals
    /\ Step \in Nat \ {0} /\ MaxLoad \in Nat /\ Step <= MaxLoad
    /\ Failing \subseteq {"statement", "reload", "load"}

VARIABLES
    table,        \* the server's: key -> value
    rows,         \* EditableGridData::_rows
    edited,       \* EditableGridData::_editableRow
    curRow,       \* QueryData::_curRowNumber
    viewCur,      \* the row of the selection model's current index
    doomed,       \* rows that deleteSelectedRows still has to delete
    wanted,       \* DataTableModel::_wantedRowsCount
    nextEnabled,  \* the "Next" and "Show all" buttons
    hasResult     \* Query::_resultList is not empty

vars == <<table, rows, edited, curRow, viewCur, doomed, wanted, nextEnabled, hasResult>>
cursor == <<curRow, viewCur>>
loaded == <<wanted, hasResult>>

Keys == 1 .. MaxKey
NoKey == 0              \* NULL, also what the code makes of a key it could not read
Row == [key : Keys \cup {NoKey}, val : Vals]
DefaultRow == [key |-> NoKey, val |-> DefaultVal]

Draft == [row : Nat, data : Row, inserted : BOOLEAN]
NoDraft == [row |-> 0, data |-> DefaultRow, inserted |-> FALSE]

Editing == edited # NoDraft
Shown(r) == IF edited.row = r THEN edited.data ELSE rows[r]

(* The statement that saves the draft has columns to set.                  *)
Differs == Editing /\ edited.data # rows[edited.row]
-----------------------------------------------------------------------------
(* The server.                                                             *)

Put(T, k, v) == [j \in DOMAIN T \cup {k} |-> IF j = k THEN v ELSE T[j]]
Without(T, k) == [j \in DOMAIN T \ {k} |-> T[j]]
Stored(T, k) == [key |-> k, val |-> T[k]]

(* SELECT ... ORDER BY key LIMIT limit OFFSET offset                       *)
Fetched(T, offset, limit) ==
    LET size == Cardinality(DOMAIN T)
        last == Min({size, offset + limit})
        KeyAt(i) == CHOOSE k \in DOMAIN T :
                        Cardinality({j \in DOMAIN T : j <= k}) = i
    IN  [i \in 1 .. Max({0, last - offset}) |-> Stored(T, KeyAt(offset + i))]

(* INSERT: the table and the row as it is there, for each key it may get.   *)
NewKeys(d) == IF d.key = NoKey THEN {k \in Keys : \A j \in DOMAIN table : j < k}
                               ELSE {d.key} \ DOMAIN table
InsertEffects(d) ==
    {[table |-> Put(table, k, d.val), data |-> [d EXCEPT !.key = k]] : k \in NewKeys(d)}

(* A mutant of Updated: the WHERE clause has the key after the modifications. *)
UpdatedByNewKey(old, d) ==
    IF d.key \notin DOMAIN table THEN {table} ELSE {Put(table, d.key, d.val)}

(* UPDATE ... WHERE the key is the one before the modifications, then       *)
(* ensureFullRow reads the row by the key after them.                       *)
Updated(old, d) ==
    IF old.key \notin DOMAIN table THEN {table}
    ELSE {Put(Without(table, old.key), k,
              IF d.val = old.val THEN table[old.key] ELSE d.val) :
              k \in {d.key} \ ({NoKey} \cup (DOMAIN table \ {old.key}))}
UpdateEffects(old, d) ==
    {[table |-> T, data |-> IF d.key \in DOMAIN T THEN Stored(T, d.key) ELSE d] :
        T \in Updated(old, d)}

Effects == IF edited.inserted THEN InsertEffects(edited.data)
           ELSE UpdateEffects(rows[edited.row], edited.data)

(* Every start of an edit sets the Next button by the rows of that moment.   *)
CanShowMore(count, n) == count <= n /\ count # MaxLoad
EditingPrepared == nextEnabled' = CanShowMore(wanted, Len(rows))

Refusable == Differs /\ (Effects = {} \/ "statement" \in Failing)
-----------------------------------------------------------------------------
(* QueryData and DataTableModel.                                           *)

(* A mutant of Refuse: the draft is gone after an error.                     *)
RefuseForgets ==
    Refusable /\ edited' = NoDraft /\ UNCHANGED <<table, rows, nextEnabled>>

(* The statement is refused: nothing has changed.                          *)
Refuse == Refusable /\ UNCHANGED <<table, rows, edited, nextEnabled>>

(* The statement is done and the row is read back.                         *)
Save ==
    \E e \in Effects :
        /\ table' = e.table
        /\ rows' = [rows EXCEPT ![edited.row] = e.data]
        /\ edited' = NoDraft
        /\ EditingPrepared

(* A mutant of SaveBlindly: isInserted is reset at the end, not by insert().  *)
SaveUnnoticed ==
    /\ "reload" \in Failing
    /\ \E e \in Effects : table' = e.table
    /\ UNCHANGED <<rows, edited, nextEnabled>>

(* The statement is done, but reading the id of a new row or reading the row  *)
(* back fails.                                                             *)
SaveBlindly ==
    /\ "reload" \in Failing
    /\ \E e \in Effects :
           /\ table' = e.table
           /\ \/ /\ edited.inserted /\ edited.data.key = NoKey
                 /\ edited' = [row |-> edited.row, data |-> edited.data, inserted |-> FALSE]
                 /\ UNCHANGED nextEnabled
              \/ /\ edited' = [row |-> edited.row, inserted |-> FALSE,
                               data |-> IF edited.inserted THEN e.data ELSE edited.data]
                 /\ EditingPrepared
    /\ UNCHANGED rows

(* A new row that nothing was entered into is dropped.                     *)
DropEmpty(rowToApply) ==
    /\ rows' = RemoveAt(rows, rowToApply)
    /\ edited' = NoDraft
    /\ UNCHANGED <<table, nextEnabled>>

(* DataTableModel::applyModifications; dropped is the row it removes, or 0, *)
(* and ok is FALSE if it throws.                                           *)
ApplyModifications(rowToApply, dropped, ok) ==
    \/ Differs /\ dropped = 0 /\ ((ok /\ Save) \/ (~ok /\ (Refuse \/ SaveBlindly)))
    \/ /\ edited.inserted /\ ~Differs /\ rowToApply # 0
       /\ ok /\ dropped = rowToApply
       /\ DropEmpty(rowToApply)
    \/ /\ ~Differs /\ (~edited.inserted \/ rowToApply = 0)
       /\ ok /\ dropped = 0
       /\ UNCHANGED <<table, rows, edited, nextEnabled>>

(* QItemSelectionModel while row r is being removed: a current index in it  *)
(* moves to the row above, or else below, before the rows below move up.    *)
Neighbour(r) == IF r > 1 THEN r - 1 ELSE IF Len(rows) > 1 THEN 2 ELSE 0
Shifted(v, r) == IF v > r THEN v - 1 ELSE v
ViewAfter(v, r) == IF r = 0 THEN v ELSE Shifted(IF v = r THEN Neighbour(r) ELSE v, r)

(* DataTab::currentRowChanged hears of the row the view moves to, in the    *)
(* numbers before the removal; it has nothing to apply then.                *)
RowRemoved(r, number) ==
    /\ viewCur' = ViewAfter(viewCur, r)
    /\ curRow' = IF r # 0 /\ viewCur = r THEN Neighbour(r) ELSE number
-----------------------------------------------------------------------------
Init ==
    /\ table \in [1 .. InitialRows -> Vals]
    /\ rows = Fetched(table, 0, Step)
    /\ edited = NoDraft
    /\ curRow = 0 /\ viewCur = 0
    /\ doomed = {}
    /\ wanted = Step
    /\ nextEnabled = CanShowMore(Step, Len(rows))
    /\ hasResult = TRUE

(* The user goes to another row: the draft is applied first, and the view   *)
(* returns to the row it came from if that fails.                           *)
MoveTo(r) ==
    /\ doomed = {}
    /\ r \in 1 .. Len(rows) /\ r # viewCur
    /\ \E dropped \in 0 .. Len(rows), ok \in BOOLEAN :
           /\ ApplyModifications(IF viewCur # 0 THEN viewCur ELSE curRow, dropped, ok)
           /\ IF ok \/ viewCur = 0
              THEN viewCur' = ViewAfter(r, dropped) /\ curRow' = viewCur'
              ELSE UNCHANGED cursor
    /\ UNCHANGED <<doomed, loaded>>

(* A cell of the current row gets a value.                                  *)
SetData(col, v) ==
    /\ doomed = {} /\ viewCur # 0
    /\ curRow' = viewCur
    /\ edited' = IF Shown(viewCur)[col] = v THEN edited
                 ELSE [row      |-> viewCur,
                       data     |-> [Shown(viewCur) EXCEPT ![col] = v],
                       inserted |-> edited.inserted /\ edited.row = viewCur]
    /\ EditingPrepared
    /\ UNCHANGED <<table, rows, viewCur, doomed, loaded>>

(* The Post button.                                                        *)
PostChanges ==
    /\ doomed = {} /\ Editing
    /\ \E dropped \in 0 .. Len(rows), ok \in BOOLEAN :
           /\ ApplyModifications(curRow, dropped, ok)
           /\ RowRemoved(dropped, curRow)
    /\ UNCHANGED <<doomed, loaded>>

(* The Cancel button.  A new row is removed by the number of the current.    *)
DiscardModifications ==
    /\ doomed = {} /\ Editing
    /\ edited' = NoDraft
    /\ LET dropped == IF edited.inserted THEN curRow ELSE 0
       IN  /\ rows' = IF dropped = 0 THEN rows ELSE RemoveAt(rows, dropped)
           /\ RowRemoved(dropped, curRow)
    /\ UNCHANGED <<table, doomed, nextEnabled, loaded>>

(* A mutant of InsertRow: the current row number stays behind.               *)
InsertRowBelow(data) ==
    /\ doomed = {} /\ ~edited.inserted /\ hasResult
    /\ Len(rows) < MaxGrid
    /\ \E n \in 1 .. Len(rows) + 1 :
           /\ n = Min({curRow, Len(rows)}) + 1
           /\ rows' = InsertAt(rows, n, DefaultRow)
           /\ edited' = [row |-> n, data |-> data, inserted |-> TRUE]
           /\ viewCur' = n
    /\ EditingPrepared
    /\ UNCHANGED <<table, curRow, doomed, loaded>>

(* A new row goes below the current one and becomes the current; it takes    *)
(* the place of a draft.  Without a result the program does not survive it.   *)
InsertRow(data) ==
    /\ doomed = {} /\ ~edited.inserted /\ hasResult
    /\ Len(rows) < MaxGrid
    /\ \E n \in 1 .. Len(rows) + 1 :
           /\ n = Min({curRow, Len(rows)}) + 1
           /\ rows' = InsertAt(rows, n, DefaultRow)
           /\ edited' = [row |-> n, data |-> data, inserted |-> TRUE]
           /\ curRow' = n /\ viewCur' = n
    /\ EditingPrepared
    /\ UNCHANGED <<table, doomed, loaded>>

(* A draft that a row below the current one has had is taken for the draft of *)
(* the new row.                                                            *)
InsertEmptyRow ==
    InsertRow(IF edited.row = Min({curRow, Len(rows)}) + 1 THEN edited.data ELSE DefaultRow)

(* What is copied is the row the result was last positioned at, which may be *)
(* any row the view has painted since.                                      *)
DuplicateCurrentRow(withKeys) ==
    /\ curRow # 0
    /\ \E r \in 1 .. Len(rows) :
           InsertRow([Shown(r) EXCEPT !.key = IF withKeys THEN @ ELSE NoKey])

(* The user confirms the deletion of the selected rows.                     *)
DeleteSelectedRows(selected) ==
    /\ doomed = {} /\ viewCur # 0
    /\ selected # {}
    /\ doomed' = selected
    /\ UNCHANGED <<table, rows, edited, cursor, nextEnabled, loaded>>

(* A mutant of IsLast: the rows are deleted in ascending order.                *)
IsFirst(r) == \A q \in doomed : r <= q

IsLast(r) == \A q \in doomed : q <= r

(* A mutant of WhereRow: the loop does not set the current row number.       *)
WhereCurrent(r) == IF curRow \in 1 .. Len(rows) THEN curRow ELSE r

(* The row whose key the WHERE clause has.                                  *)
WhereRow(r) == IF Editing THEN edited.row ELSE r
Unsaved(r) == edited.inserted /\ edited.row = r

(* A mutant of DeleteRowInDB: removing a row from the grid keeps the draft.   *)
DeleteRowKeepsDraft(r) ==
    /\ table' = IF Unsaved(r) THEN table ELSE Without(table, rows[WhereRow(r)].key)
    /\ rows' = RemoveAt(rows, r)
    /\ RowRemoved(r, r)
    /\ doomed' = doomed \ {r}
    /\ nextEnabled' = CanShowMore(wanted, Len(IF doomed' = {} THEN rows' ELSE rows))
    /\ UNCHANGED <<edited, loaded>>

(* One turn of the loop over the selected rows, last row first.             *)
DeleteRowInDB(r) ==
    /\ table' = IF Unsaved(r) THEN table ELSE Without(table, rows[WhereRow(r)].key)
    /\ rows' = RemoveAt(rows, r)
    /\ edited' = NoDraft
    /\ RowRemoved(r, r)
    /\ doomed' = doomed \ {r}
    /\ nextEnabled' = CanShowMore(wanted, Len(IF doomed' = {} THEN rows' ELSE rows))
    /\ UNCHANGED loaded

(* The statement fails and the loop is left.                                *)
FailDelete(r) ==
    /\ "statement" \in Failing /\ ~Unsaved(r)
    /\ curRow' = r
    /\ doomed' = {}
    /\ EditingPrepared
    /\ UNCHANGED <<table, rows, edited, viewCur, loaded>>

DeleteNext == \E r \in doomed : IsLast(r) /\ (DeleteRowInDB(r) \/ FailDelete(r))

(* The grid has shown what it has read.                                     *)
ValidateNext(count) ==
    /\ nextEnabled' = CanShowMore(count, Len(rows'))
    /\ hasResult' = TRUE

(* The next page starts behind as many rows as the grid has; the unsigned    *)
(* difference that limits it wraps around to no limit.                       *)
LoadMore(count) ==
    /\ doomed = {} /\ nextEnabled
    /\ wanted' = count
    /\ LET offset == Len(rows)
           limit  == IF offset <= count THEN count - offset ELSE Cardinality(DOMAIN table)
       IN  \/ rows' = rows \o Fetched(table, offset, limit) /\ ValidateNext(count)
           \/ "load" \in Failing /\ UNCHANGED <<rows, nextEnabled, hasResult>>
    /\ UNCHANGED <<table, edited, cursor, doomed>>

ShowNextRows == LoadMore(Min({wanted + Step, MaxLoad}))
ShowAllRows == LoadMore(MaxLoad)

(* Refreshing, or sorting by a column: the draft is applied, and whether it  *)
(* could be or not the grid is emptied and read again.  After an error (~ok)  *)
(* the view returns to the row it was on, if there is one in the new grid.    *)
Reload(count) ==
    /\ doomed = {}
    /\ edited' = NoDraft
    /\ curRow' = 0
    /\ wanted' = count
    /\ \E saved, ok \in BOOLEAN :
           /\ IF saved THEN /\ Differs /\ (ok \/ "reload" \in Failing)
                            /\ \E e \in Effects : table' = e.table
              ELSE ((ok /\ ~Differs) \/ (~ok /\ Refusable)) /\ UNCHANGED table
           /\ \/ rows' = Fetched(table', 0, count) /\ ValidateNext(count)
              \/ /\ "load" \in Failing
                 /\ rows' = <<>> /\ hasResult' = FALSE
                 /\ nextEnabled' = IF saved THEN CanShowMore(count, Len(rows)) ELSE nextEnabled
           /\ viewCur' = IF ok \/ viewCur > Len(rows') THEN 0 ELSE viewCur
    /\ UNCHANGED doomed

Refresh == Reload(wanted)
ApplyColumnSort == Reload(Step)

Edit == \/ \E v \in Vals : SetData("val", v)
        \/ \E k \in Keys \cup {NoKey} : SetData("key", k)

AddRow == InsertEmptyRow \/ \E withKeys \in BOOLEAN : DuplicateCurrentRow(withKeys)

StartDelete == \E selected \in SUBSET (1 .. Len(rows)) : DeleteSelectedRows(selected)

Rest ==
    \/ \E r \in 1 .. Len(rows) : MoveTo(r)
    \/ Edit \/ PostChanges \/ DiscardModifications \/ DeleteNext
    \/ ShowNextRows \/ ShowAllRows \/ Refresh \/ ApplyColumnSort

Next == Rest \/ AddRow \/ StartDelete

Spec == Init /\ [][Next]_vars

(* A user who posts or cancels what is being edited before inserting or      *)
(* deleting.                                                               *)
CarefulNext == Rest \/ (~Editing /\ (AddRow \/ StartDelete))

CarefulSpec == Init /\ [][CarefulNext]_vars
-----------------------------------------------------------------------------
(* The variables keep their types.                                         *)
TypeOK ==
    /\ DOMAIN table \subseteq Keys /\ \A k \in DOMAIN table : table[k] \in Vals
    /\ rows \in Seq(Row)
    /\ edited \in Draft
    /\ curRow \in Nat /\ viewCur \in Nat /\ wanted \in Nat
    /\ doomed \subseteq Nat
    /\ nextEnabled \in BOOLEAN /\ hasResult \in BOOLEAN

(* The row numbers that are kept (in the draft, for the view, for Cancel,    *)
(* in the loop over the selected rows) are of rows that the grid has, after  *)
(* any insertions, removals and failures: QList::at and removeAt, to which   *)
(* they are passed unchecked, stay within the list.                         *)
RowsInRange ==
    /\ Editing => edited.row \in 1 .. Len(rows) /\ viewCur # 0
    /\ edited.inserted => curRow \in 1 .. Len(rows)
    /\ viewCur <= Len(rows)
    /\ \A r \in doomed : r \in 1 .. Len(rows)

(* A new row is inserted on the server once: when the INSERT has been done   *)
(* and what follows it fails, posting again is not another INSERT.           *)
InsertedOnce ==
    [][Cardinality(DOMAIN table') > Cardinality(DOMAIN table) => ~edited'.inserted]_vars

SavedRows == {r \in 1 .. Len(rows) : ~Unsaved(r)}

(* For a careful user, with all rows of the table in one page: the grid under *)
(* the draft is the table, every row once, whatever statement fails, and      *)
(* empty after a refresh that failed.                                       *)
GridShowsTable ==
    IF hasResult
    THEN /\ {rows[r] : r \in SavedRows} = {Stored(table, k) : k \in DOMAIN table}
         /\ Cardinality(SavedRows) = Cardinality(DOMAIN table)
    ELSE rows = <<>>

(* For a careful user, the three ideas the program has of the current row     *)
(* agree on a new row until it is saved: Cancel, which removes the row of     *)
(* one number, and Post, which saves the row of another, mean the same row.   *)
InsertedIsCurrent ==
    edited.inserted => edited.row = curRow /\ edited.row = viewCur

(* "Delete selected row(s)" (actions.cpp): the rows that disappear from the    *)
(* table are among the selected ones.                                       *)
DeletesSelected ==
    [][doomed # {} =>
           DOMAIN table \ DOMAIN table' \subseteq {rows[r].key : r \in doomed}]_vars

(* The row numbers of the selection, taken before the confirmation, mean the   *)
(* selected rows until the last of them is deleted.                          *)
SelectionStays ==
    [][doomed # {} =>
           \A r \in doomed' : /\ r \in 1 .. Len(rows')
                              /\ rows'[r] \in {rows[q] : q \in doomed}]_vars

IsStored(d, T) == \E k \in DOMAIN T : d.key \in {k, NoKey} /\ T[k] = d.val

(* For a careful user, what was typed into a row goes to the server, is       *)
(* edited further, is cancelled, or is lost to a refresh that reported an     *)
(* error; going to another row or a refused statement loses nothing.          *)
DraftsKept ==
    [][Differs => \/ edited'.row = edited.row
                  \/ IsStored(edited.data, table')
                  \/ DiscardModifications
                  \/ Refusable /\ (Refresh \/ ApplyColumnSort)]_vars
=============================================================================
