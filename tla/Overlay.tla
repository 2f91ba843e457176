------------------------------- MODULE Overlay -------------------------------
(***************************************************************************)
(* The staged operations of a transaction and the rows it sees through     *)
(* them: Transaction, DatabaseOverlay, TableOverlay.                       *)
(*                                                                         *)
(* A row is a record of columns whose primary key is id.  A staged update  *)
(* or delete carries the row versions it captured; the overlay keys them   *)
(* by primary key.  One patch applies to all captured rows, so the overlay *)
(* entries of one operation can be replayed together.                      *)
(***************************************************************************)
EXTENDS Sequences, SequencesExt

\* The row of a lineage that was deleted or superseded.
Gone == [id |-> "gone"]

\* Operation::Insert, Update and Delete.  rows are the captured versions.
InsertOp(table, row) == [kind |-> "insert", table |-> table, row |-> row]

UpdateOp(table, rows, patch) ==
    [kind |-> "update", table |-> table, rows |-> rows, patch |-> patch]

DeleteOp(table, rows, behaviour) ==
    [kind |-> "delete", table |-> table, rows |-> rows, behaviour |-> behaviour]

\* A patch names some columns and their new values.
apply_update(row, patch) ==
    [c \in DOMAIN row |-> IF c \in DOMAIN patch THEN patch[c] ELSE row[c]]

\* Whether an overlay entry of op is keyed by the current key of row.
Concerns(op, table, row) ==
    /\ op.table = table /\ row # Gone
    /\ IF op.kind = "insert" THEN op.row.id = row.id
       ELSE \E captured \in op.rows : captured.id = row.id

\* An insert of the row's own key starts another lineage.
ReplayOp(table, row, op) ==
    IF ~Concerns(op, table, row) THEN row
    ELSE IF op.kind = "update" THEN apply_update(row, op.patch) ELSE Gone

replay(table, row, ops) == FoldLeft(LAMBDA r, op : ReplayOp(table, r, op), row, ops)

\* patch_row over the stored rows.
PatchedRows(table, stored, ops) == {replay(table, row, ops) : row \in stored}

\* iter_inserted: every insert, replayed over what was staged after it.
InsertedRows(table, ops) ==
    {replay(table, ops[i].row, SubSeq(ops, i + 1, Len(ops))) :
        i \in {j \in 1 .. Len(ops) : ops[j].kind = "insert" /\ ops[j].table = table}}

\* DatabaseOverlayReader: what a select inside the transaction scans.
VisibleRows(table, stored, ops) ==
    (PatchedRows(table, stored, ops) \union InsertedRows(table, ops)) \ {Gone}
=============================================================================
