-------------------------- MODULE TransactionEngine --------------------------
(***************************************************************************)
(* WasmDbmsDatabase: transactions that stage operations side by side, and  *)
(* the operations that run on committed storage, one at a time.            *)
(*                                                                         *)
(* A transaction keeps its operations in the session until commit, which   *)
(* replays them on committed storage after checking that every row version *)
(* they captured is still there.  Outside a transaction an operation runs  *)
(* at once.  Updates and deletes recurse into referencing tables; the      *)
(* recursion is a stack of frames, each with the records it collected when *)
(* it was called.  A failed step undoes the whole operation or commit.     *)
(*                                                                         *)
(* A table has the columns id (primary key), ref (foreign key, or Null)    *)
(* and val, all of fixed size, so that a record keeps its address when it  *)
(* is updated.  Collected records are visited in any order: the code visits *)
(* them by address or by index key.                                        *)
(***************************************************************************)
EXTENDS Naturals, FiniteSets, Overlay

CONSTANTS
    Table,
    Tx,               \* transactions open at the same time
    Null,
    None,             \* an empty address, a closed transaction, no record
    Row,              \* rows of any table, as records of the three columns
    Target,           \* [Table -> [table, column] or None]: the foreign keys
    Unique,           \* tables whose val column is unique
    Sanitize(_, _),   \* the sanitizers of a table, applied to a row
    Inserts,          \* bound: inputs, as InsertOp records
    Updates,          \* bound: inputs, as UpdateOp records: rows is the filter
    Deletes,          \* bound: inputs, as DeleteOp records: rows is the filter
    MaxRows,          \* bound: addresses of a table
    MaxOps,           \* bound: operations of a transaction
    MaxStack          \* frames the call stack has room for

Addr == 1 .. MaxRows

Columns == {"id", "ref", "val"}

\* Values a foreign key can be given because the row it references has them.
ReferencedValues ==
    {row[Target[t].column] : row \in Row, t \in {c \in Table : Target[c] # None}}

\* A record that update or delete collected: where, and which version.
Record == [addr : Addr, row : Row]

\* No transaction is the absence of one.
ASSUME TxAssumption == None \notin Tx

\* A foreign key names a table and a column of the schema.
ASSUME TargetAssumption ==
    \A t \in Table : Target[t] # None => Target[t].table \in Table /\ Target[t].column \in Columns

\* Columns are typed: sanitizers and patches make rows of rows, and a foreign
\* key has the type of the column it references.
ASSUME RowAssumption ==
    /\ None \notin Row /\ None \notin Record
    /\ \A t \in Table, row \in Row : Sanitize(t, row) \in Row
    /\ \A op \in Updates, row \in Row : apply_update(row, op.patch) \in Row
    /\ \A value \in ReferencedValues, row \in Row : apply_update(row, [ref |-> value]) \in Row

ASSUME InputsAssumption ==
    /\ \A op \in Inserts : op = InsertOp(op.table, op.row) /\ op.table \in Table /\ op.row \in Row
    /\ \A op \in Updates :
          op = UpdateOp(op.table, op.rows, op.patch) /\ op.table \in Table /\ op.rows \subseteq Row
    /\ \A op \in Deletes :
          /\ op = DeleteOp(op.table, op.rows, op.behaviour)
          /\ op.table \in Table /\ op.rows \subseteq Row /\ op.behaviour \in {"Restrict", "Cascade"}

VARIABLES
    db,         \* committed storage: [Table -> [Addr -> row or None]]
    session,    \* transaction_session: staged operations, or None when closed
    job,        \* the running operation or commit: the operations left, and
                \* as history its input or the view it started from
    stack,      \* its frames, innermost last
    saved,      \* what the journal restores when it fails
    trapped,    \* the call stack overflowed and the instance is gone
    disturbed   \* history: transactions another writer changed rows under

vars == <<db, session, job, stack, saved, trapped, disturbed>>

-----------------------------------------------------------------------------
(* Reading                                                                 *)

Rows(t) == {db[t][a] : a \in {b \in Addr : db[t][b] # None}}

Committed == [t \in Table |-> Rows(t)]

View(x) == [t \in Table |-> VisibleRows(t, Rows(t), session[x])]

\* collect_matching_records: the addresses and the versions found there.
Matching(t, filter) ==
    {[addr |-> a, row |-> db[t][a]] : a \in {b \in Addr : db[t][b] \in filter \ {None}}}

\* referencing_columns: the tables with a foreign key to t.
Referencing(t) == {c \in Table : Target[c] # None /\ Target[c].table = t}

\* Rows of c whose foreign key holds value.
ReferencesTo(c, value) == {row \in Rows(c) : row.ref = value}

-----------------------------------------------------------------------------
(* Integrity checks                                                        *)

CheckForeignKey(rows, t, row) ==
    Target[t] # None /\ row.ref # Null =>
        \E other \in rows[Target[t].table] : other[Target[t].column] = row.ref

\* InsertIntegrityValidator over the rows the caller sees.
validate_insert(rows, t, row) ==
    /\ \A other \in rows[t] : other.id # row.id
    /\ t \in Unique => \A other \in rows[t] : other.val # row.val
    /\ CheckForeignKey(rows, t, row)

\* UpdateIntegrityValidator, which runs on committed storage only.
validate_update(t, row, oldPk) ==
    /\ LET same == {a \in Addr : db[t][a] # None /\ db[t][a].id = row.id} IN
       same = {} \/ (Cardinality(same) = 1 /\ row.id = oldPk)
    /\ t \in Unique => \A other \in Rows(t) : other.val = row.val => other.id = oldPk
    /\ CheckForeignKey(Committed, t, row)

\* The index entries of a record version are there for its address.
Indexed(t, rec) ==
    LET now == db[t][rec.addr] IN
    /\ now # None /\ now.id = rec.row.id
    /\ t \in Unique => now.val = rec.row.val

-----------------------------------------------------------------------------
(* Transactions                                                            *)

NoJob == [running |-> FALSE, tx |-> None, ops |-> <<>>, input |-> None, view |-> None]

Init ==
    /\ db = [t \in Table |-> [a \in Addr |-> None]]
    /\ session = [x \in Tx |-> None]
    /\ job = NoJob
    /\ stack = <<>>
    /\ saved = db
    /\ trapped = FALSE
    /\ disturbed = {}

Idle == ~job.running /\ ~trapped

begin_transaction(x) ==
    /\ Idle /\ session[x] = None
    /\ session' = [session EXCEPT ![x] = <<>>]
    /\ disturbed' = disturbed \ {x}
    /\ UNCHANGED <<db, job, stack, saved, trapped>>

Stage(x, op) ==
    /\ Idle /\ session[x] # None /\ Len(session[x]) < MaxOps
    /\ session' = [session EXCEPT ![x] = Append(@, op)]
    /\ UNCHANGED <<db, job, stack, saved, trapped, disturbed>>

\* insert in a transaction: validated against what the transaction sees.
TxInsert(x, input) ==
    LET row == Sanitize(input.table, input.row) IN
    /\ session[x] # None
    /\ validate_insert(View(x), input.table, row)
    /\ Stage(x, InsertOp(input.table, row))

\* Mutant of TxUpdate: the stored rows are captured, not the visible ones.
TxUpdateStored(x, input) ==
    /\ session[x] # None
    /\ Stage(x, [input EXCEPT !.rows = @ \intersect Rows(input.table)])

\* update and delete in a transaction: capture the rows, validate nothing.
TxUpdate(x, input) ==
    /\ session[x] # None
    /\ Stage(x, [input EXCEPT !.rows = @ \intersect View(x)[input.table]])

TxDelete(x, input) ==
    /\ session[x] # None
    /\ Stage(x, [input EXCEPT !.rows = @ \intersect View(x)[input.table]])

rollback(x) ==
    /\ Idle /\ session[x] # None
    /\ session' = [session EXCEPT ![x] = None]
    /\ UNCHANGED <<db, job, stack, saved, trapped, disturbed>>

\* commit takes the transaction out of the session before it replays it.
commit(x) ==
    /\ Idle /\ session[x] # None
    /\ job' = [running |-> TRUE, tx |-> x, ops |-> session[x], input |-> None, view |-> View(x)]
    /\ session' = [session EXCEPT ![x] = None]
    /\ saved' = db
    /\ UNCHANGED <<db, stack, trapped, disturbed>>

\* The same operations without a transaction.
Oneshot(op) ==
    /\ Idle
    /\ job' = [running |-> TRUE, tx |-> None, ops |-> <<op>>, input |-> op, view |-> None]
    /\ saved' = db
    /\ UNCHANGED <<db, session, stack, trapped, disturbed>>

-----------------------------------------------------------------------------
(* Running an operation or a commit on committed storage                   *)

Running == job.running /\ ~trapped

\* Any Err: the journal is rolled back and the call returns.
Abort ==
    /\ db' = saved
    /\ job' = NoJob
    /\ stack' = <<>>
    /\ UNCHANGED <<session, saved, trapped, disturbed>>

\* The last operation is done: the journal is dropped.
Finish ==
    /\ Running /\ stack = <<>> /\ job.ops = <<>>
    /\ job' = NoJob
    /\ saved' = db
    /\ disturbed' = IF db = saved THEN disturbed
                    ELSE disturbed \union {x \in Tx : session[x] # None}
    /\ UNCHANGED <<db, session, stack, trapped>>

\* Between two operations of a job.
AtOperation(kind) ==
    /\ Running /\ stack = <<>> /\ job.ops # <<>>
    /\ Head(job.ops).kind = kind

\* The table registry puts the record at the first free address.
Free(t) == {a \in Addr : db[t][a] = None}

\* Mutant of InsertFits: a staged insert is not validated again.
InsertFitsUnchecked(op) == Free(op.table) # {}

InsertFits(op) ==
    /\ validate_insert(Committed, op.table, Sanitize(op.table, op.row))
    /\ Free(op.table) # {}

RunInsert ==
    /\ AtOperation("insert") /\ InsertFits(Head(job.ops))
    /\ LET op == Head(job.ops)
           first == CHOOSE a \in Free(op.table) : \A b \in Free(op.table) : a <= b
       IN  db' = [db EXCEPT ![op.table][first] = Sanitize(op.table, op.row)]
    /\ job' = [job EXCEPT !.ops = Tail(@)]
    /\ UNCHANGED <<session, stack, saved, trapped, disturbed>>

InsertFails == AtOperation("insert") /\ ~InsertFits(Head(job.ops)) /\ Abort

\* validated_transaction_filter: every captured version matches one row.
CapturedRowsMatch(op) ==
    \A row \in op.rows : Cardinality(Matching(op.table, {row})) = 1

\* Calling delete or update of a table: the records are collected first.
DeleteFrame(t, filter, behaviour) ==
    [kind |-> "delete", table |-> t, todo |-> Matching(t, filter),
     cur |-> None, refs |-> {}, behaviour |-> behaviour]

UpdateFrame(t, filter, patch) ==
    [kind |-> "update", table |-> t, todo |-> Matching(t, filter),
     cur |-> None, refs |-> {}, patch |-> patch]

OperationFrame(op) ==
    IF op.kind = "delete" THEN DeleteFrame(op.table, op.rows, op.behaviour)
    ELSE UpdateFrame(op.table, op.rows, op.patch)

\* Mutant of RunOperation: captured rows that changed are skipped silently.
RunOperationUnchecked ==
    /\ AtOperation("delete") \/ AtOperation("update")
    /\ stack' = <<OperationFrame(Head(job.ops))>>
    /\ job' = [job EXCEPT !.ops = Tail(@)]
    /\ UNCHANGED <<db, session, saved, trapped, disturbed>>

RunOperation ==
    /\ AtOperation("delete") \/ AtOperation("update")
    /\ job.tx # None => CapturedRowsMatch(Head(job.ops))
    /\ stack' = <<OperationFrame(Head(job.ops))>>
    /\ job' = [job EXCEPT !.ops = Tail(@)]
    /\ UNCHANGED <<db, session, saved, trapped, disturbed>>

TransactionConflict ==
    /\ AtOperation("delete") \/ AtOperation("update")
    /\ job.tx # None /\ ~CapturedRowsMatch(Head(job.ops))
    /\ Abort

-----------------------------------------------------------------------------
(* Frames                                                                  *)

Top == stack[Len(stack)]

InFrame(kind) == Running /\ stack # <<>> /\ Top.kind = kind

SetTop(frame) == stack' = [stack EXCEPT ![Len(stack)] = frame]

\* A call needs room on the stack, or the instance traps.
Call(frame, callee) ==
    IF Len(stack) < MaxStack
    THEN stack' = Append([stack EXCEPT ![Len(stack)] = frame], callee) /\ UNCHANGED trapped
    ELSE trapped' = TRUE /\ UNCHANGED stack

Return ==
    /\ Running /\ stack # <<>> /\ Top.todo = {} /\ Top.cur = None
    /\ stack' = SubSeq(stack, 1, Len(stack) - 1)
    /\ UNCHANGED <<db, job, session, saved, trapped, disturbed>>

\* has_foreign_key_references
Referenced(t, row) ==
    \E c \in Referencing(t) : ReferencesTo(c, row[Target[c].column]) # {}

NextDelete(rec) ==
    /\ InFrame("delete") /\ Top.cur = None /\ rec \in Top.todo
    /\ Top.behaviour = "Restrict" => ~Referenced(Top.table, rec.row)
    /\ SetTop([Top EXCEPT !.todo = @ \ {rec}, !.cur = rec,
                          !.refs = IF Top.behaviour = "Cascade" THEN Referencing(Top.table) ELSE {}])
    /\ UNCHANGED <<db, job, session, saved, trapped, disturbed>>

DeleteRestricted(rec) ==
    /\ InFrame("delete") /\ Top.cur = None /\ rec \in Top.todo
    /\ Top.behaviour = "Restrict" /\ Referenced(Top.table, rec.row)
    /\ Abort

\* Mutant of delete_foreign_keys_cascade: the table stays to be visited.
CascadeRevisits(c) ==
    /\ InFrame("delete") /\ Top.cur # None /\ c \in Top.refs
    /\ Call(Top, DeleteFrame(c, ReferencesTo(c, Top.cur.row[Target[c].column]), "Cascade"))
    /\ UNCHANGED <<db, job, session, saved, disturbed>>

\* Mutant of delete_foreign_keys_cascade: no filter on another table.
CascadeTakesAll(c) ==
    /\ InFrame("delete") /\ Top.cur # None /\ c \in Top.refs
    /\ Call([Top EXCEPT !.refs = @ \ {c}],
            DeleteFrame(c, IF c = Top.table THEN ReferencesTo(c, Top.cur.row[Target[c].column]) ELSE Rows(c), "Cascade"))
    /\ UNCHANGED <<db, job, session, saved, disturbed>>

\* delete_foreign_keys_cascade: a nested delete for every referencing table.
delete_foreign_keys_cascade(c) ==
    /\ InFrame("delete") /\ Top.cur # None /\ c \in Top.refs
    /\ Call([Top EXCEPT !.refs = @ \ {c}],
            DeleteFrame(c, ReferencesTo(c, Top.cur.row[Target[c].column]), "Cascade"))
    /\ UNCHANGED <<db, job, session, saved, disturbed>>

\* The record at the collected address goes, then its index entries.
DeleteRecord ==
    /\ InFrame("delete") /\ Top.cur # None /\ Top.refs = {}
    /\ Indexed(Top.table, Top.cur)
    /\ db' = [db EXCEPT ![Top.table][Top.cur.addr] = None]
    /\ SetTop([Top EXCEPT !.cur = None])
    /\ UNCHANGED <<job, session, saved, trapped, disturbed>>

DeleteRecordFails ==
    /\ InFrame("delete") /\ Top.cur # None /\ Top.refs = {}
    /\ ~Indexed(Top.table, Top.cur)
    /\ Abort

Updated(frame, rec) == Sanitize(frame.table, apply_update(rec.row, frame.patch))

CanUpdate(frame, rec) ==
    /\ validate_update(frame.table, Updated(frame, rec), rec.row.id)
    /\ Indexed(frame.table, rec)

\* Validate, write, update the indexes; then the references to what changed.
UpdateRecord(rec) ==
    /\ InFrame("update") /\ Top.cur = None /\ rec \in Top.todo
    /\ CanUpdate(Top, rec)
    /\ LET new == Updated(Top, rec)
           changed == {c \in Referencing(Top.table) :
                          rec.row[Target[c].column] # new[Target[c].column]}
       IN  /\ db' = [db EXCEPT ![Top.table][rec.addr] = new]
           /\ SetTop([Top EXCEPT !.todo = @ \ {rec},
                                 !.cur = IF changed = {} THEN None ELSE rec,
                                 !.refs = changed])
    /\ UNCHANGED <<job, session, saved, trapped, disturbed>>

UpdateRecordFails(rec) ==
    /\ InFrame("update") /\ Top.cur = None /\ rec \in Top.todo
    /\ ~CanUpdate(Top, rec)
    /\ Abort

\* Mutant of update_references_to_updated_record: the references are looked
\* up by the new value.
UpdateReferencesToNew(c) ==
    /\ InFrame("update") /\ Top.cur # None /\ c \in Top.refs
    /\ LET column == Target[c].column
           refs == Top.refs \ {c}
           value == Updated(Top, Top.cur)[column]
       IN  Call([Top EXCEPT !.refs = refs, !.cur = IF refs = {} THEN None ELSE @],
                UpdateFrame(c, ReferencesTo(c, value), [ref |-> value]))
    /\ UNCHANGED <<db, job, session, saved, disturbed>>

\* update_references_to_updated_record: a nested update of the foreign keys.
update_references_to_updated_record(c) ==
    /\ InFrame("update") /\ Top.cur # None /\ c \in Top.refs
    /\ LET column == Target[c].column
           refs == Top.refs \ {c}
       IN  Call([Top EXCEPT !.refs = refs, !.cur = IF refs = {} THEN None ELSE @],
                UpdateFrame(c, ReferencesTo(c, Top.cur.row[column]),
                            [ref |-> Updated(Top, Top.cur)[column]]))
    /\ UNCHANGED <<db, job, session, saved, disturbed>>

Records == UNION {stack[i].todo : i \in 1 .. Len(stack)}

\* One step of the running call.
Step ==
    \/ Finish \/ RunInsert \/ InsertFails \/ RunOperation \/ TransactionConflict
    \/ Return \/ DeleteRecord \/ DeleteRecordFails
    \/ \E rec \in Records :
          NextDelete(rec) \/ DeleteRestricted(rec) \/ UpdateRecord(rec) \/ UpdateRecordFails(rec)
    \/ \E c \in Table :
          delete_foreign_keys_cascade(c) \/ update_references_to_updated_record(c)

Next ==
    \/ Step
    \/ \E x \in Tx : begin_transaction(x) \/ rollback(x) \/ commit(x)
    \/ \E x \in Tx, input \in Inserts : TxInsert(x, input)
    \/ \E x \in Tx, input \in Updates : TxUpdate(x, input)
    \/ \E x \in Tx, input \in Deletes : TxDelete(x, input)
    \/ \E op \in Inserts \union Updates \union Deletes : Oneshot(op)

\* The engine is one thread: a call that started runs on until it returns.
Spec == Init /\ [][Next]_vars /\ WF_vars(Step)

-----------------------------------------------------------------------------
(* Properties                                                              *)

IsRow(row) == DOMAIN row = Columns

\* Storage holds rows or nothing, sessions hold operations, and only a running
\* job has frames.
TypeOK ==
    /\ \A t \in Table, a \in Addr : db[t][a] = None \/ IsRow(db[t][a])
    /\ \A x \in Tx : session[x] = None \/ Len(session[x]) <= MaxOps
    /\ Len(stack) <= MaxStack
    /\ ~job.running => stack = <<>> /\ db = saved
    /\ trapped \in BOOLEAN /\ disturbed \subseteq Tx

\* Whatever was staged against which view, and whatever other writers did
\* before the commit: between calls primary keys and unique columns hold each
\* value once and every foreign key finds its row.
IntegrityHolds ==
    Idle => \A t \in Table :
        /\ \A a, b \in Addr :
              a # b /\ db[t][a] # None /\ db[t][b] # None =>
                  /\ db[t][a].id # db[t][b].id
                  /\ t \in Unique => db[t][a].val # db[t][b].val
        /\ \A row \in Rows(t) : CheckForeignKey(Committed, t, row)

\* A commit that succeeds leaves what its transaction saw when it called
\* commit, passed through the sanitizers, in every table no cascade reaches.
CommitAppliesView ==
    [][Finish /\ job.tx # None =>
          \A t \in Table : Target[t] = None =>
              Rows(t)' = {Sanitize(t, row) : row \in job.view[t]}]_vars

\* Rows the running call has removed.
RemovedRows(t) == {a \in Addr : saved[t][a] # None /\ db[t][a] = None}

\* A cascade delete removes the rows it selects and rows that referenced
\* removed rows, nothing else.
CascadeRemovesNoMore ==
    [][Finish /\ job.tx = None /\ job.input.kind = "delete" =>
          \A t \in Table, a \in Addr :
              \/ db[t][a] = saved[t][a]
              \/ /\ a \in RemovedRows(t)
                 /\ \/ t = job.input.table /\ saved[t][a] \in job.input.rows
                    \/ /\ job.input.behaviour = "Cascade" /\ Target[t] # None
                       /\ \E b \in RemovedRows(Target[t].table) :
                             saved[Target[t].table][b][Target[t].column] = saved[t][a].ref]_vars

\* Renaming a referenced value changes it in every row that references it:
\* a row still references the record it referenced before the update.
ReferencesFollowRename ==
    [][Finish /\ job.tx = None /\ job.input.kind = "update" =>
          \A t \in Table : Target[t] # None /\ t # job.input.table =>
              \A a \in Addr, b \in Addr :
                  LET parent == Target[t].table
                      column == Target[t].column
                  IN  saved[t][a] # None /\ saved[parent][b] # None =>
                          (saved[t][a].ref = saved[parent][b][column]
                              <=> db[t][a].ref = db[parent][b][column])]_vars

\* A call that starts returns.
EveryCallReturns == job.running ~> ~job.running

\* docs/guides/relationships.md on Cascade: "Delete all records that reference
\* this one (recursively)".  The recursion ends with room on the stack.
NoStackOverflow == ~trapped

\* The same sentence: a cascade delete does not fail on the records it has
\* itself deleted.
CascadeFindsItsRecords == [][~DeleteRecordFails]_vars

\* transaction.rs on a staged update: "A row that changed or was replaced
\* after staging no longer matches and causes a commit conflict".  A conflict
\* then means that another writer committed meanwhile.
ConflictMeansForeignWrite == [][TransactionConflict => job.tx \in disturbed]_vars

\* docs/guides/transactions.md: "Operations within a transaction are visible
\* to subsequent operations in the same transaction": after a staged cascade
\* delete no visible row references a deleted one.
StagedCascadeIsVisible ==
    [][\A x \in Tx, input \in Deletes :
          TxDelete(x, input) /\ input.behaviour = "Cascade" =>
              \A c \in Referencing(input.table) :
                  \A gone \in View(x)[input.table] \ View(x)'[input.table] :
                      \A row \in View(x)'[c] : row.ref # gone[Target[c].column]]_vars
=============================================================================
