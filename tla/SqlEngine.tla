------------------------------ MODULE SqlEngine ------------------------------
(***************************************************************************)
(* SqlEngine::execute: one statement, given as tokens and parameters, is   *)
(* parsed, planned and run on the database, outside or inside a            *)
(* transaction, and its answer is shaped.                                  *)
(*                                                                         *)
(* A caller is OneShot (no transaction id), Open (the id of the open       *)
(* transaction) or Closed (an id that is over).  A command is [tokens,     *)
(* params, ...]; an outcome is [ok, answer, stored, staged].               *)
(***************************************************************************)
EXTENDS Filters, Overlay, FiniteSets, FiniteSetsExt

CONSTANTS
    MAX_CONDITION_TERMS, MAX_ALTERNATIVES, SCAN_BUDGET, TOTAL_BUDGET, SMALL_CANDIDATE_SET,
    Table, Columns, Indexes, Output, Fits, Reads, Patterns, MaxRowCount,
    Contents,     \* bound: contents of the tables to start from
    Statements,   \* bound: the commands, with the statement they spell and
                  \* whether it is legal (see Properties)
    MaxOps,       \* bound: staged operations
    MaxRows,      \* bound: addresses of a table
    All, NoLimit, NoTransaction, Idle

VARIABLES
    stored,   \* [Table -> [addresses in use -> row]]
    staged,   \* the operations of the open transaction, or NoTransaction
    last      \* the call that has been answered, with its outcome and the
              \* tables and operations it found; Idle once it has returned

vars == <<stored, staged, last>>

Parser == INSTANCE SqlParser
Planner == INSTANCE SqlPlanner
Joins(db, tx) == INSTANCE JoinEngine WITH stored <- db, staged <- tx, Inserts <- {}, Updates <- {},
                                          Deletes <- {}, Queries <- {}, JoinQueries <- {}
Groups(db, tx) == INSTANCE Aggregates WITH stored <- db, staged <- tx, Inserts <- {}, Updates <- {},
                                           Deletes <- {}, Queries <- {}, AggregateQueries <- {}

Callers == {"OneShot", "Closed"} \union (IF staged = NoTransaction THEN {} ELSE {"Open"})

\* The operations a caller reads through.
Overlaid(caller) == IF caller = "Open" THEN staged ELSE NoTransaction

-----------------------------------------------------------------------------
(* Outcomes                                                                *)

Error == [ok |-> FALSE, answer |-> <<>>, stored |-> stored, staged |-> staged]
Read(rows) == [Error EXCEPT !.ok = TRUE, !.answer = rows]
Wrote(count, db) == [Error EXCEPT !.ok = TRUE, !.answer = <<count>>, !.stored = db]
StagedOp(count, op) == [Error EXCEPT !.ok = TRUE, !.answer = <<count>>, !.staged = Append(@, op)]

-----------------------------------------------------------------------------
(* SELECT                                                                  *)

\* table_row: every column, or the outputs in order with their names.
table_row(row, outputs) ==
    IF outputs = <<>> THEN row
    ELSE [i \in DOMAIN outputs |-> <<outputs[i].name, row[outputs[i].source]>>]

\* join_rows: a column of the result is found by its table and its name.  The
\* sides of a row are in the order of the clauses.
join_row(row, tables, outputs) ==
    LET Side(o) == row[First({i \in DOMAIN tables : tables[i] = o.source[1]})] IN
    IF outputs = <<>> THEN row
    ELSE [i \in DOMAIN outputs |-> <<outputs[i].name, Side(outputs[i])[outputs[i].source[2]]>>]

aggregate_row(row, outputs) ==
    [i \in DOMAIN outputs |->
        <<outputs[i].name, IF outputs[i].group_key THEN row.keys[outputs[i].source]
                           ELSE row.values[outputs[i].source]>>]

Shaped(read, plan, s) ==
    LET tables == <<s.from.name>> \o [i \in DOMAIN s.joins |-> s.joins[i].table.name]
        Row(r) == CASE plan.kind = "table" -> table_row(r, plan.outputs)
                    [] plan.kind = "join" -> join_row(r, tables, plan.outputs)
                    [] plan.kind = "aggregate" -> aggregate_row(r, plan.outputs)
    IN  IF read.ok THEN Read([i \in DOMAIN read.rows |-> Row(read.rows[i])]) ELSE Error

QueryRows(tx, plan, table) ==
    CASE plan.kind = "table" -> Joins(stored, tx)!select_columns(table, plan.query)
      [] plan.kind = "join" -> Joins(stored, tx)!join(plan.query)
      [] plan.kind = "aggregate" -> Groups(stored, tx)!run_aggregate(plan.query)

RunPlan(tx, plan, s) == Shaped(QueryRows(tx, plan, s.from.name), plan, s)

RunSelect(caller, s, params) ==
    IF Planner!AcceptsSelect(s, params) /\ caller # "Closed"
    THEN RunPlan(Overlaid(caller), Planner!select(s, params), s) ELSE Error

-----------------------------------------------------------------------------
(* Writes on committed storage: db is the tables as far as they are        *)
(* changed.  Every write leaves them as they were or changes all it names. *)

RowsIn(db, t) == {db[t][a] : a \in DOMAIN db[t]}

Refuses == [ok |-> FALSE]
Changed(db, count) == [ok |-> TRUE, db |-> db, count |-> count]

\* The columns with a foreign key to t, as <<table, column>>.
ReferencesTo(t) ==
    UNION {{<<u, c>> : c \in {d \in DOMAIN Columns[u] : Columns[u][d].fk = t}} : u \in Table}

\* Unique keys, and references to rows that are there.
Fit(rows, t, row) ==
    /\ \A other \in rows[t] : other.id # row.id
    /\ \A c \in DOMAIN Columns[t] :
          Columns[t][c].fk # "" /\ row[c] # Null => \E other \in rows[Columns[t][c].fk] : other.id = row[c]

Snapshot(db) == [t \in Table |-> RowsIn(db, t)]

StoreRow(db, t, row) ==
    LET free == CHOOSE a \in 1 .. MaxRows + 1 : a \notin DOMAIN db[t] /\ \A b \in 1 .. a - 1 : b \in DOMAIN db[t]
    IN  [db EXCEPT ![t] = [a \in DOMAIN @ \union {free} |-> IF a = free THEN row ELSE @[a]]]

WriteInsert(db, t, row) ==
    IF Fit(Snapshot(db), t, row) THEN Changed(StoreRow(db, t, row), 1) ELSE Refuses

\* The rows at the addresses, changed, and the references that follow a key.
Patched(db, t, at, patch) ==
    [u \in Table |-> [a \in DOMAIN db[u] |->
        IF u = t /\ a \in at THEN apply_update(db[t][a], patch)
        ELSE [c \in DOMAIN db[u][a] |->
                IF "id" \in DOMAIN patch /\ Columns[u][c].fk = t /\ \E b \in at : db[t][b].id = db[u][a][c]
                THEN patch.id ELSE db[u][a][c]]]]

Followers(db, t, at, patch) ==
    IF "id" \notin DOMAIN patch THEN 0
    ELSE FoldSet(LAMBDA ref, n : n + Cardinality({a \in DOMAIN db[ref[1]] : \E b \in at :
                     db[t][b].id # patch.id /\ db[t][b].id = db[ref[1]][a][ref[2]]}), 0, ReferencesTo(t))

\* Every changed row is validated against the others.
WriteUpdate(db, t, at, patch) ==
    LET after == Patched(db, t, at, patch)
        Others(a) == [Snapshot(after) EXCEPT ![t] = {after[t][b] : b \in DOMAIN after[t] \ {a}}]
    IN  IF \A a \in at : Fit(Others(a), t, after[t][a])
        THEN Changed(after, Cardinality(at) + Followers(db, t, at, patch)) ELSE Refuses

\* What references the rows at the addresses of t, as <<table, address>>.
Referencing(db, t, at) ==
    UNION {{<<ref[1], a>> : a \in {b \in DOMAIN db[ref[1]] :
               \E d \in at : db[t][d].id = db[ref[1]][b][ref[2]]}} : ref \in ReferencesTo(t)}

RECURSIVE Cascaded(_, _)
Cascaded(db, gone) ==
    LET more == UNION {Referencing(db, g[1], {g[2]}) : g \in gone}
    IN  IF more \subseteq gone THEN gone ELSE Cascaded(db, gone \union more)

Without(db, gone) ==
    [t \in Table |-> [a \in {b \in DOMAIN db[t] : <<t, b>> \notin gone} |-> db[t][a]]]

WriteDelete(db, t, at, behaviour) ==
    LET gone == {<<t, a>> : a \in at} IN
    IF behaviour = "Cascade" THEN Changed(Without(db, Cascaded(db, gone)), Cardinality(Cascaded(db, gone)))
    ELSE IF Referencing(db, t, at) = {} THEN Changed(Without(db, gone), Cardinality(at)) ELSE Refuses

-----------------------------------------------------------------------------
(* Data statements                                                         *)

Finished(written) == IF written.ok THEN Wrote(written.count, written.db) ELSE Error

\* InsertRecord::from_values: a column left out is NULL, where it may be.
CompleteRow(t, values) == [c \in DOMAIN Columns[t] |-> IF c \in DOMAIN values THEN values[c] ELSE Null]

Storable(t, values) == \A c \in DOMAIN values : values[c] = Null => Columns[t][c].nullable

InsertRow(caller, t, row) ==
    IF ~Storable(t, row) THEN Error
    ELSE IF caller = "OneShot" THEN Finished(WriteInsert(stored, t, row))
    ELSE IF Fit([u \in Table |-> Range(Joins(stored, staged)!ReaderRows(u))], t, row)
    THEN StagedOp(1, InsertOp(t, row)) ELSE Error

RunInsert(caller, s, params) ==
    IF caller # "Closed" /\ Planner!AcceptsInsert(s, params)
    THEN InsertRow(caller, s.table, CompleteRow(s.table, Planner!insert(s, params))) ELSE Error

\* A filter that fails on a record.
Unusable == {-1}
FoundAt(addresses) == [ok |-> addresses # Unusable, at |-> addresses]

\* collect_matching_records outside a transaction, existing_rows_for_filter
\* inside one.
Found(caller, t, f) ==
    IF caller = "OneShot" THEN FoundAt(Joins(stored, NoTransaction)!collect_matching_records(t, f))
    ELSE Joins(stored, staged)!ReadRows(t, Joins(stored, staged)!PlainSelect(f))

UpdateRows(caller, t, patch, found) ==
    IF caller = "OneShot" THEN Finished(WriteUpdate(stored, t, found.at, patch))
    ELSE StagedOp(Len(found.rows), UpdateOp(t, Range(found.rows), patch))

DeleteRows(caller, t, behaviour, found) ==
    IF caller = "OneShot" THEN Finished(WriteDelete(stored, t, found.at, behaviour))
    ELSE StagedOp(Len(found.rows), DeleteOp(t, Range(found.rows), behaviour))

RunFound(caller, s, params, found) ==
    CASE ~found.ok -> Error
      [] s.kind = "update" -> UpdateRows(caller, s.table, Planner!update(s, params), found)
      [] s.kind = "delete" -> DeleteRows(caller, s.table, Planner!delete(s, params), found)

AcceptsChange(s, params) ==
    IF s.kind = "update"
    THEN Planner!AcceptsUpdate(s, params) /\ Storable(s.table, Planner!update(s, params))
    ELSE Planner!AcceptsDelete(s, params)

\* UPDATE and DELETE
RunChange(caller, s, params) ==
    IF caller # "Closed" /\ AcceptsChange(s, params)
    THEN RunFound(caller, s, params, Found(caller, s.table, Planner!table_filter(s, params))) ELSE Error

-----------------------------------------------------------------------------
(* Transactions                                                            *)

\* validated_transaction_filter: each captured version is still one row.
CapturedAt(db, op) == {a \in DOMAIN db[op.table] : db[op.table][a] \in op.rows}
Conflicts(db, op) ==
    \E row \in op.rows : Cardinality({a \in DOMAIN db[op.table] : db[op.table][a] = row}) # 1

Replayed(db, op) ==
    CASE op.kind = "insert" -> WriteInsert(db, op.table, op.row)
      [] Conflicts(db, op) -> Refuses
      [] op.kind = "update" -> WriteUpdate(db, op.table, CapturedAt(db, op), op.patch)
      [] op.kind = "delete" -> WriteDelete(db, op.table, CapturedAt(db, op), op.behaviour)

Commits(ops) ==
    FoldLeft(LAMBDA acc, op : IF acc.ok THEN Replayed(acc.db, op) ELSE acc, Changed(stored, 0), ops)

Over == [Error EXCEPT !.staged = NoTransaction]

\* The transaction is over whether the commit succeeds or not.
Committed(result) == IF result.ok THEN [Over EXCEPT !.ok = TRUE, !.stored = result.db] ELSE Over

\* BEGIN wants no id, COMMIT and ROLLBACK one; a closed id can be rolled back.
RunTransaction(caller, kind) ==
    CASE kind = "begin" -> IF caller = "OneShot" THEN [Read(<<>>) EXCEPT !.staged = <<>>] ELSE Error
      [] caller = "OneShot" -> Error
      [] kind = "commit" -> IF caller = "Open" THEN Committed(Commits(staged)) ELSE Error
      [] kind = "rollback" -> IF caller = "Open" THEN [Over EXCEPT !.ok = TRUE] ELSE Read(<<>>)

-----------------------------------------------------------------------------

RunStatement(caller, s, params) ==
    CASE s.kind = "select" -> RunSelect(caller, s, params)
      [] s.kind = "insert" -> RunInsert(caller, s, params)
      [] s.kind \in {"update", "delete"} -> RunChange(caller, s, params)
      [] OTHER -> RunTransaction(caller, s.kind)

RunParsed(caller, parsed, params) ==
    IF parsed.ok /\ parsed.parameter_count = Len(params)
    THEN RunStatement(caller, parsed.statement, params) ELSE Error

execute(caller, command) == RunParsed(caller, Parser!parse(command.tokens), command.params)

Init == stored \in Contents /\ staged = NoTransaction /\ last = Idle

\* The bounds; one transaction is open at a time.
InBounds(outcome) ==
    /\ outcome.staged # NoTransaction => Len(outcome.staged) <= MaxOps
    /\ \A t \in Table : DOMAIN outcome.stored[t] \subseteq 1 .. MaxRows

Execute(caller, command) ==
    /\ last = Idle
    /\ caller = "OneShot" /\ command.statement.kind = "begin" => staged = NoTransaction
    /\ \E outcome \in {execute(caller, command)} :
          /\ InBounds(outcome)
          /\ stored' = outcome.stored /\ staged' = outcome.staged
          /\ last' = [caller |-> caller, command |-> command, outcome |-> outcome,
                      stored |-> stored, staged |-> staged]

Return == last # Idle /\ last' = Idle /\ UNCHANGED <<stored, staged>>

Next ==
    \/ \E command \in Statements : \E caller \in Callers : Execute(caller, command)
    \/ Return

Spec == Init /\ [][Next]_vars
=============================================================================
