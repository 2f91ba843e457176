----------------------------- MODULE Migration -----------------------------
(***************************************************************************)
(* The life of a schema: releases with their compiled schema, the schema   *)
(* registry on page 0 and in memory, the drift gate in front of every      *)
(* operation, and migrate, which rewrites stored rows to the compiled      *)
(* schema inside one journaled block.                                      *)
(*                                                                         *)
(* The journal is the subject of module JournaledMemory: a failed block    *)
(* leaves the memory it began with.  Where records go is the subject of    *)
(* module TableRegistry: here a rewritten record stays at its address when *)
(* it still fits and moves otherwise.  Hashes are injective.               *)
(***************************************************************************)
EXTENDS MigrationPlan

CONSTANTS
    Releases,               \* the compiled schemas that may be deployed
    Linked(_),              \* the schemas of the program a release is part of
    TransformHook(_, _, _), \* Migrate::transform_column: a value, or Malformed
    Samples(_),             \* the values applications store, by data type
    MaxRows                 \* rows of a table

\* What the derive macros generate.
ASSUME SchemaAssumption ==
    /\ IsSequence(TableOrder)
    /\ \A release \in Releases : \A t \in DOMAIN release :
          /\ IsSnapshot(release[t])
          /\ \A n \in Names(release[t].columns) : IsSequence(RenamedFrom(t, n))

VARIABLES
    compiled,    \* the schema of the running release
    disk,        \* stable memory: registry page, snapshots, rows, indexes, counters
    registry,    \* the SchemaRegistry of the context
    drift,       \* the cached drift flag of the context
    migrating,   \* the flag of the context
    job,         \* the running migrate call
    logical,     \* history: the rows of each table, as applications know them
    issued       \* history: the autoincrement values handed out, by table

vars == <<compiled, disk, registry, drift, migrating, job, logical, issued>>

Idle == [ops |-> <<>>, running |-> FALSE]
Unknown == [hash |-> {}, drifted |-> FALSE, cached |-> FALSE]

Empty == [x \in {} |-> x]
Put(f, key, value) == [k \in DOMAIN f \union {key} |-> IF k = key THEN value ELSE f[k]]
Drop(f, key) == [k \in DOMAIN f \ {key} |-> f[k]]

(***************************************************************************)
(* The schema registry.                                                    *)
(***************************************************************************)
compute_hash(snapshots) == {<<t, snapshots[t]>> : t \in DOMAIN snapshots}

\* SchemaRegistry::load: what page 0 says.
load(d) == [tables |-> d.tables, hash |-> d.hash]

stored_snapshots == [t \in registry.tables |-> disk.snapshots[t]]

zero(type) == Value(type, <<0>>)

Counters(snapshot) ==
    LET auto == {i \in DOMAIN snapshot.columns : snapshot.columns[i].auto_increment}
    IN  [n \in {snapshot.columns[i].name : i \in auto} |->
            zero(Named(snapshot.columns, n).data_type)]

\* The index ledger of a new or rebuilt table, without entries.
init_from_keys(indexes) == [k \in {indexes[i].columns : i \in DOMAIN indexes} |-> {}]

\* A table that was not registered gets its pages and its ledgers; the hash
\* is recomputed and page 0 saved.
Registered(d, t, snapshot) ==
    LET snapshots == Put(d.snapshots, t, snapshot)
    IN  [d EXCEPT !.tables = @ \union {t}, !.snapshots = snapshots,
                  !.rows = Put(@, t, Empty), !.indexes = Put(@, t, init_from_keys(snapshot.indexes)),
                  !.counters = Put(@, t, Counters(snapshot)), !.hash = compute_hash(snapshots)]

Unregistered(d, t) ==
    LET snapshots == Drop(d.snapshots, t)
    IN  [d EXCEPT !.tables = @ \ {t}, !.snapshots = snapshots, !.rows = Drop(@, t),
                  !.indexes = Drop(@, t), !.counters = Drop(@, t), !.hash = compute_hash(snapshots)]

(***************************************************************************)
(* The drift gate.                                                         *)
(***************************************************************************)
cached_drift_for(hash) == drift.cached /\ drift.hash = hash

\* Mutant of drift_check: the cached flag is used for every compiled schema.
DriftCheckAnyHash ==
    /\ ~migrating
    /\ IF drift.cached THEN drift.drifted ELSE registry.hash # compute_hash(compiled)

drift_check ==
    /\ ~migrating
    /\ IF cached_drift_for(compute_hash(compiled)) THEN drift.drifted
       ELSE registry.hash # compute_hash(compiled)

\* What the cache holds once drift_check returned.
DriftCached ==
    IF migrating \/ cached_drift_for(compute_hash(compiled)) THEN drift
    ELSE [hash |-> compute_hash(compiled), drifted |-> registry.hash # compute_hash(compiled),
          cached |-> TRUE]

(***************************************************************************)
(* Rows, as the compiled schema and as a snapshot read them.               *)
(***************************************************************************)
Decoded(rows, Decode(_)) == [a \in DOMAIN rows |-> Decode(rows[a])]
Readable(rows) == \A a \in DOMAIN rows : rows[a] # <<Malformed>>

\* schema.select without a filter: the rows of t as the compiled type.
SelectAll(t) == Decoded(disk.rows[t], LAMBDA bytes : decode_record(bytes, compiled[t]))

Position(columns, name) == CHOOSE i \in DOMAIN columns : columns[i].name = name

HasIndex(t, name) ==
    \E i \in DOMAIN compiled[t].indexes : compiled[t].indexes[i].columns = <<name>>

\* The rows whose column equals value, found through the compiled index on
\* the column when there is one.
SelectEq(t, name, value) ==
    LET rows == SelectAll(t)
    IN  IF HasIndex(t, name)
        THEN {e[2] : e \in {f \in disk.indexes[t][<<name>>] : f[1] = <<value>>}}
        ELSE {a \in DOMAIN rows : rows[a][Position(compiled[t].columns, name)] = value}

\* The compiled schema has an index on the column that storage lacks.
IndexMissing(t, name) == HasIndex(t, name) /\ <<name>> \notin DOMAIN disk.indexes[t]

\* rebuild_indexes: every entry again, from the values of the rows.
rebuild_indexes(snapshot, rows) ==
    LET At(values, name) ==
          IF name \in Names(snapshot.columns)
          THEN values[Position(snapshot.columns, name)] ELSE Null
    IN  [k \in DOMAIN init_from_keys(snapshot.indexes) |->
            {<<[i \in DOMAIN k |-> At(rows[a], k[i])], a>> : a \in DOMAIN rows}]

(***************************************************************************)
(* The operations of a migration.  Each is a function on the state of the  *)
(* block: the disk, the registry, the snapshots touched so far and whether *)
(* the operation went well.                                                *)
(***************************************************************************)
Failed(s) == [s EXCEPT !.ok = FALSE]
Touch(s, t, snapshot) == [s EXCEPT !.touched = Put(@, t, snapshot)]

\* Mutant of load_snapshot_for_mutation: earlier operations of the same
\* migration are not seen.
LoadStoredSnapshot(s, t) == s.disk.snapshots[t]

load_snapshot_for_mutation(s, t) ==
    IF t \in DOMAIN s.touched THEN s.touched[t] ELSE s.disk.snapshots[t]

\* The addresses of the rows once each was written again: a row that does
\* not fit where it was moves to the first free address.
Moved(rows, bytes) ==
    LET Fresh(b) == CHOOSE n \in 1..2 * MaxRows :
                       n \notin DOMAIN b /\ \A k \in 1..n - 1 : k \in DOMAIN b
        Write(b, a) == IF Len(bytes[a]) <= Len(rows[a]) THEN b
                       ELSE Put(Drop(b, a), Fresh(b), a)
    IN  FoldLeft(Write, [a \in DOMAIN rows |-> a], SetToSortSeq(DOMAIN rows, <))

\* The rows with the given values are written by the new snapshot, and the
\* indexes are rebuilt.
WriteRows(s, t, new, values) ==
    LET Written(bytes, from) ==
          Touch([s EXCEPT !.disk.rows[t] = [a \in DOMAIN from |-> bytes[from[a]]],
                          !.disk.indexes[t] =
                              rebuild_indexes(new, [a \in DOMAIN from |-> values[from[a]]])],
                t, new)
        Encoded(bytes) == Written(bytes, Moved(s.disk.rows[t], bytes))
    IN  IF \A a \in DOMAIN values : Encodes(values[a], new)
        THEN Encoded([a \in DOMAIN values |-> encode_record_by_snapshot(values[a], new)])
        ELSE Failed(s)

\* Every row is read by the old snapshot, projected, and written by the new
\* one.  Project maps the values of a row.
rewrite_table(s, t, old, new, Project(_)) ==
    LET Projected(read) == IF read = <<Malformed>> THEN read ELSE Project(read)
    IN  WriteRows(s, t, new,
            [a \in DOMAIN s.disk.rows[t] |->
                Projected(decode_record_by_snapshot(s.disk.rows[t][a], old))])

create_table(s, op) ==
    Touch([s EXCEPT !.disk = Registered(@, op.table, op.schema),
                    !.registry = load(Registered(s.disk, op.table, op.schema))],
          op.table, op.schema)

drop_table(s, op) ==
    [s EXCEPT !.disk = Unregistered(@, op.table), !.registry = load(Unregistered(s.disk, op.table))]

\* The column's snapshot with a new type, and the rows with converted values.
Retype(s, op, Convert(_)) ==
    LET old == load_snapshot_for_mutation(s, op.table)
        i == Position(old.columns, op.name)
        new == [old EXCEPT !.columns[i].data_type = op.new_type]
    IN  IF op.name \notin Names(old.columns) THEN Failed(s)
        ELSE rewrite_table(s, op.table, old, new, LAMBDA row : [row EXCEPT ![i] = Convert(@)])

widen_column(s, op) ==
    Retype(s, op, LAMBDA v : widen_value(op.old_type, op.new_type, v))

transform_column(s, op) ==
    Retype(s, op, LAMBDA v : IF v = Null THEN Null ELSE TransformHook(op.table, op.name, v))

rename_column(s, op) ==
    LET old == load_snapshot_for_mutation(s, op.table)
        new == [old EXCEPT !.columns[Position(old.columns, op.old)].name = op.new]
    IN  IF op.old \notin Names(old.columns) THEN Failed(s)
        ELSE rewrite_table(s, op.table, old, new, LAMBDA row : row)

drop_column(s, op) ==
    LET old == load_snapshot_for_mutation(s, op.table)
        i == Position(old.columns, op.name)
    IN  IF op.name \notin Names(old.columns) THEN Failed(s)
        ELSE rewrite_table(s, op.table, old, [old EXCEPT !.columns = RemoveAt(@, i)],
                           LAMBDA row : RemoveAt(row, i))

resolve_default(t, column) ==
    IF DefaultHook(t, column.name) # NoDefault THEN DefaultHook(t, column.name)
    ELSE IF column.default # NoDefault THEN column.default
    ELSE IF column.nullable THEN Null ELSE NoDefault

\* validate_foreign_key_value: the target table has the value.
References(key, value) ==
    /\ key[1] \in registry.tables /\ key[1] \in DOMAIN compiled
    /\ ~IndexMissing(key[1], key[2])
    /\ Readable(SelectAll(key[1]))
    /\ SelectEq(key[1], key[2], value) # {}

validate_added_column_constraints(s, t, column, default) ==
    /\ column.nullable \/ default # Null
    /\ column.unique => Cardinality(DOMAIN s.disk.rows[t]) <= 1
    /\ column.foreign_key # NoKey /\ default # Null => References(column.foreign_key, default)

add_column(s, op) ==
    LET old == load_snapshot_for_mutation(s, op.table)
        default == resolve_default(op.table, op.column)
    IN  IF default = NoDefault
           \/ ~validate_added_column_constraints(s, op.table, op.column, default)
        THEN Failed(s)
        ELSE rewrite_table(s, op.table, old, [old EXCEPT !.columns = Append(@, op.column)],
                           LAMBDA row : Append(row, default))

\* The values of a column of t, as the compiled type reads them.
ColumnOf(t, name) ==
    LET rows == SelectAll(t)
    IN  [a \in DOMAIN rows |-> rows[a][Position(compiled[t].columns, name)]]

validate_no_nulls(t, name) ==
    /\ Readable(SelectAll(t))
    /\ \A a \in DOMAIN disk.rows[t] : ColumnOf(t, name)[a] # Null

validate_unique(t, name) ==
    /\ Readable(SelectAll(t))
    /\ \A a, b \in DOMAIN disk.rows[t] : ColumnOf(t, name)[a] = ColumnOf(t, name)[b] => a = b

validate_foreign_key(t, name, key) ==
    /\ Readable(SelectAll(t))
    /\ \A a \in DOMAIN disk.rows[t] :
          ColumnOf(t, name)[a] = Null \/ References(key, ColumnOf(t, name)[a])

\* Mutant of AlterAllowed: a new unique constraint is not checked.
AlterUnchecked(t, op) ==
    /\ "nullable" \in op.flags /\ ~op.column.nullable => validate_no_nulls(t, op.name)
    /\ "foreign_key" \in op.flags /\ op.column.foreign_key # NoKey =>
          validate_foreign_key(t, op.name, op.column.foreign_key)

AlterAllowed(t, op) ==
    /\ "nullable" \in op.flags /\ ~op.column.nullable => validate_no_nulls(t, op.name)
    /\ "unique" \in op.flags /\ op.column.unique => validate_unique(t, op.name)
    /\ "foreign_key" \in op.flags /\ op.column.foreign_key # NoKey =>
          validate_foreign_key(t, op.name, op.column.foreign_key)

\* Only the snapshot changes.
alter_column(s, op) ==
    LET old == load_snapshot_for_mutation(s, op.table)
        i == Position(old.columns, op.name)
    IN  IF op.name \notin Names(old.columns) \/ ~AlterAllowed(op.table, op) THEN Failed(s)
        ELSE Touch(s, op.table, [old EXCEPT !.columns[i] =
               [f \in DOMAIN @ |-> IF f \in op.flags THEN op.column[f] ELSE @[f]]])

rebuild_indexes_from_storage(s, t, snapshot) ==
    LET rows == Decoded(s.disk.rows[t], LAMBDA b : decode_record_by_snapshot(b, snapshot))
    IN  IF ~Readable(rows) THEN Failed(s)
        ELSE Touch([s EXCEPT !.disk.indexes[t] = rebuild_indexes(snapshot, rows)], t, snapshot)

\* Mutant of add_index: the index is declared and not filled.
AddIndexUnfilled(s, op) ==
    LET old == load_snapshot_for_mutation(s, op.table)
    IN  Touch(s, op.table, [old EXCEPT !.indexes = Append(@, op.index)])

add_index(s, op) ==
    LET old == load_snapshot_for_mutation(s, op.table)
    IN  IF Contains(old.indexes, op.index) THEN Touch(s, op.table, old)
        ELSE rebuild_indexes_from_storage(s, op.table,
               [old EXCEPT !.indexes = Append(@, op.index)])

drop_index(s, op) ==
    LET old == load_snapshot_for_mutation(s, op.table)
    IN  rebuild_indexes_from_storage(s, op.table,
          [old EXCEPT !.indexes = Chosen(@, LAMBDA i : i # op.index)])

apply_op(s, op) ==
    CASE op.op = "CreateTable" -> create_table(s, op)
      [] op.op = "DropTable" -> drop_table(s, op)
      [] op.op = "AlterColumn" -> alter_column(s, op)
      [] op.op = "AddIndex" -> add_index(s, op)
      [] op.op = "DropIndex" -> drop_index(s, op)
      [] op.op = "AddColumn" -> add_column(s, op)
      [] op.op = "DropColumn" -> drop_column(s, op)
      [] op.op = "RenameColumn" -> rename_column(s, op)
      [] op.op = "WidenColumn" -> widen_column(s, op)
      [] OTHER -> transform_column(s, op)

(***************************************************************************)
(* Inserts.                                                                *)
(***************************************************************************)
\* The values an application may give for a column.
Inputs(column) ==
    {Value(column.data_type, v) : v \in Samples(column.data_type)}
      \union (IF column.nullable THEN {Null} ELSE {})

\* The next value of every autoincrement column that was not given, with
\* the counters as they are then stored.  The columns are taken in their
\* order, up to the first one whose counter is missing or exhausted.
fill_auto_increment_values(t, given) ==
    LET columns == compiled[t].columns
        counters == disk.counters[t]
        next_autoincrement(n) == Value(counters[n].type, <<counters[n].v[1] + 1>>)
        wanted == {i \in DOMAIN columns : columns[i].auto_increment /\ columns[i].name \notin DOMAIN given}
        refused == {i \in wanted : \/ columns[i].name \notin DOMAIN counters
                                   \/ counters[columns[i].name].v[1] = Greatest(counters[columns[i].name].type)}
        filled == {columns[i].name : i \in {j \in wanted : \A k \in refused : j < k}}
    IN  [ok |-> refused = {},
         counters |-> [n \in DOMAIN counters |->
                          IF n \in filled THEN next_autoincrement(n) ELSE counters[n]],
         values |-> [n \in DOMAIN given \union filled |->
                        IF n \in filled THEN next_autoincrement(n) ELSE given[n]]]

\* InsertIntegrityValidator::validate and the conversion to the record type.
ValidInsert(t, values) ==
    \A i \in DOMAIN compiled[t].columns :
        LET column == compiled[t].columns[i]
            value == values[column.name]
        IN  /\ column.name \in DOMAIN values
            /\ EncodesAs(column, value)
            /\ column.unique \/ column.primary_key =>
                  \A a \in DOMAIN disk.rows[t] : ColumnOf(t, column.name)[a] # value
            /\ column.foreign_key # NoKey /\ value # Null => References(column.foreign_key, value)

\* Mutant of InsertRow: the counters are part of the journaled block.
InsertRowCountersJournaled(t, given) ==
    LET filled == fill_auto_increment_values(t, given)
        valid == filled.ok /\ ValidInsert(t, filled.values)
        row == [i \in DOMAIN compiled[t].columns |-> filled.values[compiled[t].columns[i].name]]
        address == CHOOSE n \in 1..2 * MaxRows :
                      n \notin DOMAIN disk.rows[t] /\ \A k \in 1..n - 1 : k \in DOMAIN disk.rows[t]
    IN  /\ disk' = IF ~valid THEN disk
                   ELSE [disk EXCEPT
                          !.counters[t] = filled.counters,
                          !.rows[t] = Put(@, address, encode_record_by_snapshot(row, compiled[t])),
                          !.indexes[t] = [k \in DOMAIN @ |-> @[k] \union
                             {<<[i \in DOMAIN k |-> filled.values[k[i]]], address>>}]]
        /\ logical' = IF valid THEN [logical EXCEPT ![t] = @ \union {filled.values}] ELSE logical
        /\ issued' = [issued EXCEPT ![t] = @ \union
              {filled.values[c].v[1] : c \in DOMAIN filled.values \ DOMAIN given}]

\* insert writes the counters at once; the row and its index entries follow
\* in a journaled block, or not at all.
InsertRow(t, given) ==
    LET filled == fill_auto_increment_values(t, given)
        valid == filled.ok /\ ValidInsert(t, filled.values)
        row == [i \in DOMAIN compiled[t].columns |-> filled.values[compiled[t].columns[i].name]]
        address == CHOOSE n \in 1..2 * MaxRows :
                      n \notin DOMAIN disk.rows[t] /\ \A k \in 1..n - 1 : k \in DOMAIN disk.rows[t]
        counted == [disk EXCEPT !.counters[t] = filled.counters]
    IN  /\ disk' = IF ~valid THEN counted
                   ELSE [counted EXCEPT
                          !.rows[t] = Put(@, address, encode_record_by_snapshot(row, compiled[t])),
                          !.indexes[t] = [k \in DOMAIN @ |-> @[k] \union
                             {<<[i \in DOMAIN k |-> filled.values[k[i]]], address>>}]]
        /\ logical' = IF valid THEN [logical EXCEPT ![t] = @ \union {filled.values}] ELSE logical
        /\ issued' = [issued EXCEPT ![t] = @ \union
              {filled.values[c].v[1] : c \in DOMAIN filled.values \ DOMAIN given}]

(***************************************************************************)
(* What a migration is meant to do to the rows an application knows.       *)
(***************************************************************************)
\* The stored column that a compiled column continues, in a sequence of at
\* most one name.
Origin(t, old, name) ==
    IF name \in Names(old.columns) THEN <<name>>
    ELSE LET previous == SelectSeq(RenamedFrom(t, name), LAMBDA p : p \in Names(old.columns))
         IN  IF previous = <<>> THEN <<>> ELSE <<previous[1]>>

Migrated(t, old, row) ==
    [n \in Names(compiled[t].columns) |->
        LET column == Named(compiled[t].columns, n)
            from == Origin(t, old, n)
            value == row[from[1]]
        IN  IF from = <<>> THEN resolve_default(t, column)
            ELSE IF value = Null \/ value.type = column.data_type THEN value
            ELSE IF is_widening(value.type, column.data_type)
            THEN Value(column.data_type, value.v) ELSE TransformHook(t, n, value)]

(***************************************************************************)
(* The actions.                                                            *)
(***************************************************************************)
Fresh0 == [tables |-> {}, hash |-> {}, snapshots |-> Empty, rows |-> Empty,
           indexes |-> Empty, counters |-> Empty]

Init ==
    /\ compiled \in Releases
    /\ disk = Fresh0
    /\ registry = load(Fresh0)
    /\ drift = Unknown
    /\ migrating = FALSE
    /\ job = Idle
    /\ logical = Empty
    /\ issued = Empty

\* The process ends and a release starts: the same or another one.  What a
\* running block wrote is gone (a checkpoint is only taken between calls).
Restart(release) ==
    /\ compiled' = release
    /\ disk' = IF job.running THEN job.saved ELSE disk
    /\ registry' = load(disk')
    /\ drift' = Unknown
    /\ migrating' = FALSE
    /\ job' = Idle
    /\ UNCHANGED <<logical, issued>>

register_table(t) ==
    /\ ~job.running
    /\ t \notin registry.tables
    /\ disk' = Registered(disk, t, compiled[t])
    /\ registry' = load(disk')
    /\ logical' = Put(logical, t, {})
    /\ issued' = Put(issued, t, {})
    /\ UNCHANGED <<compiled, drift, migrating, job>>

\* WasmDbmsDatabase::oneshot and from_transaction compute the flag anew.
OpenDatabase ==
    /\ ~job.running
    /\ drift' = [hash |-> compute_hash(compiled),
                 drifted |-> registry.hash # compute_hash(compiled), cached |-> TRUE]
    /\ UNCHANGED <<compiled, disk, registry, migrating, job, logical, issued>>

\* A database handle that was opened earlier on the same context, with
\* another schema of the program, is used again.
UseDatabase(release) ==
    /\ ~job.running
    /\ release \in Linked(compiled)
    /\ compiled' = release
    /\ UNCHANGED <<disk, registry, drift, migrating, job, logical, issued>>

\* has_drift, and every operation that the gate refuses.
CheckDrift ==
    /\ ~job.running
    /\ drift' = DriftCached
    /\ UNCHANGED <<compiled, disk, registry, migrating, job, logical, issued>>

insert(t) ==
    /\ ~job.running
    /\ ~drift_check
    /\ t \in registry.tables
    /\ Cardinality(DOMAIN disk.rows[t]) < MaxRows
    /\ LET columns == compiled[t].columns
           auto == {i \in DOMAIN columns : columns[i].auto_increment}
       IN  \E omitted \in SUBSET auto :
             \E given \in [DOMAIN columns \ omitted -> UNION {Inputs(columns[i]) : i \in DOMAIN columns}] :
                /\ \A i \in DOMAIN given : given[i] \in Inputs(columns[i])
                /\ InsertRow(t, [n \in {columns[i].name : i \in DOMAIN given} |->
                                    given[Position(columns, n)]])
    /\ drift' = DriftCached
    /\ UNCHANGED <<compiled, registry, migrating, job>>

\* migrate plans, checks the policy and opens the block.
Migrate(allow_destructive) ==
    /\ ~job.running
    /\ \E plan \in {diff(stored_snapshots, compiled)} :
          /\ ~plan.missing
          /\ validate(plan.ops, allow_destructive)
          /\ job' = [running |-> TRUE, ops |-> order_ops(plan.ops), touched |-> Empty,
                     saved |-> disk, before |-> stored_snapshots,
                     allow_destructive |-> allow_destructive]
    /\ migrating' = TRUE
    /\ UNCHANGED <<compiled, disk, registry, drift, logical, issued>>

Block == [disk |-> disk, registry |-> registry, touched |-> job.touched, ok |-> TRUE]

ApplyOp ==
    /\ job.running
    /\ job.ops # <<>>
    /\ \E s \in {apply_op(Block, Head(job.ops))} :
          /\ s.ok
          /\ disk' = s.disk
          /\ registry' = s.registry
          /\ job' = [job EXCEPT !.ops = Tail(@), !.touched = s.touched]
    /\ UNCHANGED <<compiled, drift, migrating, logical, issued>>

\* Mutant of ApplyFails: the registry in memory is not loaded again.
ApplyFailsKeepsRegistry ==
    /\ job.running
    /\ disk' = job.saved
    /\ registry' = registry
    /\ migrating' = FALSE
    /\ job' = Idle
    /\ UNCHANGED <<compiled, drift, logical, issued>>

\* An operation was refused, or memory ran out in any of them: the block is
\* rolled back.  The drift flag stays.
ApplyFails ==
    /\ job.running
    /\ disk' = job.saved
    /\ registry' = load(disk')
    /\ migrating' = FALSE
    /\ job' = Idle
    /\ UNCHANGED <<compiled, drift, logical, issued>>

\* Mutant of commit_snapshots: the cached flag is not cleared.
CommitKeepsDrift ==
    LET touched == {t \in DOMAIN job.touched : t \in registry.tables}
        snapshots == [t \in registry.tables |->
                        IF t \in touched THEN job.touched[t] ELSE disk.snapshots[t]]
    IN  /\ job.running
        /\ job.ops = <<>>
        /\ disk' = [disk EXCEPT !.snapshots = snapshots, !.hash = compute_hash(snapshots)]
        /\ registry' = load(disk')
        /\ drift' = drift
        /\ migrating' = FALSE
        /\ job' = Idle
        /\ logical' = [t \in registry.tables |->
              IF t \in DOMAIN job.before THEN {Migrated(t, job.before[t], r) : r \in logical[t]}
              ELSE {}]
        /\ issued' = [t \in registry.tables |-> IF t \in DOMAIN job.before THEN issued[t] ELSE {}]
        /\ UNCHANGED compiled

\* The touched snapshots and the hash are written, the block commits.
commit_snapshots ==
    LET touched == {t \in DOMAIN job.touched : t \in registry.tables}
        snapshots == [t \in registry.tables |->
                        IF t \in touched THEN job.touched[t] ELSE disk.snapshots[t]]
    IN  /\ job.running
        /\ job.ops = <<>>
        /\ disk' = [disk EXCEPT !.snapshots = snapshots, !.hash = compute_hash(snapshots)]
        /\ registry' = load(disk')
        /\ drift' = Unknown
        /\ migrating' = FALSE
        /\ job' = Idle
        /\ logical' = [t \in registry.tables |->
              IF t \in DOMAIN job.before THEN {Migrated(t, job.before[t], r) : r \in logical[t]}
              ELSE {}]
        /\ issued' = [t \in registry.tables |-> IF t \in DOMAIN job.before THEN issued[t] ELSE {}]
        /\ UNCHANGED compiled

Next ==
    \/ \E release \in Releases : Restart(release) \/ UseDatabase(release)
    \/ \E t \in DOMAIN compiled : register_table(t) \/ insert(t)
    \/ OpenDatabase
    \/ CheckDrift
    \/ \E allow_destructive \in BOOLEAN : Migrate(allow_destructive)
    \/ ApplyOp
    \/ ApplyFails
    \/ commit_snapshots

Spec == Init /\ [][Next]_vars

(***************************************************************************)
(* Properties.                                                             *)
(***************************************************************************)
RowsBy(t, Decode(_), columns) ==
    {[n \in Names(columns) |-> row[Position(columns, n)]] :
        row \in {Decode(disk.rows[t][a]) : a \in DOMAIN disk.rows[t]}}

\* Between calls the stored rows, read by the stored snapshot, are the rows
\* the application knows, carried through every migration, failed or not;
\* and when there is no drift the compiled record type reads the same rows.
RowsAreKept ==
    ~job.running => \A t \in disk.tables :
        /\ Readable(Decoded(disk.rows[t],
                LAMBDA b : decode_record_by_snapshot(b, disk.snapshots[t])))
        /\ RowsBy(t, LAMBDA b : decode_record_by_snapshot(b, disk.snapshots[t]),
                  disk.snapshots[t].columns) = logical[t]
        /\ disk.snapshots = compiled =>
             RowsBy(t, LAMBDA b : decode_record(b, compiled[t]), compiled[t].columns) = logical[t]

\* Between calls the registry in memory is the one on page 0, and its hash
\* is the hash of the stored snapshots: also after a migration that created
\* or dropped tables and failed.
RegistryIsCurrent ==
    ~job.running => /\ registry = load(disk)
                    /\ disk.hash = compute_hash(disk.snapshots)
                    /\ DOMAIN disk.snapshots = disk.tables

\* An operation passes the gate only when every table of its compiled schema
\* is stored with the compiled snapshot, whatever was cached for this or for
\* another schema, registered, migrated or rolled back before.
GateIsClosed ==
    ~job.running /\ ~drift_check =>
        \A t \in DOMAIN compiled : t \in disk.tables /\ disk.snapshots[t] = compiled[t]

\* Between calls every index of a table has one entry per row, under the
\* values of the row and at the address where the row now is.
IndexesFollowRows ==
    ~job.running => \A t \in disk.tables :
        disk.indexes[t] = rebuild_indexes(disk.snapshots[t],
            Decoded(disk.rows[t], LAMBDA b : decode_record_by_snapshot(b, disk.snapshots[t])))

\* Between calls unique columns have no repeated value and foreign keys
\* resolve, when the release declares them and may read: tightened and added
\* columns included.
ConstraintsHold ==
    ~job.running /\ disk.snapshots = compiled => \A t \in DOMAIN compiled :
        \A i \in DOMAIN compiled[t].columns :
            LET column == compiled[t].columns[i]
                Of(r) == r[column.name]
            IN  /\ column.unique => \A r, q \in logical[t] : Of(r) = Of(q) => r = q
                /\ column.foreign_key # NoKey => \A r \in logical[t] :
                     \/ Of(r) = Null
                     \/ \E q \in logical[column.foreign_key[1]] :
                          q[column.foreign_key[2]] = Of(r)

\* Every autoincrement value ever handed out is at or below the stored
\* counter of its table: a failed insert, a failed migration or a restart
\* does not hand it out again.
CountersCoverIssued ==
    \A t \in DOMAIN issued \intersect disk.tables : \A n \in issued[t] :
        \E c \in DOMAIN disk.counters[t] : n <= disk.counters[t][c].v[1]

\* A migration that succeeds leaves no drift and nothing to migrate.
MigrationClearsDrift ==
    [][commit_snapshots => /\ ~drift_check'
                           /\ diff(disk'.snapshots, compiled).ops = <<>>]_vars

\* A column that may no longer be null is refused while a row has a null.
TighteningRefusesNulls ==
    [][commit_snapshots => \A t \in DOMAIN job.before \intersect DOMAIN compiled :
          \A n \in Names(job.before[t].columns) \intersect Names(compiled[t].columns) :
             ~Named(compiled[t].columns, n).nullable => \A r \in logical[t] : r[n] # Null]_vars

\* Without allow_destructive a migration keeps every table, and every stored
\* column under its own or its new name.
NothingDroppedUnasked ==
    [][job.running /\ ~job'.running /\ disk'.snapshots # job.before /\ ~job.allow_destructive =>
          \A t \in DOMAIN job.before :
             /\ t \in disk'.tables
             /\ \A n \in Names(job.before[t].columns) :
                   \E m \in Names(disk'.snapshots[t].columns) :
                      m = n \/ \E i \in DOMAIN RenamedFrom(t, m) : RenamedFrom(t, m)[i] = n]_vars
=============================================================================
