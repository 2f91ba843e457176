--------------------------- MODULE MigrationPlan ---------------------------
(***************************************************************************)
(* From two schemas to an ordered plan: the diff of the stored and the     *)
(* compiled snapshots, the order in which its operations are applied, and  *)
(* the policy they are checked against.                                    *)
(*                                                                         *)
(* A schema maps table names to snapshots                                  *)
(*   [primary_key, alignment, columns, indexes];                           *)
(* columns is a sequence of                                                *)
(*   [name, data_type, nullable, unique, auto_increment, primary_key,      *)
(*    foreign_key, default]                                                *)
(* and indexes one of [columns, unique].  A foreign key is a pair of names *)
(* or NoKey, a default a value or NoDefault.                               *)
(***************************************************************************)
EXTENDS SnapshotCodec, FiniteSets

CONSTANTS
    TableOrder,           \* the order of the tables in the schema declaration
    RenamedFrom(_, _),    \* #[renamed_from] of a column: earlier names
    DefaultHook(_, _)     \* Migrate::default_value, or NoDefault

NoKey == <<>>
NoDefault == Value("NoDefault", <<>>)

IsSequence(s) == Len(s) \in Nat /\ s = [i \in 1..Len(s) |-> s[i]]

ColumnFields == {"name", "data_type", "nullable", "unique", "auto_increment", "primary_key",
                 "foreign_key", "default"}

IsSnapshot(snapshot) ==
    /\ DOMAIN snapshot = {"primary_key", "alignment", "columns", "indexes"}
    /\ IsSequence(snapshot.columns) /\ IsSequence(snapshot.indexes)
    /\ \A i \in DOMAIN snapshot.columns : DOMAIN snapshot.columns[i] = ColumnFields

Names(columns) == {columns[i].name : i \in DOMAIN columns}
Named(columns, name) == columns[CHOOSE i \in DOMAIN columns : columns[i].name = name]

\* The elements that pass a test, in their order.
Chosen(seq, Test(_)) ==
    FlattenSeq([i \in DOMAIN seq |-> IF Test(seq[i]) THEN <<seq[i]>> ELSE <<>>])

index_eq(a, b) ==
    /\ a.unique = b.unique
    /\ \E p \in [DOMAIN a.columns -> DOMAIN b.columns] :
          /\ Len(a.columns) = Len(b.columns)
          /\ \A i, j \in DOMAIN p : p[i] = p[j] => i = j
          /\ \A i \in DOMAIN p : a.columns[i] = b.columns[p[i]]

Known(indexes, index) == \E i \in DOMAIN indexes : index_eq(indexes[i], index)

(***************************************************************************)
(* The operations.                                                         *)
(***************************************************************************)
CreateTable(t, snapshot) == [op |-> "CreateTable", table |-> t, schema |-> snapshot]
DropTable(t) == [op |-> "DropTable", table |-> t]
AddColumn(t, column) == [op |-> "AddColumn", table |-> t, column |-> column]
DropColumn(t, name) == [op |-> "DropColumn", table |-> t, name |-> name]
RenameColumn(t, old, new) == [op |-> "RenameColumn", table |-> t, old |-> old, new |-> new]
ChangeType(kind, t, name, old, new) ==
    [op |-> kind, table |-> t, name |-> name, old_type |-> old, new_type |-> new]
AlterColumn(t, name, flags, column) ==
    [op |-> "AlterColumn", table |-> t, name |-> name, flags |-> flags, column |-> column]
ChangeIndex(kind, t, index) == [op |-> kind, table |-> t, index |-> index]

\* The flags that differ (ColumnChanges); the new values are those of the
\* compiled column.
column_flag_delta(stored, compiled) ==
    {flag \in {"nullable", "unique", "auto_increment", "primary_key", "foreign_key"} :
        stored[flag] # compiled[flag]}

diff_column_pair(t, stored, compiled) ==
    LET types == <<stored.data_type, compiled.data_type>>
        kind == IF is_widening(types[1], types[2]) THEN "WidenColumn" ELSE "TransformColumn"
        flags == column_flag_delta(stored, compiled)
    IN  (IF types[1] = types[2] THEN <<>>
         ELSE <<ChangeType(kind, t, compiled.name, types[1], types[2])>>)
        \o (IF flags = {} THEN <<>> ELSE <<AlterColumn(t, compiled.name, flags, compiled)>>)

\* The stored column that a compiled one continues, in a sequence of at most
\* one name: the same name, or the first earlier name that is stored and that
\* no compiled column before this one has consumed.
Continued(t, stored, consumed, name) ==
    LET earlier == RenamedFrom(t, name)
        left == {i \in DOMAIN earlier : earlier[i] \in Names(stored.columns) \ consumed}
    IN  IF name \in Names(stored.columns) THEN <<name>>
        ELSE IF left = {} THEN <<>> ELSE <<earlier[Min(left)]>>

\* The stored columns consumed by the first k compiled ones.
Consumed(t, stored, compiled) ==
    LET consumed[k \in 0..Len(compiled.columns)] ==
          IF k = 0 THEN {}
          ELSE consumed[k - 1] \union
               ToSet(Continued(t, stored, consumed[k - 1], compiled.columns[k].name))
    IN  consumed

\* The operations for a compiled column.
MatchColumn(t, stored, from, column) ==
    LET pair == diff_column_pair(t, Named(stored.columns, from[1]), column)
    IN  IF from = <<>> THEN <<AddColumn(t, column)>>
        ELSE IF from[1] = column.name THEN pair
        ELSE <<RenameColumn(t, from[1], column.name)>> \o pair

\* The operations, and whether a new column has nothing to be filled with.
diff_columns(t, stored, compiled) ==
    LET columns == compiled.columns
        consumed == Consumed(t, stored, compiled)
        From(k) == Continued(t, stored, consumed[k - 1], columns[k].name)
        Fills(column) == \/ column.nullable \/ column.default # NoDefault
                         \/ DefaultHook(t, column.name) # NoDefault
        dropped == Chosen(stored.columns, LAMBDA c : c.name \notin consumed[Len(columns)])
    IN  [ops |-> FlattenSeq([k \in DOMAIN columns |-> MatchColumn(t, stored, From(k), columns[k])])
                 \o [i \in DOMAIN dropped |-> DropColumn(t, dropped[i].name)],
         missing |-> \E k \in DOMAIN columns : From(k) = <<>> /\ ~Fills(columns[k])]

diff_indexes(t, stored, compiled) ==
    LET added == Chosen(compiled.indexes, LAMBDA i : ~Known(stored.indexes, i))
        gone == Chosen(stored.indexes, LAMBDA i : ~Known(compiled.indexes, i))
    IN  [i \in DOMAIN added |-> ChangeIndex("AddIndex", t, added[i])]
        \o [i \in DOMAIN gone |-> ChangeIndex("DropIndex", t, gone[i])]

\* The operations for a table of the compiled schema.
diff_table(t, stored, compiled) ==
    IF t \notin DOMAIN stored THEN <<CreateTable(t, compiled[t])>>
    ELSE diff_columns(t, stored[t], compiled[t]).ops \o diff_indexes(t, stored[t], compiled[t])

\* The operations that lead from stored to compiled.
diff(stored, compiled) ==
    LET kept == Chosen(TableOrder, LAMBDA t : t \in DOMAIN compiled)
        gone == Chosen(TableOrder, LAMBDA t : t \in DOMAIN stored \ DOMAIN compiled)
    IN  [ops |-> FlattenSeq([i \in DOMAIN kept |-> diff_table(kept[i], stored, compiled)])
                 \o [i \in DOMAIN gone |-> DropTable(gone[i])],
         missing |-> \E t \in DOMAIN compiled \intersect DOMAIN stored :
                        diff_columns(t, stored[t], compiled[t]).missing]

(***************************************************************************)
(* Order and policy.                                                       *)
(***************************************************************************)
is_relaxation(op) ==
    /\ "nullable" \in op.flags => op.column.nullable
    /\ "unique" \in op.flags => ~op.column.unique
    /\ "primary_key" \in op.flags => ~op.column.primary_key
    /\ "foreign_key" \in op.flags => op.column.foreign_key = NoKey
    /\ "auto_increment" \notin op.flags

op_priority(op) ==
    CASE op.op = "CreateTable" -> 0 [] op.op = "DropIndex" -> 1
      [] op.op = "DropColumn" -> 2 [] op.op = "RenameColumn" -> 3
      [] op.op = "AlterColumn" -> IF is_relaxation(op) THEN 4 ELSE 8
      [] op.op = "WidenColumn" -> 5 [] op.op = "TransformColumn" -> 6
      [] op.op = "AddColumn" -> 7
      [] op.op = "AddIndex" -> 9 [] op.op = "DropTable" -> 10

\* A stable sort by priority.
order_ops(ops) ==
    FlattenSeq([p \in 1..11 |-> Chosen(ops, LAMBDA op : op_priority(op) = p - 1)])

\* Mutant of validate: a dropped column is not a destructive operation.
ValidateTablesOnly(ops, allow_destructive) ==
    allow_destructive \/ \A i \in DOMAIN ops : ops[i].op # "DropTable"

validate(ops, allow_destructive) ==
    allow_destructive \/ \A i \in DOMAIN ops : ops[i].op \notin {"DropTable", "DropColumn"}
=============================================================================
