-------------------------- MODULE MigrationProofs --------------------------
(***************************************************************************)
(* Proofs about Migration, for every set of releases, every plan that a    *)
(* diff may produce and every hook of an application.                      *)
(*                                                                         *)
(* A migration rewrites the registry, the snapshots and the rows one       *)
(* operation at a time, and may fail after any of them.  The invariant     *)
(* follows both the memory a block works on and the memory it would be     *)
(* rolled back to, because the cached drift flag outlives a failed block.  *)
(***************************************************************************)
EXTENDS Migration, SequenceLemmas

Regions == {"tables", "hash", "snapshots", "rows", "indexes", "counters"}

\* Page 0 names the tables that have a snapshot and holds their hash.
Recorded(d) ==
    /\ DOMAIN d = Regions
    /\ d.hash = compute_hash(d.snapshots)
    /\ DOMAIN d.snapshots = d.tables

\* The state of a block whose registry is the one on page 0.
IsBlock(s) ==
    /\ DOMAIN s = {"disk", "registry", "touched", "ok"}
    /\ Recorded(s.disk) /\ s.registry = load(s.disk)

IsJob(j) ==
    /\ DOMAIN j = {"running", "ops", "touched", "saved", "before", "allow_destructive"}
    /\ Recorded(j.saved)

\* The memory that the next operation of an application will find if a
\* running block fails.
Settled == IF job.running THEN job.saved ELSE disk

\* A flag that lets operations pass was computed for tables that are still
\* stored with the same snapshots.
FlagIsSound ==
    drift.cached /\ ~drift.drifted => drift.hash \subseteq compute_hash(Settled.snapshots)

\* The inductive invariant.
IInv ==
    /\ Recorded(disk) /\ registry = load(disk)
    /\ job.running => IsJob(job)
    /\ migrating <=> job.running
    /\ FlagIsSound

-----------------------------------------------------------------------------
(* The operations of a migration                                           *)

\* The rows and indexes of a table are no part of the registry.
LEMMA RegionsWritten ==
    ASSUME NEW s, IsBlock(s), NEW t, NEW rows, NEW indexes
    PROVE  /\ IsBlock([s EXCEPT !.disk.rows[t] = rows, !.disk.indexes[t] = indexes])
           /\ IsBlock([s EXCEPT !.disk.indexes[t] = indexes])
BY DEF IsBlock, Recorded, Regions, load

LEMMA BlockTouched ==
    ASSUME NEW s, IsBlock(s), NEW t, NEW snapshot
    PROVE  IsBlock(Touch(s, t, snapshot)) /\ IsBlock(Failed(s))
BY DEF IsBlock, Touch, Failed

LEMMA TablesRegistered ==
    ASSUME NEW d, Recorded(d), NEW t, NEW snapshot
    PROVE  Recorded(Registered(d, t, snapshot)) /\ Recorded(Unregistered(d, t))
BY DEF Recorded, Regions, Registered, Unregistered, Put, Drop

LEMMA BlockRegistered ==
    ASSUME NEW s, IsBlock(s), NEW op
    PROVE  IsBlock(create_table(s, op)) /\ IsBlock(drop_table(s, op))
<1>1. Recorded(s.disk) /\ DOMAIN s = {"disk", "registry", "touched", "ok"}
  BY DEF IsBlock
<1>2. ASSUME NEW d, Recorded(d)
      PROVE  IsBlock([s EXCEPT !.disk = d, !.registry = load(d)])
  BY <1>1, <1>2 DEF IsBlock
<1>3. IsBlock(drop_table(s, op))
  BY <1>1, <1>2, TablesRegistered DEF drop_table
<1>4. IsBlock(create_table(s, op))
  BY <1>1, <1>2, TablesRegistered, BlockTouched DEF create_table
<1> QED
  BY <1>3, <1>4

\* Rewriting rows keeps the registry, whatever the values are.
LEMMA BlockWritten ==
    ASSUME NEW s, IsBlock(s), NEW t, NEW new, NEW values
    PROVE  IsBlock(WriteRows(s, t, new, values))
BY RegionsWritten, BlockTouched DEF WriteRows

LEMMA BlockRebuilt ==
    ASSUME NEW s, IsBlock(s), NEW t, NEW snapshot
    PROVE  IsBlock(rebuild_indexes_from_storage(s, t, snapshot))
BY RegionsWritten, BlockTouched DEF rebuild_indexes_from_storage

\* Whatever an operation is, it leaves a registry that is the one on page 0.
LEMMA BlockApplied ==
    ASSUME NEW s, IsBlock(s), NEW op
    PROVE  IsBlock(apply_op(s, op))
<1>1. IsBlock(create_table(s, op)) /\ IsBlock(drop_table(s, op))
  BY BlockRegistered
<1>2. IsBlock(alter_column(s, op))
  BY BlockTouched DEF alter_column
<1>3. IsBlock(add_index(s, op))
  BY BlockTouched, BlockRebuilt DEF add_index
<1>4. IsBlock(drop_index(s, op))
  BY BlockRebuilt DEF drop_index
<1>5. IsBlock(add_column(s, op))
  BY BlockTouched, BlockWritten DEF add_column, rewrite_table
<1>6. IsBlock(drop_column(s, op))
  BY BlockTouched, BlockWritten DEF drop_column, rewrite_table
<1>7. IsBlock(rename_column(s, op))
  BY BlockTouched, BlockWritten DEF rename_column, rewrite_table
<1>8. IsBlock(widen_column(s, op))
  BY BlockTouched, BlockWritten DEF widen_column, Retype, rewrite_table
<1>9. IsBlock(transform_column(s, op))
  BY BlockTouched, BlockWritten DEF transform_column, Retype, rewrite_table
<1> QED
  BY <1>1, <1>2, <1>3, <1>4, <1>5, <1>6, <1>7, <1>8, <1>9 DEF apply_op

-----------------------------------------------------------------------------
(* The plan                                                                *)

LEMMA SequenceTyped ==
    ASSUME NEW S, NEW s \in Seq(S)
    PROVE  IsSequence(s)
BY DEF IsSequence

LEMMA SequenceOver ==
    ASSUME NEW S, NEW s, IsSequence(s), \A i \in DOMAIN s : s[i] \in S
    PROVE  s \in Seq(S)
BY DEF IsSequence

\* The concatenation of sequences has no elements of its own.
LEMMA FlattenElements ==
    ASSUME NEW seqs, IsSequence(seqs), \A i \in DOMAIN seqs : IsSequence(seqs[i])
    PROVE  /\ IsSequence(FlattenSeq(seqs))
           /\ \A k \in DOMAIN FlattenSeq(seqs) :
                 \E i \in DOMAIN seqs : \E j \in DOMAIN seqs[i] : FlattenSeq(seqs)[k] = seqs[i][j]
<1> DEFINE S == UNION {{seqs[i][j] : j \in DOMAIN seqs[i]} : i \in DOMAIN seqs}
<1>1. ASSUME NEW i \in DOMAIN seqs
      PROVE  seqs[i] \in Seq(S)
  <2>1. \A j \in DOMAIN seqs[i] : seqs[i][j] \in S
    OBVIOUS
  <2> HIDE DEF S
  <2> QED
    BY <2>1, SequenceOver
<1> HIDE DEF S
<1>3. seqs \in Seq(Seq(S))
  BY <1>1, SequenceOver
<1>4. FlattenSeq(seqs) \in Seq(S)
  BY <1>3, FlattenTyped
<1>5. \A k \in DOMAIN FlattenSeq(seqs) : FlattenSeq(seqs)[k] \in S
  BY <1>4
<1>6. IsSequence(FlattenSeq(seqs))
  BY <1>4 DEF IsSequence
<1> QED
  BY <1>5, <1>6 DEF S

\* What a plan from stored to target holds.
PlannedOp(stored, target, op) ==
    /\ op.op = "DropTable" => op.table \notin DOMAIN target
    /\ op.op # "DropTable" => op.table \in DOMAIN target
    /\ op.op \notin {"CreateTable", "DropTable"} => op.table \in DOMAIN stored
    /\ op.op = "CreateTable" => op.table \notin DOMAIN stored /\ IsSnapshot(op.schema)
    /\ op.op = "AddColumn" => DOMAIN op.column = ColumnFields
    /\ op.op = "AlterColumn" => "name" \notin op.flags
    /\ op.op = "RenameColumn" =>
          /\ op.old \in Names(stored[op.table].columns)
          /\ op.new \notin Names(stored[op.table].columns)
          /\ \E i \in DOMAIN RenamedFrom(op.table, op.new) : RenamedFrom(op.table, op.new)[i] = op.old

Planned(stored, target, ops) ==
    IsSequence(ops) /\ \A k \in DOMAIN ops : PlannedOp(stored, target, ops[k])

LEMMA PlannedTyped ==
    ASSUME NEW stored, NEW target, NEW S, \A op \in S : PlannedOp(stored, target, op),
           NEW ops \in Seq(S)
    PROVE  Planned(stored, target, ops)
<1>1. \A k \in DOMAIN ops : ops[k] \in S
  OBVIOUS
<1> QED
  BY <1>1, SequenceTyped DEF Planned

LEMMA PlannedJoined ==
    ASSUME NEW stored, NEW target, NEW a, NEW b,
           Planned(stored, target, a), Planned(stored, target, b)
    PROVE  Planned(stored, target, a \o b)
<1> DEFINE S == {a[i] : i \in DOMAIN a} \union {b[i] : i \in DOMAIN b}
<1>1. \A op \in S : PlannedOp(stored, target, op)
  BY DEF Planned
<1>2. IsSequence(a) /\ IsSequence(b)
  BY DEF Planned
<1>3. /\ \A i \in DOMAIN a : a[i] \in S
      /\ \A i \in DOMAIN b : b[i] \in S
  OBVIOUS
<1> HIDE DEF S
<1>4. a \in Seq(S) /\ b \in Seq(S)
  BY <1>2, <1>3, SequenceOver
<1>5. a \o b \in Seq(S)
  BY <1>4
<1> QED
  BY <1>1, <1>5, PlannedTyped

LEMMA PlannedFlattened ==
    ASSUME NEW stored, NEW target, NEW seqs, IsSequence(seqs),
           \A i \in DOMAIN seqs : Planned(stored, target, seqs[i])
    PROVE  Planned(stored, target, FlattenSeq(seqs))
<1>1. /\ IsSequence(FlattenSeq(seqs))
      /\ \A k \in DOMAIN FlattenSeq(seqs) :
            \E i \in DOMAIN seqs : \E j \in DOMAIN seqs[i] : FlattenSeq(seqs)[k] = seqs[i][j]
  BY FlattenElements DEF Planned
<1> QED
  BY <1>1 DEF Planned

LEMMA PlannedSingle ==
    ASSUME NEW stored, NEW target, NEW op
    PROVE  /\ Planned(stored, target, <<>>)
           /\ PlannedOp(stored, target, op) => Planned(stored, target, <<op>>)
BY DEF Planned, IsSequence

\* The operations on a pair of columns change the type or the flags.
LEMMA PairPlanned ==
    ASSUME NEW stored, NEW target, NEW t \in DOMAIN stored, t \in DOMAIN target,
           NEW old, NEW column
    PROVE  Planned(stored, target, diff_column_pair(t, old, column))
<1> DEFINE kind == IF is_widening(old.data_type, column.data_type)
                   THEN "WidenColumn" ELSE "TransformColumn"
           retype == ChangeType(kind, t, column.name, old.data_type, column.data_type)
           alter == AlterColumn(t, column.name, column_flag_delta(old, column), column)
<1>1. retype.op \in {"WidenColumn", "TransformColumn"} /\ retype.table = t
  BY DEF ChangeType
<1>2. alter.op = "AlterColumn" /\ alter.table = t /\ "name" \notin alter.flags
  BY DEF AlterColumn, column_flag_delta
<1> HIDE DEF retype, alter
<1>3. PlannedOp(stored, target, retype) /\ PlannedOp(stored, target, alter)
  BY <1>1, <1>2 DEF PlannedOp
<1>4. /\ Planned(stored, target, IF old.data_type = column.data_type THEN <<>> ELSE <<retype>>)
      /\ Planned(stored, target, IF column_flag_delta(old, column) = {} THEN <<>> ELSE <<alter>>)
  BY <1>3, PlannedSingle
<1> QED
  BY <1>4, PlannedJoined DEF diff_column_pair, retype, alter

\* The name a compiled column continues is its own or an earlier one of it.
LEMMA ContinuedName ==
    ASSUME NEW t, NEW stored, NEW consumed, NEW name, IsSequence(RenamedFrom(t, name)),
           Continued(t, stored, consumed, name) # <<>>,
           NEW from, from = Continued(t, stored, consumed, name)[1], from # name
    PROVE  /\ from \in Names(stored.columns) /\ name \notin Names(stored.columns)
           /\ \E i \in DOMAIN RenamedFrom(t, name) : RenamedFrom(t, name)[i] = from
<1> DEFINE earlier == RenamedFrom(t, name)
           left == {i \in DOMAIN earlier : earlier[i] \in Names(stored.columns) \ consumed}
<1>1. name \notin Names(stored.columns) /\ left # {} /\ from = earlier[Min(left)]
  BY DEF Continued
<1>2. left \in SUBSET Nat
  BY DEF IsSequence
<1>3. Min(left) \in left
  <2> HIDE DEF left
  <2> QED
    BY <1>1, <1>2, MinIsLeast
<1> QED
  BY <1>1, <1>3

LEMMA ColumnPlanned ==
    ASSUME NEW stored, NEW target, NEW t \in DOMAIN stored, t \in DOMAIN target,
           NEW consumed, NEW column, DOMAIN column = ColumnFields,
           IsSequence(RenamedFrom(t, column.name))
    PROVE  Planned(stored, target,
               MatchColumn(t, stored[t], Continued(t, stored[t], consumed, column.name), column))
<1> DEFINE from == Continued(t, stored[t], consumed, column.name)
           add == AddColumn(t, column)
           rename == RenameColumn(t, from[1], column.name)
           pair == diff_column_pair(t, Named(stored[t].columns, from[1]), column)
<1>1. Planned(stored, target, <<add>>)
  <2>1. add.op = "AddColumn" /\ add.table = t /\ add.column = column
    BY DEF AddColumn
  <2> HIDE DEF add
  <2>2. PlannedOp(stored, target, add)
    BY <2>1 DEF PlannedOp
  <2> QED
    BY <2>2, PlannedSingle
<1>2. Planned(stored, target, pair)
  BY PairPlanned
<1>3. ASSUME from # <<>>, from[1] # column.name
      PROVE  Planned(stored, target, <<rename>> \o pair)
  <2>1. /\ rename.op = "RenameColumn" /\ rename.table = t
        /\ rename.old = from[1] /\ rename.new = column.name
    BY DEF RenameColumn
  <2>2. /\ from[1] \in Names(stored[t].columns) /\ column.name \notin Names(stored[t].columns)
        /\ \E i \in DOMAIN RenamedFrom(t, column.name) : RenamedFrom(t, column.name)[i] = from[1]
    BY <1>3, ContinuedName
  <2> HIDE DEF rename, pair
  <2>3. PlannedOp(stored, target, rename)
    BY <2>1, <2>2 DEF PlannedOp
  <2> QED
    BY <2>3, <1>2, PlannedSingle, PlannedJoined
<1> QED
  BY <1>1, <1>2, <1>3 DEF MatchColumn

\* A sequence that keeps some elements of another, all of them in S.
LEMMA KeptElements ==
    ASSUME NEW seq, IsSequence(seq), NEW S, NEW seqs, IsSequence(seqs), DOMAIN seqs = DOMAIN seq,
           \A i \in DOMAIN seq : seqs[i] = <<>> \/ (seqs[i] = <<seq[i]>> /\ seq[i] \in S)
    PROVE  FlattenSeq(seqs) \in Seq(S)
<1>1. \A i \in DOMAIN seqs : seqs[i] \in Seq(S)
  <2>1. <<>> \in Seq(S) /\ \A x \in S : <<x>> \in Seq(S)
    OBVIOUS
  <2> QED
    BY <2>1
<1>2. seqs \in Seq(Seq(S))
  BY <1>1, SequenceOver
<1> QED
  BY <1>2, FlattenTyped

LEMMA ColumnsPlanned ==
    ASSUME NEW stored, NEW target \in Releases, NEW t \in DOMAIN stored, t \in DOMAIN target,
           IsSnapshot(stored[t])
    PROVE  Planned(stored, target, diff_columns(t, stored[t], target[t]).ops)
<1> DEFINE columns == target[t].columns
           consumed == Consumed(t, stored[t], target[t])
           From(k) == Continued(t, stored[t], consumed[k - 1], columns[k].name)
           matched == [k \in DOMAIN columns |-> MatchColumn(t, stored[t], From(k), columns[k])]
           tests == [i \in DOMAIN stored[t].columns |->
                       IF stored[t].columns[i].name \notin consumed[Len(columns)]
                       THEN <<stored[t].columns[i]>> ELSE <<>>]
           dropped == FlattenSeq(tests)
           drops == [i \in DOMAIN dropped |-> DropColumn(t, dropped[i].name)]
<1>1. /\ IsSequence(columns) /\ IsSequence(stored[t].columns)
      /\ \A k \in DOMAIN columns : /\ DOMAIN columns[k] = ColumnFields
                                   /\ IsSequence(RenamedFrom(t, columns[k].name))
  BY SchemaAssumption DEF IsSnapshot, Names
<1>2. ASSUME NEW k \in DOMAIN columns
      PROVE  Planned(stored, target, MatchColumn(t, stored[t], From(k), columns[k]))
  <2> HIDE DEF consumed, columns
  <2> QED
    BY <1>1, ColumnPlanned
<1>3. Planned(stored, target, FlattenSeq(matched))
  <2>1. IsSequence(matched) /\ DOMAIN matched = DOMAIN columns
    BY <1>1 DEF IsSequence
  <2>2. \A k \in DOMAIN matched : Planned(stored, target, matched[k])
    BY <1>2
  <2> HIDE DEF matched
  <2> QED
    BY <2>1, <2>2, PlannedFlattened
<1>4. IsSequence(dropped)
  <2> DEFINE S == {stored[t].columns[i] : i \in DOMAIN stored[t].columns}
  <2>1. IsSequence(tests) /\ DOMAIN tests = DOMAIN stored[t].columns
    BY <1>1 DEF IsSequence
  <2>2. \A i \in DOMAIN stored[t].columns :
            \/ tests[i] = <<>>
            \/ tests[i] = <<stored[t].columns[i]>> /\ stored[t].columns[i] \in S
    OBVIOUS
  <2> HIDE DEF tests, S
  <2>3. FlattenSeq(tests) \in Seq(S)
    BY <1>1, <2>1, <2>2, KeptElements
  <2> QED
    BY <2>3, SequenceTyped
<1>5. Planned(stored, target, drops)
  <2> HIDE DEF dropped
  <2>1. IsSequence(drops)
    BY <1>4 DEF IsSequence
  <2>2. \A i \in DOMAIN drops : drops[i].op = "DropColumn" /\ drops[i].table = t
    BY DEF DropColumn
  <2> HIDE DEF drops
  <2> QED
    BY <2>1, <2>2 DEF Planned, PlannedOp
<1>6. diff_columns(t, stored[t], target[t]).ops = FlattenSeq(matched) \o drops
  BY DEF diff_columns, Chosen
<1> HIDE DEF matched, drops
<1> QED
  BY <1>3, <1>5, <1>6, PlannedJoined

\* The operations on the indexes of a table, of either kind.
LEMMA IndexOpsPlanned ==
    ASSUME NEW stored, NEW target, NEW t \in DOMAIN stored, t \in DOMAIN target,
           NEW kind \in {"AddIndex", "DropIndex"}, NEW indexes, IsSequence(indexes), NEW tests,
           IsSequence(tests), DOMAIN tests = DOMAIN indexes,
           \A i \in DOMAIN indexes : tests[i] = <<>> \/ tests[i] = <<indexes[i]>>
    PROVE  Planned(stored, target,
               [i \in DOMAIN FlattenSeq(tests) |-> ChangeIndex(kind, t, FlattenSeq(tests)[i])])
<1> DEFINE S == {indexes[i] : i \in DOMAIN indexes}
           ops == [i \in DOMAIN FlattenSeq(tests) |-> ChangeIndex(kind, t, FlattenSeq(tests)[i])]
<1>1. \A i \in DOMAIN indexes : indexes[i] \in S
  OBVIOUS
<1>2. FlattenSeq(tests) \in Seq(S)
  <2> HIDE DEF S
  <2> QED
    BY <1>1, KeptElements
<1>3. IsSequence(FlattenSeq(tests))
  BY <1>2, SequenceTyped
<1>4. IsSequence(ops)
  BY <1>3 DEF IsSequence
<1>5. \A i \in DOMAIN ops : ops[i].op = kind /\ ops[i].table = t
  BY DEF ChangeIndex
<1> HIDE DEF ops
<1>6. Planned(stored, target, ops)
  BY <1>4, <1>5 DEF Planned, PlannedOp
<1> QED
  BY <1>6 DEF ops

LEMMA IndexesPlanned ==
    ASSUME NEW stored, NEW target, NEW t \in DOMAIN stored, t \in DOMAIN target,
           IsSnapshot(stored[t]), IsSnapshot(target[t])
    PROVE  Planned(stored, target, diff_indexes(t, stored[t], target[t]))
<1> DEFINE old == stored[t].indexes
           new == target[t].indexes
           added == [i \in DOMAIN new |-> IF ~Known(old, new[i]) THEN <<new[i]>> ELSE <<>>]
           gone == [i \in DOMAIN old |-> IF ~Known(new, old[i]) THEN <<old[i]>> ELSE <<>>]
           Ops(kind, seqs) == [i \in DOMAIN FlattenSeq(seqs) |-> ChangeIndex(kind, t, FlattenSeq(seqs)[i])]
<1>1. IsSequence(old) /\ IsSequence(new)
  BY DEF IsSnapshot
<1>2. IsSequence(added) /\ IsSequence(gone)
  BY <1>1 DEF IsSequence
<1>3. /\ DOMAIN added = DOMAIN new /\ DOMAIN gone = DOMAIN old
      /\ \A i \in DOMAIN new : added[i] = <<>> \/ added[i] = <<new[i]>>
      /\ \A i \in DOMAIN old : gone[i] = <<>> \/ gone[i] = <<old[i]>>
  OBVIOUS
<1>4. diff_indexes(t, stored[t], target[t]) = Ops("AddIndex", added) \o Ops("DropIndex", gone)
  BY DEF diff_indexes, Chosen
<1> HIDE DEF added, gone, old, new
<1>5. Planned(stored, target, Ops("AddIndex", added))
  BY <1>1, <1>2, <1>3, IndexOpsPlanned
<1>6. Planned(stored, target, Ops("DropIndex", gone))
  BY <1>1, <1>2, <1>3, IndexOpsPlanned
<1> HIDE DEF Ops
<1> QED
  BY <1>4, <1>5, <1>6, PlannedJoined

\* A plan, before it is ordered.
LEMMA DiffPlanned ==
    ASSUME NEW stored, NEW target \in Releases, \A t \in DOMAIN stored : IsSnapshot(stored[t])
    PROVE  Planned(stored, target, diff(stored, target).ops)
<1> DEFINE kepts == [i \in DOMAIN TableOrder |->
                       IF TableOrder[i] \in DOMAIN target THEN <<TableOrder[i]>> ELSE <<>>]
           gones == [i \in DOMAIN TableOrder |->
                       IF TableOrder[i] \in DOMAIN stored \ DOMAIN target
                       THEN <<TableOrder[i]>> ELSE <<>>]
           kept == FlattenSeq(kepts)
           gone == FlattenSeq(gones)
           tables == [i \in DOMAIN kept |-> diff_table(kept[i], stored, target)]
           drops == [i \in DOMAIN gone |-> DropTable(gone[i])]
<1>1. IsSequence(TableOrder)
  BY SchemaAssumption
<1>2. kept \in Seq(DOMAIN target)
  <2>1. IsSequence(kepts) /\ DOMAIN kepts = DOMAIN TableOrder
    BY <1>1 DEF IsSequence
  <2>2. \A i \in DOMAIN TableOrder :
            kepts[i] = <<>> \/ (kepts[i] = <<TableOrder[i]>> /\ TableOrder[i] \in DOMAIN target)
    OBVIOUS
  <2> HIDE DEF kepts
  <2> QED
    BY <1>1, <2>1, <2>2, KeptElements
<1>3. gone \in Seq(DOMAIN stored \ DOMAIN target)
  <2>1. IsSequence(gones) /\ DOMAIN gones = DOMAIN TableOrder
    BY <1>1 DEF IsSequence
  <2>2. \A i \in DOMAIN TableOrder :
            \/ gones[i] = <<>>
            \/ gones[i] = <<TableOrder[i]>> /\ TableOrder[i] \in DOMAIN stored \ DOMAIN target
    OBVIOUS
  <2> HIDE DEF gones
  <2> QED
    BY <1>1, <2>1, <2>2, KeptElements
<1> HIDE DEF kept, gone
<1>4. ASSUME NEW t \in DOMAIN target
      PROVE  Planned(stored, target, diff_table(t, stored, target))
  <2>1. IsSnapshot(target[t])
    BY SchemaAssumption
  <2>2. CASE t \in DOMAIN stored
    <3>1. diff_table(t, stored, target) =
              diff_columns(t, stored[t], target[t]).ops \o diff_indexes(t, stored[t], target[t])
      BY <2>2 DEF diff_table
    <3>2. /\ Planned(stored, target, diff_columns(t, stored[t], target[t]).ops)
          /\ Planned(stored, target, diff_indexes(t, stored[t], target[t]))
      BY <2>1, <2>2, ColumnsPlanned, IndexesPlanned
    <3> QED
      BY <3>1, <3>2, PlannedJoined
  <2>3. CASE t \notin DOMAIN stored
    <3> DEFINE create == CreateTable(t, target[t])
    <3>1. create.op = "CreateTable" /\ create.table = t /\ create.schema = target[t]
      BY DEF CreateTable
    <3>2. diff_table(t, stored, target) = <<create>>
      BY <2>3 DEF diff_table
    <3> HIDE DEF create
    <3>3. PlannedOp(stored, target, create)
      BY <2>1, <2>3, <3>1 DEF PlannedOp
    <3> QED
      BY <3>2, <3>3, PlannedSingle
  <2> QED
    BY <2>2, <2>3
<1>5. Planned(stored, target, FlattenSeq(tables))
  <2>1. IsSequence(kept) /\ \A i \in DOMAIN kept : kept[i] \in DOMAIN target
    BY <1>2, SequenceTyped
  <2>2. IsSequence(tables)
    BY <2>1 DEF IsSequence
  <2>3. \A i \in DOMAIN tables : Planned(stored, target, tables[i])
    BY <1>4, <2>1
  <2> HIDE DEF tables
  <2> QED
    BY <2>2, <2>3, PlannedFlattened
<1>6. Planned(stored, target, drops)
  <2>1. IsSequence(gone) /\ \A i \in DOMAIN gone : gone[i] \notin DOMAIN target
    BY <1>3, SequenceTyped
  <2>2. IsSequence(drops)
    BY <2>1 DEF IsSequence
  <2>3. \A i \in DOMAIN drops : drops[i].op = "DropTable" /\ drops[i].table \notin DOMAIN target
    BY <2>1 DEF DropTable
  <2> HIDE DEF drops
  <2> QED
    BY <2>2, <2>3 DEF Planned, PlannedOp
<1>7. diff(stored, target).ops = FlattenSeq(tables) \o drops
  BY DEF diff, Chosen, kept, gone
<1> HIDE DEF tables, drops
<1> QED
  BY <1>5, <1>6, <1>7, PlannedJoined

\* Ordering invents no operation.
LEMMA OrderedElements ==
    ASSUME NEW S, NEW ops \in Seq(S)
    PROVE  order_ops(ops) \in Seq(S)
<1> DEFINE tests(p) == [i \in DOMAIN ops |-> IF op_priority(ops[i]) = p - 1 THEN <<ops[i]>> ELSE <<>>]
           seqs == [p \in 1..11 |-> FlattenSeq(tests(p))]
<1>1. IsSequence(ops) /\ \A i \in DOMAIN ops : ops[i] \in S
  BY SequenceTyped
<1>2. ASSUME NEW p \in 1..11
      PROVE  FlattenSeq(tests(p)) \in Seq(S)
  <2> DEFINE kept == tests(p)
  <2>1. IsSequence(kept) /\ DOMAIN kept = DOMAIN ops
    BY <1>1 DEF IsSequence
  <2>2. \A i \in DOMAIN ops : kept[i] = <<>> \/ (kept[i] = <<ops[i]>> /\ ops[i] \in S)
    BY <1>1
  <2> HIDE DEF kept
  <2>3. FlattenSeq(kept) \in Seq(S)
    BY <1>1, <2>1, <2>2, KeptElements
  <2> QED
    BY <2>3 DEF kept
<1> HIDE DEF tests
<1>3. seqs \in Seq(Seq(S))
  BY <1>2
<1>4. order_ops(ops) = FlattenSeq(seqs)
  BY DEF order_ops, Chosen, tests
<1> QED
  BY <1>3, <1>4, FlattenTyped

\* What a migration sets out to apply.
LEMMA PlanIsPlanned ==
    ASSUME NEW stored, NEW target \in Releases, \A t \in DOMAIN stored : IsSnapshot(stored[t]),
           NEW allow_destructive, validate(diff(stored, target).ops, allow_destructive)
    PROVE  /\ Planned(stored, target, order_ops(diff(stored, target).ops))
           /\ \/ allow_destructive
              \/ \A k \in DOMAIN order_ops(diff(stored, target).ops) :
                    order_ops(diff(stored, target).ops)[k].op \notin {"DropTable", "DropColumn"}
<1> DEFINE ops == diff(stored, target).ops
           S == {ops[i] : i \in DOMAIN ops}
<1>1. Planned(stored, target, ops)
  BY DiffPlanned
<1>2. \A op \in S : PlannedOp(stored, target, op)
  BY <1>1 DEF Planned
<1>3. allow_destructive \/ \A op \in S : op.op \notin {"DropTable", "DropColumn"}
  BY DEF validate
<1>4. \A i \in DOMAIN ops : ops[i] \in S
  OBVIOUS
<1> HIDE DEF ops, S
<1>5. ops \in Seq(S)
  BY <1>1, <1>4, SequenceOver DEF Planned
<1>6. order_ops(ops) \in Seq(S)
  BY <1>5, OrderedElements
<1>7. Planned(stored, target, order_ops(ops))
  BY <1>2, <1>6, PlannedTyped
<1>8. \A k \in DOMAIN order_ops(ops) : order_ops(ops)[k] \in S
  BY <1>6
<1> QED
  BY <1>3, <1>7, <1>8 DEF ops

-----------------------------------------------------------------------------
(* The snapshot an operation leaves                                        *)

Replaced(old, i, column) == [old EXCEPT !.columns[i] = column]
Appended(old, column) == [old EXCEPT !.columns = Append(@, column)]

\* One column was replaced by another record of a column.
LEMMA ColumnReplaced ==
    ASSUME NEW old, IsSnapshot(old), NEW i \in DOMAIN old.columns, NEW column,
           DOMAIN column = ColumnFields, NEW new, new = Replaced(old, i, column)
    PROVE  /\ IsSnapshot(new)
           /\ column.name \in Names(new.columns)
           /\ \A n \in Names(old.columns) : n = old.columns[i].name \/ n \in Names(new.columns)
<1>1. /\ DOMAIN new = DOMAIN old /\ new.indexes = old.indexes
      /\ new.columns = [old.columns EXCEPT ![i] = column]
  BY DEF IsSnapshot, Replaced
<1>2. /\ DOMAIN new.columns = DOMAIN old.columns /\ new.columns[i] = column
      /\ \A k \in DOMAIN old.columns : k # i => new.columns[k] = old.columns[k]
  BY <1>1
<1>3. IsSequence(new.columns)
  <2>1. Len(old.columns) \in Nat /\ DOMAIN old.columns = 1..Len(old.columns)
    BY DEF IsSnapshot, IsSequence
  <2>2. new.columns = [k \in 1..Len(old.columns) |-> new.columns[k]]
    BY <1>1, <2>1
  <2>3. Len(new.columns) = Len(old.columns)
    BY <2>1, <2>2
  <2> QED
    BY <2>1, <2>2, <2>3 DEF IsSequence
<1>4. IsSnapshot(new)
  BY <1>1, <1>2, <1>3 DEF IsSnapshot
<1>5. column.name \in Names(new.columns)
  BY <1>2 DEF Names
<1>6. ASSUME NEW n \in Names(old.columns), n # old.columns[i].name
      PROVE  n \in Names(new.columns)
  <2>1. PICK k \in DOMAIN old.columns : n = old.columns[k].name
    BY DEF Names
  <2> QED
    BY <1>2, <1>6, <2>1 DEF Names
<1> QED
  BY <1>4, <1>5, <1>6

LEMMA ColumnAppended ==
    ASSUME NEW old, IsSnapshot(old), NEW column, DOMAIN column = ColumnFields,
           NEW new, new = Appended(old, column)
    PROVE  IsSnapshot(new) /\ Names(old.columns) \subseteq Names(new.columns)
<1> DEFINE S == {old.columns[i] : i \in DOMAIN old.columns} \union {column}
<1>1. /\ DOMAIN new = DOMAIN old /\ new.indexes = old.indexes
      /\ new.columns = Append(old.columns, column)
  BY DEF IsSnapshot, Appended
<1>2. (\A i \in DOMAIN old.columns : old.columns[i] \in S) /\ column \in S
  OBVIOUS
<1>3. \A c \in S : DOMAIN c = ColumnFields
  BY DEF IsSnapshot
<1> HIDE DEF S
<1>4. old.columns \in Seq(S)
  BY <1>2, SequenceOver DEF IsSnapshot
<1>5. new.columns \in Seq(S)
  BY <1>1, <1>2, <1>4
<1>6. \A i \in DOMAIN old.columns : i \in DOMAIN new.columns /\ new.columns[i] = old.columns[i]
  BY <1>1, <1>2, <1>4
<1>7. \A i \in DOMAIN new.columns : new.columns[i] \in S
  BY <1>5
<1>8. IsSequence(new.columns)
  BY <1>5, SequenceTyped
<1>9. IsSnapshot(new)
  BY <1>1, <1>3, <1>7, <1>8 DEF IsSnapshot
<1> QED
  BY <1>6, <1>9 DEF Names

LEMMA ColumnRemoved ==
    ASSUME NEW old, IsSnapshot(old), NEW i \in DOMAIN old.columns,
           NEW new, new = [old EXCEPT !.columns = RemoveAt(@, i)]
    PROVE  IsSnapshot(new)
<1> DEFINE S == {old.columns[k] : k \in DOMAIN old.columns}
<1>1. /\ DOMAIN new = DOMAIN old /\ new.indexes = old.indexes
      /\ new.columns = RemoveAt(old.columns, i)
  BY DEF IsSnapshot
<1>2. \A k \in DOMAIN old.columns : old.columns[k] \in S
  OBVIOUS
<1>3. \A c \in S : DOMAIN c = ColumnFields
  BY DEF IsSnapshot
<1> HIDE DEF S
<1>4. old.columns \in Seq(S) /\ i \in 1..Len(old.columns)
  BY <1>2, SequenceOver DEF IsSnapshot, IsSequence
<1>5. SubSeq(old.columns, 1, i - 1) \in Seq(S) /\ SubSeq(old.columns, i + 1, Len(old.columns)) \in Seq(S)
  BY <1>4
<1>6. \A a, b \in Seq(S) : a \o b \in Seq(S)
  OBVIOUS
<1>7. new.columns \in Seq(S)
  BY <1>1, <1>5, <1>6 DEF RemoveAt
<1>8. IsSequence(new.columns) /\ \A k \in DOMAIN new.columns : new.columns[k] \in S
  BY <1>7, SequenceTyped
<1> QED
  BY <1>1, <1>3, <1>8 DEF IsSnapshot

LEMMA IndexesChanged ==
    ASSUME NEW old, IsSnapshot(old), NEW indexes, IsSequence(indexes),
           NEW new, new = [old EXCEPT !.indexes = indexes]
    PROVE  IsSnapshot(new) /\ new.columns = old.columns
BY DEF IsSnapshot

\* A stored column is still there, under its name or under one that was not
\* stored and that it is renamed to.
Carried(t, old, new) ==
    \A n \in Names(old.columns) :
        \/ n \in Names(new.columns)
        \/ \E m \in Names(new.columns) :
              /\ m \notin Names(old.columns)
              /\ \E i \in DOMAIN RenamedFrom(t, m) : RenamedFrom(t, m)[i] = n

LEMMA NamesCarried ==
    ASSUME NEW t, NEW stored, NEW old, NEW new, Carried(t, stored, old),
           Names(old.columns) \subseteq Names(new.columns)
    PROVE  Carried(t, stored, new)
BY DEF Carried

LEMMA RenameCarried ==
    ASSUME NEW t, NEW stored, NEW old, NEW new, Carried(t, stored, old), NEW from, NEW to,
           from \in Names(stored.columns), to \notin Names(stored.columns),
           \E i \in DOMAIN RenamedFrom(t, to) : RenamedFrom(t, to)[i] = from,
           to \in Names(new.columns),
           \A n \in Names(old.columns) : n = from \/ n \in Names(new.columns)
    PROVE  Carried(t, stored, new)
BY DEF Carried

\* What every operation on a stored table does: one snapshot is touched, and
\* the tables, the stored snapshots and the counters stay.
Rewritten(s, r, t, new) ==
    r.ok => /\ r.touched = Put(s.touched, t, new)
            /\ r.disk.tables = s.disk.tables
            /\ r.disk.snapshots = s.disk.snapshots
            /\ r.disk.counters = s.disk.counters

LEMMA FailedRewritten ==
    ASSUME NEW s, IsBlock(s), NEW t, NEW new
    PROVE  Rewritten(s, Failed(s), t, new) /\ Rewritten(s, Touch(s, t, new), t, new)
BY DEF Rewritten, Failed, Touch, IsBlock

LEMMA WrittenRewritten ==
    ASSUME NEW s, IsBlock(s), NEW t, NEW new, NEW values
    PROVE  Rewritten(s, WriteRows(s, t, new, values), t, new)
<1>1. ASSUME NEW rows, NEW indexes
      PROVE  Rewritten(s, Touch([s EXCEPT !.disk.rows[t] = rows, !.disk.indexes[t] = indexes],
                                t, new), t, new)
  BY DEF Rewritten, Touch, IsBlock, Recorded, Regions
<1> QED
  BY <1>1, FailedRewritten DEF WriteRows

LEMMA RebuiltRewritten ==
    ASSUME NEW s, IsBlock(s), NEW t, NEW new
    PROVE  Rewritten(s, rebuild_indexes_from_storage(s, t, new), t, new)
<1>1. ASSUME NEW indexes
      PROVE  Rewritten(s, Touch([s EXCEPT !.disk.indexes[t] = indexes], t, new), t, new)
  BY DEF Rewritten, Touch, IsBlock, Recorded, Regions
<1> QED
  BY <1>1, FailedRewritten DEF rebuild_indexes_from_storage

\* A column is where its name is found.
LEMMA PositionNamed ==
    ASSUME NEW columns, NEW name \in Names(columns)
    PROVE  Position(columns, name) \in DOMAIN columns /\ columns[Position(columns, name)].name = name
BY DEF Names, Position

\* What an operation on a table of stored leaves: a snapshot, and with it
\* every stored column unless the operation drops one.
Leaves(stored, s, op, r) ==
    \E new : /\ Rewritten(s, r, op.table, new)
             /\ r.ok => IsSnapshot(new)
             /\ r.ok /\ op.op # "DropColumn" =>
                  (Carried(op.table, stored[op.table], load_snapshot_for_mutation(s, op.table))
                     => Carried(op.table, stored[op.table], new))

LEMMA FailedLeaves ==
    ASSUME NEW stored, NEW s, IsBlock(s), NEW op
    PROVE  Leaves(stored, s, op, Failed(s))
<1>1. ~Failed(s).ok
  BY DEF Failed, IsBlock
<1> QED
  BY <1>1 DEF Leaves, Rewritten

\* An operation that leaves all names.
LEMMA NamesLeft ==
    ASSUME NEW stored, NEW s, NEW op, NEW r, NEW new, Rewritten(s, r, op.table, new),
           IsSnapshot(new), NEW old, old = load_snapshot_for_mutation(s, op.table),
           Names(old.columns) \subseteq Names(new.columns)
    PROVE  Leaves(stored, s, op, r)
BY NamesCarried DEF Leaves

LEMMA RetypeLeaves ==
    ASSUME NEW stored, NEW s, IsBlock(s), NEW op,
           IsSnapshot(load_snapshot_for_mutation(s, op.table))
    PROVE  /\ Leaves(stored, s, op, widen_column(s, op))
           /\ Leaves(stored, s, op, transform_column(s, op))
<1> DEFINE old == load_snapshot_for_mutation(s, op.table)
           i == Position(old.columns, op.name)
           column == [old.columns[i] EXCEPT !.data_type = op.new_type]
           new == [old EXCEPT !.columns[i].data_type = op.new_type]
<1>1. CASE op.name \notin Names(old.columns)
  BY <1>1, FailedLeaves DEF widen_column, transform_column, Retype
<1>2. CASE op.name \in Names(old.columns)
  <2>1. i \in DOMAIN old.columns /\ DOMAIN old.columns[i] = ColumnFields
    BY <1>2, PositionNamed DEF IsSnapshot
  <2>2. /\ DOMAIN column = ColumnFields /\ column.name = old.columns[i].name
        /\ new = Replaced(old, i, column)
    BY <2>1 DEF ColumnFields, Replaced
  <2>3. IsSnapshot(new) /\ Names(old.columns) \subseteq Names(new.columns)
    <3> HIDE DEF old, i, column, new
    <3>1. IsSnapshot(old)
      BY DEF old
    <3>2. /\ IsSnapshot(new) /\ column.name \in Names(new.columns)
          /\ \A n \in Names(old.columns) : n = old.columns[i].name \/ n \in Names(new.columns)
      BY <3>1, <2>1, <2>2, ColumnReplaced
    <3> QED
      BY <3>2, <2>1, <2>2
  <2>4. \A values : Rewritten(s, WriteRows(s, op.table, new, values), op.table, new)
    BY WrittenRewritten
  <2>5. \A values : Leaves(stored, s, op, WriteRows(s, op.table, new, values))
    <3> HIDE DEF new
    <3> QED
      BY <2>3, <2>4, NamesLeft
  <2> QED
    BY <1>2, <2>5 DEF widen_column, transform_column, Retype, rewrite_table
<1> QED
  BY <1>1, <1>2

LEMMA RenameLeaves ==
    ASSUME NEW stored, NEW s, IsBlock(s), NEW op,
           IsSnapshot(load_snapshot_for_mutation(s, op.table)),
           op.old \in Names(stored[op.table].columns),
           op.new \notin Names(stored[op.table].columns),
           \E i \in DOMAIN RenamedFrom(op.table, op.new) : RenamedFrom(op.table, op.new)[i] = op.old
    PROVE  Leaves(stored, s, op, rename_column(s, op))
<1> DEFINE old == load_snapshot_for_mutation(s, op.table)
           i == Position(old.columns, op.old)
           column == [old.columns[i] EXCEPT !.name = op.new]
           new == [old EXCEPT !.columns[i].name = op.new]
<1>1. CASE op.old \notin Names(old.columns)
  BY <1>1, FailedLeaves DEF rename_column
<1>2. CASE op.old \in Names(old.columns)
  <2>1. /\ i \in DOMAIN old.columns /\ DOMAIN old.columns[i] = ColumnFields
        /\ old.columns[i].name = op.old
    BY <1>2, PositionNamed DEF IsSnapshot
  <2>2. /\ DOMAIN column = ColumnFields /\ column.name = op.new
        /\ new = Replaced(old, i, column)
    BY <2>1 DEF ColumnFields, Replaced
  <2>3. /\ IsSnapshot(new) /\ op.new \in Names(new.columns)
        /\ \A n \in Names(old.columns) : n = op.old \/ n \in Names(new.columns)
    <3> HIDE DEF old, i, column, new
    <3>1. IsSnapshot(old)
      BY DEF old
    <3>2. /\ IsSnapshot(new) /\ column.name \in Names(new.columns)
          /\ \A n \in Names(old.columns) : n = old.columns[i].name \/ n \in Names(new.columns)
      BY <3>1, <2>1, <2>2, ColumnReplaced
    <3> QED
      BY <3>2, <2>1, <2>2
  <2>4. \A values : Rewritten(s, WriteRows(s, op.table, new, values), op.table, new)
    BY WrittenRewritten
  <2>5. Carried(op.table, stored[op.table], old) => Carried(op.table, stored[op.table], new)
    <3> HIDE DEF old, new
    <3> QED
      BY <2>3, RenameCarried
  <2>6. \A values : Leaves(stored, s, op, WriteRows(s, op.table, new, values))
    <3> HIDE DEF new
    <3> QED
      BY <2>3, <2>4, <2>5 DEF Leaves
  <2> QED
    BY <1>2, <2>6 DEF rename_column, rewrite_table
<1> QED
  BY <1>1, <1>2

LEMMA ColumnLeaves ==
    ASSUME NEW stored, NEW s, IsBlock(s), NEW op,
           IsSnapshot(load_snapshot_for_mutation(s, op.table))
    PROVE  /\ op.op = "DropColumn" => Leaves(stored, s, op, drop_column(s, op))
           /\ DOMAIN op.column = ColumnFields => Leaves(stored, s, op, add_column(s, op))
<1> DEFINE old == load_snapshot_for_mutation(s, op.table)
           i == Position(old.columns, op.name)
           less == [old EXCEPT !.columns = RemoveAt(@, i)]
           more == [old EXCEPT !.columns = Append(@, op.column)]
<1>1. ASSUME op.op = "DropColumn", op.name \in Names(old.columns)
      PROVE  Leaves(stored, s, op, drop_column(s, op))
  <2>1. i \in DOMAIN old.columns
    BY <1>1, PositionNamed
  <2>2. IsSnapshot(less)
    <3> HIDE DEF i
    <3> QED
      BY <2>1, ColumnRemoved
  <2>3. \A values : Rewritten(s, WriteRows(s, op.table, less, values), op.table, less)
    BY WrittenRewritten
  <2>4. \A values : Leaves(stored, s, op, WriteRows(s, op.table, less, values))
    <3> HIDE DEF less
    <3> QED
      BY <1>1, <2>2, <2>3 DEF Leaves
  <2> QED
    BY <1>1, <2>4 DEF drop_column, rewrite_table
<1>2. ASSUME DOMAIN op.column = ColumnFields
      PROVE  Leaves(stored, s, op, add_column(s, op))
  <2>1. IsSnapshot(more) /\ Names(old.columns) \subseteq Names(more.columns)
    <3>1. IsSnapshot(old) /\ more = Appended(old, op.column)
      BY DEF Appended
    <3> HIDE DEF old, more
    <3> QED
      BY <1>2, <3>1, ColumnAppended
  <2>2. \A values : Rewritten(s, WriteRows(s, op.table, more, values), op.table, more)
    BY WrittenRewritten
  <2>3. \A values : Leaves(stored, s, op, WriteRows(s, op.table, more, values))
    <3> HIDE DEF more
    <3> QED
      BY <2>1, <2>2, NamesLeft
  <2> QED
    BY <2>3, FailedLeaves DEF add_column, rewrite_table
<1>3. op.name \notin Names(old.columns) => Leaves(stored, s, op, drop_column(s, op))
  BY FailedLeaves DEF drop_column
<1> QED
  BY <1>1, <1>2, <1>3

LEMMA AlterLeaves ==
    ASSUME NEW stored, NEW s, IsBlock(s), NEW op,
           IsSnapshot(load_snapshot_for_mutation(s, op.table)), "name" \notin op.flags
    PROVE  Leaves(stored, s, op, alter_column(s, op))
<1> DEFINE old == load_snapshot_for_mutation(s, op.table)
           i == Position(old.columns, op.name)
           column == [f \in DOMAIN old.columns[i] |->
                        IF f \in op.flags THEN op.column[f] ELSE old.columns[i][f]]
           new == [old EXCEPT !.columns[i] = column]
           altered == [old EXCEPT !.columns[i] =
                         [f \in DOMAIN @ |-> IF f \in op.flags THEN op.column[f] ELSE @[f]]]
<1>1. CASE op.name \notin Names(old.columns) \/ ~AlterAllowed(op.table, op)
  BY <1>1, FailedLeaves DEF alter_column
<1>2. CASE ~(op.name \notin Names(old.columns) \/ ~AlterAllowed(op.table, op))
  <2>1. i \in DOMAIN old.columns /\ DOMAIN old.columns[i] = ColumnFields
    BY <1>2, PositionNamed DEF IsSnapshot
  <2>2. DOMAIN column = ColumnFields /\ column.name = old.columns[i].name
    BY <2>1 DEF ColumnFields
  <2>3. altered = new
    BY <2>1
  <2>4. IsSnapshot(new) /\ Names(old.columns) \subseteq Names(new.columns)
    <3>1. IsSnapshot(old) /\ new = Replaced(old, i, column)
      BY DEF Replaced
    <3> HIDE DEF old, i, column, new
    <3>2. /\ IsSnapshot(new) /\ column.name \in Names(new.columns)
          /\ \A n \in Names(old.columns) : n = old.columns[i].name \/ n \in Names(new.columns)
      BY <3>1, <2>1, <2>2, ColumnReplaced
    <3> QED
      BY <3>2, <2>1, <2>2
  <2>5. alter_column(s, op) = Touch(s, op.table, new)
    BY <1>2, <2>3 DEF alter_column
  <2> HIDE DEF new
  <2>6. Rewritten(s, alter_column(s, op), op.table, new)
    BY <2>5, FailedRewritten
  <2> QED
    BY <2>4, <2>6, NamesLeft
<1> QED
  BY <1>1, <1>2

LEMMA IndexLeaves ==
    ASSUME NEW stored, NEW s, IsBlock(s), NEW op,
           IsSnapshot(load_snapshot_for_mutation(s, op.table))
    PROVE  /\ Leaves(stored, s, op, add_index(s, op))
           /\ Leaves(stored, s, op, drop_index(s, op))
<1> DEFINE old == load_snapshot_for_mutation(s, op.table)
           S == {old.indexes[i] : i \in DOMAIN old.indexes} \union {op.index}
           tests == [i \in DOMAIN old.indexes |->
                       IF old.indexes[i] # op.index THEN <<old.indexes[i]>> ELSE <<>>]
           more == [old EXCEPT !.indexes = Append(@, op.index)]
           less == [old EXCEPT !.indexes = FlattenSeq(tests)]
<1>1. IsSequence(old.indexes) /\ \A i \in DOMAIN old.indexes : old.indexes[i] \in S
  BY DEF IsSnapshot
<1>2. op.index \in S
  OBVIOUS
<1>3. IsSequence(Append(old.indexes, op.index))
  <2> HIDE DEF old, S
  <2>1. old.indexes \in Seq(S)
    BY <1>1, SequenceOver
  <2>2. Append(old.indexes, op.index) \in Seq(S)
    BY <1>2, <2>1
  <2> QED
    BY <2>2, SequenceTyped
<1>4. IsSequence(FlattenSeq(tests))
  <2>1. IsSequence(tests) /\ DOMAIN tests = DOMAIN old.indexes
    BY <1>1 DEF IsSequence
  <2>2. \A i \in DOMAIN old.indexes :
            tests[i] = <<>> \/ (tests[i] = <<old.indexes[i]>> /\ old.indexes[i] \in S)
    BY <1>1
  <2> HIDE DEF tests, S
  <2>3. FlattenSeq(tests) \in Seq(S)
    BY <1>1, <2>1, <2>2, KeptElements
  <2> QED
    BY <2>3, SequenceTyped
<1>5. ASSUME NEW indexes, IsSequence(indexes),
             NEW new, new = [old EXCEPT !.indexes = indexes]
      PROVE  Leaves(stored, s, op, rebuild_indexes_from_storage(s, op.table, new))
  <2>1. IsSnapshot(new) /\ new.columns = old.columns
    BY <1>5, IndexesChanged
  <2> QED
    BY <2>1, RebuiltRewritten, NamesLeft
<1>6. Leaves(stored, s, op, drop_index(s, op))
  <2>1. drop_index(s, op) = rebuild_indexes_from_storage(s, op.table, less)
    BY DEF drop_index, Chosen
  <2> HIDE DEF tests
  <2> QED
    BY <1>4, <1>5, <2>1
<1>7. Leaves(stored, s, op, add_index(s, op))
  <2>1. Leaves(stored, s, op, rebuild_indexes_from_storage(s, op.table, more))
    BY <1>3, <1>5
  <2>2. Leaves(stored, s, op, Touch(s, op.table, old))
    <3> HIDE DEF old
    <3>1. IsSnapshot(old) /\ old = load_snapshot_for_mutation(s, op.table)
      BY DEF old
    <3> QED
      BY <3>1, FailedRewritten, NamesLeft
  <2> QED
    BY <2>1, <2>2 DEF add_index
<1> QED
  BY <1>6, <1>7

\* Every planned operation but those on whole tables.
LEMMA OperationLeaves ==
    ASSUME NEW stored, NEW target, NEW s, IsBlock(s), NEW op, PlannedOp(stored, target, op),
           op.op \notin {"CreateTable", "DropTable"},
           IsSnapshot(load_snapshot_for_mutation(s, op.table))
    PROVE  Leaves(stored, s, op, apply_op(s, op))
<1>1. CASE op.op = "AlterColumn"
  BY <1>1, AlterLeaves DEF apply_op, PlannedOp
<1>2. CASE op.op \in {"AddIndex", "DropIndex"}
  BY <1>2, IndexLeaves DEF apply_op
<1>3. CASE op.op \in {"AddColumn", "DropColumn"}
  BY <1>3, ColumnLeaves DEF apply_op, PlannedOp
<1>4. CASE op.op = "RenameColumn"
  BY <1>4, RenameLeaves DEF apply_op, PlannedOp
<1>5. CASE op.op = "WidenColumn"
  BY <1>5, RetypeLeaves DEF apply_op
<1>6. CASE op.op \notin {"AlterColumn", "AddIndex", "DropIndex", "AddColumn", "DropColumn",
                          "RenameColumn", "WidenColumn"}
  BY <1>6, RetypeLeaves DEF apply_op
<1> QED
  BY <1>1, <1>2, <1>3, <1>4, <1>5, <1>6

-----------------------------------------------------------------------------
(* The invariant holds                                                     *)

LEMMA InitIInv == Init => IInv
<1> SUFFICES ASSUME Init PROVE IInv
  OBVIOUS
<1>1. Recorded(disk) /\ registry = load(disk)
  BY DEF Init, Fresh0, Empty, Recorded, Regions, compute_hash
<1>2. ~job.running /\ ~migrating /\ ~drift.cached
  BY DEF Init, Idle, Unknown
<1> QED
  BY <1>1, <1>2 DEF IInv, FlagIsSound

\* A hash holds the snapshots it was computed from.
LEMMA HashHolds ==
    ASSUME NEW a, NEW b
    PROVE  compute_hash(a) \subseteq compute_hash(b)
               <=> \A t \in DOMAIN a : t \in DOMAIN b /\ b[t] = a[t]
<1>1. \A f, t, v : <<t, v>> \in compute_hash(f) <=> t \in DOMAIN f /\ v = f[t]
  BY DEF compute_hash
<1>2. \A f : \A e \in compute_hash(f) : \E t \in DOMAIN f : e = <<t, f[t]>>
  BY DEF compute_hash
<1>3. ASSUME compute_hash(a) \subseteq compute_hash(b), NEW t \in DOMAIN a
      PROVE  t \in DOMAIN b /\ b[t] = a[t]
  BY <1>1, <1>3
<1>4. ASSUME \A t \in DOMAIN a : t \in DOMAIN b /\ b[t] = a[t], NEW e \in compute_hash(a)
      PROVE  e \in compute_hash(b)
  BY <1>1, <1>2, <1>4
<1> QED
  BY <1>3, <1>4

\* Registering a table keeps the snapshots of the others.
LEMMA RegisterStep ==
    ASSUME IInv, NEW t, register_table(t)
    PROVE  IInv'
<1>1. /\ ~job.running /\ t \notin registry.tables /\ disk' = Registered(disk, t, compiled[t])
      /\ registry' = load(disk') /\ UNCHANGED <<drift, migrating, job>>
  BY DEF register_table
<1>2. Recorded(disk) /\ t \notin DOMAIN disk.snapshots
  BY <1>1 DEF IInv, Recorded, load
<1>3. Recorded(disk')
  BY <1>1, <1>2, TablesRegistered
<1>4. disk'.snapshots = Put(disk.snapshots, t, compiled[t])
  BY <1>1, <1>2 DEF Registered, Recorded, Regions
<1>5. compute_hash(disk.snapshots) \subseteq compute_hash(disk'.snapshots)
  BY <1>2, <1>4, HashHolds DEF Put
<1>6. FlagIsSound'
  BY <1>1, <1>5 DEF IInv, FlagIsSound, Settled
<1> QED
  BY <1>1, <1>3, <1>6 DEF IInv

\* A flag computed now is sound.
LEMMA FlagStep ==
    ASSUME IInv, ~job.running, UNCHANGED <<registry, migrating, job>>,
           Recorded(disk'), load(disk') = load(disk), disk'.snapshots = disk.snapshots,
           \/ drift' = DriftCached
           \/ drift' = [hash |-> compute_hash(compiled),
                        drifted |-> registry.hash # compute_hash(compiled), cached |-> TRUE]
    PROVE  IInv'
<1>1. registry.hash = compute_hash(disk.snapshots)
  BY DEF IInv, Recorded, load
<1>2. CASE drift' = drift
  BY <1>2 DEF IInv, FlagIsSound, Settled
<1>3. CASE drift' = [hash |-> compute_hash(compiled),
                     drifted |-> registry.hash # compute_hash(compiled), cached |-> TRUE]
  <2>1. /\ drift'.hash = compute_hash(compiled)
        /\ drift'.drifted = (registry.hash # compute_hash(compiled))
    BY <1>3
  <2>2. FlagIsSound'
    BY <1>1, <2>1 DEF FlagIsSound, Settled
  <2> QED
    BY <2>2 DEF IInv
<1> QED
  BY <1>2, <1>3 DEF DriftCached

LEMMA InsertStep ==
    ASSUME IInv, NEW t, insert(t)
    PROVE  IInv'
<1>1. /\ ~job.running /\ drift' = DriftCached /\ UNCHANGED <<registry, migrating, job>>
      /\ \E given : InsertRow(t, given)
  BY DEF insert
<1>2. Recorded(disk') /\ load(disk') = load(disk) /\ disk'.snapshots = disk.snapshots
  BY <1>1 DEF InsertRow, IInv, Recorded, Regions, load
<1> QED
  BY <1>1, <1>2, FlagStep

\* A block begins, goes on, fails or commits.
LEMMA MigrateStep ==
    ASSUME IInv, NEW allow_destructive, Migrate(allow_destructive)
    PROVE  IInv'
<1>1. /\ ~job.running /\ job'.running /\ job'.saved = disk /\ migrating'
      /\ DOMAIN job' = {"running", "ops", "touched", "saved", "before", "allow_destructive"}
      /\ UNCHANGED <<disk, registry, drift>>
  BY DEF Migrate
<1>2. Recorded(disk) /\ registry = load(disk) /\ FlagIsSound
  BY DEF IInv
<1>3. IsJob(job') /\ FlagIsSound'
  BY <1>1, <1>2 DEF IsJob, FlagIsSound, Settled
<1> QED
  BY <1>1, <1>2, <1>3 DEF IInv

LEMMA ApplyStep ==
    ASSUME IInv, ApplyOp
    PROVE  IInv'
<1> DEFINE s == apply_op(Block, Head(job.ops))
<1>1. /\ job.running /\ disk' = s.disk /\ registry' = s.registry
      /\ job' = [job EXCEPT !.ops = Tail(@), !.touched = s.touched]
      /\ UNCHANGED <<drift, migrating>>
  BY DEF ApplyOp
<1>2. IsBlock(Block)
  BY DEF IInv, IsBlock, Block
<1>3. IsBlock(s)
  BY <1>2, BlockApplied
<1> HIDE DEF s
<1>4. Recorded(disk') /\ registry' = load(disk')
  BY <1>1, <1>3 DEF IsBlock
<1>5. IsJob(job') /\ job'.saved = job.saved /\ job'.running
  BY <1>1 DEF IInv, IsJob
<1>6. FlagIsSound'
  BY <1>1, <1>5 DEF IInv, FlagIsSound, Settled
<1> QED
  BY <1>1, <1>4, <1>5, <1>6 DEF IInv

LEMMA EndStep ==
    ASSUME IInv, ApplyFails \/ commit_snapshots \/ \E release : Restart(release)
    PROVE  IInv'
<1>1. CASE ApplyFails
  <2>1. /\ job.running /\ disk' = job.saved /\ registry' = load(disk') /\ ~migrating'
        /\ ~job'.running /\ drift' = drift
    BY <1>1 DEF ApplyFails, Idle
  <2>2. Recorded(disk')
    BY <2>1 DEF IInv, IsJob
  <2>3. FlagIsSound'
    BY <2>1 DEF IInv, FlagIsSound, Settled
  <2> QED
    BY <2>1, <2>2, <2>3 DEF IInv
<1>2. CASE commit_snapshots
  <2> DEFINE snapshots ==
               [t \in registry.tables |->
                   IF t \in {u \in DOMAIN job.touched : u \in registry.tables}
                   THEN job.touched[t] ELSE disk.snapshots[t]]
  <2>1. /\ disk' = [disk EXCEPT !.snapshots = snapshots, !.hash = compute_hash(snapshots)]
        /\ registry' = load(disk') /\ ~migrating' /\ ~job'.running /\ ~drift'.cached
        /\ DOMAIN snapshots = registry.tables
    BY <1>2 DEF commit_snapshots, Idle, Unknown
  <2> HIDE DEF snapshots
  <2>2. Recorded(disk) /\ registry.tables = disk.tables
    BY DEF IInv, load
  <2>3. Recorded(disk')
    BY <2>1, <2>2 DEF Recorded, Regions
  <2> QED
    BY <2>1, <2>3 DEF IInv, FlagIsSound
<1>3. CASE \E release : Restart(release)
  <2>1. /\ disk' = Settled /\ registry' = load(disk') /\ ~migrating' /\ ~job'.running
        /\ ~drift'.cached
    BY <1>3 DEF Restart, Settled, Idle, Unknown
  <2>2. Recorded(disk')
    BY <2>1 DEF IInv, IsJob, Settled
  <2> QED
    BY <2>1, <2>2 DEF IInv, FlagIsSound
<1> QED
  BY <1>1, <1>2, <1>3

LEMMA NextIInv ==
    ASSUME IInv, [Next]_vars
    PROVE  IInv'
<1>1. CASE \E release \in Releases : UseDatabase(release)
  BY <1>1 DEF UseDatabase, IInv, FlagIsSound, Settled
<1>2. ASSUME NEW t, register_table(t)
      PROVE  IInv'
  BY <1>2, RegisterStep
<1>3. ASSUME NEW t, insert(t)
      PROVE  IInv'
  BY <1>3, InsertStep
<1>4. CASE OpenDatabase \/ CheckDrift
  BY <1>4, FlagStep DEF OpenDatabase, CheckDrift, IInv
<1>5. ASSUME NEW allow_destructive \in BOOLEAN, Migrate(allow_destructive)
      PROVE  IInv'
  BY <1>5, MigrateStep
<1>6. CASE ApplyOp
  BY <1>6, ApplyStep
<1>7. CASE ApplyFails \/ commit_snapshots \/ \E release \in Releases : Restart(release)
  BY <1>7, EndStep
<1>8. CASE UNCHANGED vars
  BY <1>8 DEF vars, IInv, FlagIsSound, Settled
<1> QED
  BY <1>1, <1>2, <1>3, <1>4, <1>5, <1>6, <1>7, <1>8, Zenon DEF Next

\* The registry and the drift flag are right at every step of every block.
THEOREM RegistryInvariant == Spec => []IInv
<1>1. IInv /\ [Next]_vars => IInv'
  BY NextIInv
<1> QED
  BY <1>1, InitIInv, PTL DEF Spec

\* Between calls the registry in memory is the one on page 0 and its hash is
\* the hash of the stored snapshots, whichever operations of whichever
\* migration were applied before it committed, failed or was cut off.
THEOREM RegistryCurrent == Spec => []RegistryIsCurrent
<1>1. IInv => RegistryIsCurrent
  BY DEF IInv, Recorded, RegistryIsCurrent
<1> QED
  BY <1>1, RegistryInvariant, PTL

\* No operation passes the drift gate unless every table of its compiled
\* schema is stored with the compiled snapshot.
THEOREM GateClosed == Spec => []GateIsClosed
<1>1. IInv => GateIsClosed
  <2> SUFFICES ASSUME IInv, ~job.running, ~drift_check
               PROVE  \A t \in DOMAIN compiled : t \in disk.tables /\ disk.snapshots[t] = compiled[t]
    BY DEF GateIsClosed
  <2>1. /\ ~migrating /\ DOMAIN disk.snapshots = disk.tables
        /\ registry.hash = compute_hash(disk.snapshots)
    BY DEF IInv, Recorded, load
  <2>2. compute_hash(compiled) \subseteq compute_hash(disk.snapshots)
    <3>1. CASE cached_drift_for(compute_hash(compiled))
      BY <2>1, <3>1 DEF drift_check, cached_drift_for, IInv, FlagIsSound, Settled
    <3>2. CASE ~cached_drift_for(compute_hash(compiled))
      BY <2>1, <3>2 DEF drift_check
    <3> QED
      BY <3>1, <3>2
  <2> QED
    BY <2>1, <2>2, HashHolds
<1> QED
  BY <1>1, RegistryInvariant, PTL

-----------------------------------------------------------------------------
(* What a migration keeps                                                  *)

\* The snapshot of a table as the operations so far have left it.
Current(t) == load_snapshot_for_mutation(Block, t)

\* Every table has its snapshot and its counters, which are numbers.
Stored(d) ==
    /\ d.snapshots = [t \in d.tables |-> d.snapshots[t]]
    /\ DOMAIN d.counters = d.tables
    /\ \A t \in d.tables : /\ IsSnapshot(d.snapshots[t])
                           /\ \A c \in DOMAIN d.counters[t] : d.counters[t][c].v[1] \in Int

\* What was handed out is covered by the counters of d.
Covered(d) ==
    /\ DOMAIN issued = d.tables
    /\ \A t \in d.tables : \A n \in issued[t] :
          n \in Int /\ \E c \in DOMAIN d.counters[t] : n <= d.counters[t][c].v[1]

Keeping(ops) == \A k \in DOMAIN ops : ops[k].op \notin {"DropTable", "DropColumn"}

\* Where a running block is on its way from job.before to compiled.
Underway ==
    /\ job.before = job.saved.snapshots
    /\ Planned(job.before, compiled, job.ops)
    /\ \A t \in disk.tables : IsSnapshot(Current(t))
    /\ \A t \in disk.tables : \A c \in DOMAIN disk.counters[t] : disk.counters[t][c].v[1] \in Int
    /\ DOMAIN disk.counters = disk.tables
    /\ \A t \in DOMAIN job.before \intersect DOMAIN compiled : t \in disk.tables
    /\ \A t \in DOMAIN job.before \intersect disk.tables :
          disk.counters[t] = job.saved.counters[t]
    /\ \/ job.allow_destructive
       \/ /\ Keeping(job.ops)
          /\ \A t \in DOMAIN job.before :
                t \in disk.tables /\ Carried(t, job.before[t], Current(t))

\* The inductive invariant.
KInv ==
    /\ compiled \in Releases
    /\ Stored(Settled)
    /\ Covered(Settled)
    /\ job.running => Underway

LEMMA InitKInv == Init => KInv
<1> SUFFICES ASSUME Init PROVE KInv
  OBVIOUS
<1>1. /\ ~job.running /\ disk.tables = {} /\ disk.snapshots = Empty /\ disk.counters = Empty
      /\ issued = Empty /\ compiled \in Releases
  BY DEF Init, Idle, Fresh0
<1>2. Stored(Settled) /\ Covered(Settled)
  BY <1>1 DEF Stored, Covered, Settled, Empty
<1> QED
  BY <1>1, <1>2 DEF KInv

LEMMA CountersStart ==
    ASSUME NEW snapshot, NEW c \in DOMAIN Counters(snapshot)
    PROVE  Counters(snapshot)[c].v[1] = 0
BY DEF Counters, zero, Value

LEMMA RegisteredParts ==
    ASSUME NEW d, Recorded(d), NEW t, NEW snapshot
    PROVE  /\ Registered(d, t, snapshot).tables = d.tables \union {t}
           /\ Registered(d, t, snapshot).snapshots = Put(d.snapshots, t, snapshot)
           /\ Registered(d, t, snapshot).counters = Put(d.counters, t, Counters(snapshot))
BY DEF Recorded, Regions, Registered

LEMMA UnregisteredParts ==
    ASSUME NEW d, Recorded(d), NEW t
    PROVE  /\ Unregistered(d, t).tables = d.tables \ {t}
           /\ Unregistered(d, t).snapshots = Drop(d.snapshots, t)
           /\ Unregistered(d, t).counters = Drop(d.counters, t)
BY DEF Recorded, Regions, Unregistered

LEMMA RegisterKept ==
    ASSUME IInv, KInv, NEW t \in DOMAIN compiled, register_table(t)
    PROVE  KInv'
<1>1. /\ ~job.running /\ t \notin disk.tables /\ disk' = Registered(disk, t, compiled[t])
      /\ issued' = Put(issued, t, {}) /\ UNCHANGED <<compiled, job>>
  BY DEF register_table, IInv, load
<1>2. /\ disk'.tables = disk.tables \union {t}
      /\ disk'.snapshots = Put(disk.snapshots, t, compiled[t])
      /\ disk'.counters = Put(disk.counters, t, Counters(compiled[t]))
  BY <1>1, RegisteredParts DEF IInv
<1>3. Stored(disk) /\ Covered(disk) /\ compiled \in Releases
  BY <1>1 DEF KInv, Settled
<1>4. IsSnapshot(compiled[t])
  BY <1>3, SchemaAssumption
<1>5. Stored(disk')
  <2>1. DOMAIN disk'.snapshots = disk'.tables /\ DOMAIN disk'.counters = disk'.tables
    BY <1>2, <1>3 DEF Stored, Put
  <2>2. disk'.snapshots = [u \in disk'.tables |-> disk'.snapshots[u]]
    BY <1>2, <1>3 DEF Stored, Put
  <2>3. ASSUME NEW u \in disk'.tables
        PROVE  /\ IsSnapshot(disk'.snapshots[u])
               /\ \A c \in DOMAIN disk'.counters[u] : disk'.counters[u][c].v[1] \in Int
    <3>1. CASE u = t
      BY <1>2, <1>4, <3>1, CountersStart DEF Put
    <3>2. CASE u # t
      <4>1. /\ u \in disk.tables /\ disk'.snapshots[u] = disk.snapshots[u]
            /\ disk'.counters[u] = disk.counters[u]
        BY <1>2, <1>3, <3>2 DEF Put, Stored
      <4> QED
        BY <1>3, <4>1 DEF Stored
    <3> QED
      BY <3>1, <3>2
  <2> QED
    BY <2>1, <2>2, <2>3 DEF Stored
<1>6. Covered(disk)'
  <2>1. DOMAIN issued' = disk'.tables
    BY <1>1, <1>2, <1>3 DEF Covered, Put
  <2>2. ASSUME NEW u \in disk'.tables, NEW n \in issued'[u]
        PROVE  u \in disk.tables /\ issued'[u] = issued[u] /\ disk'.counters[u] = disk.counters[u]
    BY <1>1, <1>2, <1>3, <2>2 DEF Covered, Stored, Put
  <2>3. ASSUME NEW u \in disk'.tables, NEW n \in issued'[u]
        PROVE  n \in Int /\ \E c \in DOMAIN disk'.counters[u] : n <= disk'.counters[u][c].v[1]
    BY <1>3, <2>2, <2>3 DEF Covered
  <2> QED
    BY <2>1, <2>3 DEF Covered
<1> QED
  BY <1>1, <1>3, <1>5, <1>6 DEF KInv, Settled

\* The counters of a table after an insert, whatever was given and whatever
\* became of the row.
LEMMA InsertKept ==
    ASSUME IInv, KInv, NEW t \in DOMAIN compiled, insert(t)
    PROVE  KInv'
<1>1. /\ ~job.running /\ t \in disk.tables /\ UNCHANGED <<compiled, job>>
      /\ \E given : InsertRow(t, given)
  BY DEF insert, IInv, load
<1>2. PICK given : InsertRow(t, given)
  BY <1>1
<1>3. /\ Stored(disk) /\ Covered(disk) /\ compiled \in Releases /\ IsSnapshot(compiled[t])
      /\ DOMAIN disk = Regions
  BY <1>1, SchemaAssumption DEF KInv, Settled, IInv, Recorded
<1> DEFINE columns == compiled[t].columns
           counters == disk.counters[t]
           next_autoincrement(n) == Value(counters[n].type, <<counters[n].v[1] + 1>>)
           wanted == {i \in DOMAIN columns :
                        columns[i].auto_increment /\ columns[i].name \notin DOMAIN given}
           refused == {i \in wanted :
                        \/ columns[i].name \notin DOMAIN counters
                        \/ counters[columns[i].name].v[1]
                             = Greatest(counters[columns[i].name].type)}
           filled == {columns[i].name : i \in {j \in wanted : \A k \in refused : j < k}}
           counted == [n \in DOMAIN counters |->
                         IF n \in filled THEN next_autoincrement(n) ELSE counters[n]]
           values == [n \in DOMAIN given \union filled |->
                        IF n \in filled THEN next_autoincrement(n) ELSE given[n]]
           out == {values[c].v[1] : c \in DOMAIN values \ DOMAIN given}
<1>4. /\ fill_auto_increment_values(t, given).counters = counted
      /\ fill_auto_increment_values(t, given).values = values
  BY DEF fill_auto_increment_values
<1>5. filled \subseteq DOMAIN counters
  <2>1. DOMAIN columns \subseteq Nat
    BY <1>3 DEF IsSnapshot, IsSequence
  <2> SUFFICES ASSUME NEW j \in wanted, \A k \in refused : j < k
               PROVE  columns[j].name \in DOMAIN counters
    OBVIOUS
  <2>2. j \in Nat
    BY <2>1
  <2>3. j \notin refused
    BY <2>2
  <2> QED
    BY <2>3
<1>6. \A n \in DOMAIN counters : counters[n].v[1] \in Int
  BY <1>1, <1>3 DEF Stored
<1> HIDE DEF columns, wanted, refused, filled
<1>7. DOMAIN counted = DOMAIN counters
      /\ \A n \in DOMAIN counters : counted[n].v[1] \in Int /\ counters[n].v[1] <= counted[n].v[1]
  BY <1>6 DEF Value
<1>8. ASSUME NEW c \in DOMAIN values \ DOMAIN given
      PROVE  c \in DOMAIN counters /\ values[c].v[1] = counted[c].v[1]
  BY <1>5
<1>9. /\ disk'.counters = [disk.counters EXCEPT ![t] = counted]
      /\ disk'.tables = disk.tables /\ disk'.snapshots = disk.snapshots
      /\ issued' = [issued EXCEPT ![t] = @ \union out]
  <2> HIDE DEF counters, counted, values
  <2>1. issued' = [issued EXCEPT ![t] = @ \union out]
    BY <1>2, <1>4 DEF InsertRow
  <2>2. /\ disk'.counters = [disk.counters EXCEPT ![t] = counted]
        /\ disk'.tables = disk.tables /\ disk'.snapshots = disk.snapshots
    BY <1>2, <1>3, <1>4 DEF InsertRow, Regions
  <2> QED
    BY <2>1, <2>2
<1>10. /\ disk'.counters[t] = counted
       /\ \A u \in disk.tables : u # t => disk'.counters[u] = disk.counters[u]
       /\ DOMAIN disk'.counters = disk.tables
  BY <1>1, <1>3, <1>9 DEF Stored
<1> HIDE DEF counted, values
<1>11. Stored(disk')
  <2>1. ASSUME NEW u \in disk.tables, NEW c \in DOMAIN disk'.counters[u]
        PROVE  disk'.counters[u][c].v[1] \in Int
    BY <1>3, <1>7, <1>10, <2>1 DEF Stored
  <2> QED
    BY <1>3, <1>9, <1>10, <2>1 DEF Stored
<1>12. Covered(disk)'
  <2>1. DOMAIN issued' = disk'.tables /\ t \in DOMAIN issued
    BY <1>1, <1>3, <1>9 DEF Covered
  <2>2. ASSUME NEW u \in disk.tables, NEW n \in issued[u]
        PROVE  n \in Int /\ \E c \in DOMAIN disk'.counters[u] : n <= disk'.counters[u][c].v[1]
    <3>1. n \in Int
      BY <1>3 DEF Covered
    <3>2. PICK c \in DOMAIN disk.counters[u] : n <= disk.counters[u][c].v[1]
      BY <1>3 DEF Covered
    <3>3. CASE u = t
      <4>1. c \in DOMAIN counters /\ n <= counters[c].v[1]
        BY <3>2, <3>3
      <4>2. c \in DOMAIN counted /\ counters[c].v[1] \in Int /\ counted[c].v[1] \in Int
            /\ counters[c].v[1] <= counted[c].v[1]
        BY <4>1, <1>6, <1>7
      <4>3. n <= counted[c].v[1]
        BY <3>1, <4>1, <4>2
      <4> QED
        BY <1>10, <3>1, <3>3, <4>2, <4>3
    <3>4. CASE u # t
      BY <1>10, <3>1, <3>2, <3>4
    <3> QED
      BY <3>3, <3>4
  <2>3. ASSUME NEW n \in out
        PROVE  n \in Int /\ \E c \in DOMAIN disk'.counters[t] : n <= disk'.counters[t][c].v[1]
    <3>1. PICK c \in DOMAIN values \ DOMAIN given : n = values[c].v[1]
      OBVIOUS
    <3>2. c \in DOMAIN counted /\ n = counted[c].v[1] /\ n \in Int
      BY <1>7, <1>8, <3>1
    <3> QED
      BY <1>10, <3>2
  <2>4. \A u \in disk.tables : issued'[u] = IF u = t THEN issued[u] \union out ELSE issued[u]
    BY <1>3, <1>9, <2>1 DEF Covered
  <2> HIDE DEF out
  <2>5. ASSUME NEW u \in disk'.tables, NEW n \in issued'[u]
        PROVE  n \in Int /\ \E c \in DOMAIN disk'.counters[u] : n <= disk'.counters[u][c].v[1]
    <3>1. u \in disk.tables /\ (n \in issued[u] \/ (u = t /\ n \in out))
      BY <1>9, <2>4, <2>5
    <3> QED
      BY <3>1, <2>2, <2>3
  <2> QED
    BY <2>1, <2>5 DEF Covered
<1> QED
  BY <1>1, <1>3, <1>11, <1>12 DEF KInv, Settled

\* A block begins with the plan of its diff.
LEMMA MigrateKept ==
    ASSUME IInv, KInv, NEW allow_destructive, Migrate(allow_destructive)
    PROVE  KInv'
<1> DEFINE plan == diff(stored_snapshots, compiled)
<1>1. /\ ~job.running /\ validate(plan.ops, allow_destructive)
      /\ job' = [running |-> TRUE, ops |-> order_ops(plan.ops), touched |-> Empty,
                 saved |-> disk, before |-> stored_snapshots,
                 allow_destructive |-> allow_destructive]
      /\ UNCHANGED <<compiled, disk, registry, issued>>
  BY DEF Migrate
<1>2. /\ Stored(disk) /\ Covered(disk) /\ compiled \in Releases
      /\ registry.tables = disk.tables
  BY <1>1 DEF KInv, Settled, IInv, load
<1>3. stored_snapshots = disk.snapshots /\ DOMAIN disk.snapshots = disk.tables
  BY <1>2 DEF stored_snapshots, Stored
<1>4. \A t \in DOMAIN stored_snapshots : IsSnapshot(stored_snapshots[t])
  BY <1>2, <1>3 DEF Stored
<1>5. /\ Planned(stored_snapshots, compiled, order_ops(plan.ops))
      /\ \/ allow_destructive
         \/ \A k \in DOMAIN order_ops(plan.ops) :
               order_ops(plan.ops)[k].op \notin {"DropTable", "DropColumn"}
  <2>1. validate(diff(stored_snapshots, compiled).ops, allow_destructive) /\ compiled \in Releases
    BY <1>1, <1>2
  <2> QED
    BY <2>1, <1>4, PlanIsPlanned
<1> HIDE DEF plan
<1>6. /\ job'.running /\ job'.ops = order_ops(plan.ops) /\ job'.touched = Empty
      /\ job'.saved = disk /\ job'.before = disk.snapshots
      /\ job'.allow_destructive = allow_destructive
  BY <1>1, <1>3
<1>7. ASSUME NEW t
      PROVE  Current(t)' = disk.snapshots[t]
  BY <1>1, <1>6 DEF Current, Block, load_snapshot_for_mutation, Empty
<1>8. \A t \in disk.tables : Carried(t, disk.snapshots[t], disk.snapshots[t])
  BY DEF Carried
<1>9. Underway'
  BY <1>1, <1>2, <1>3, <1>4, <1>5, <1>6, <1>7, <1>8 DEF Underway, Stored, Keeping
<1>10. Stored(Settled)' /\ Covered(Settled)'
  BY <1>1, <1>2, <1>6, ZenonT(40) DEF Stored, Covered, Settled
<1> QED
  BY <1>1, <1>2, <1>9, <1>10 DEF KInv

LEMMA PlannedTail ==
    ASSUME NEW stored, NEW target, NEW ops, Planned(stored, target, ops), ops # <<>>
    PROVE  /\ PlannedOp(stored, target, Head(ops))
           /\ Planned(stored, target, Tail(ops))
           /\ Keeping(ops) => /\ Head(ops).op \notin {"DropTable", "DropColumn"}
                              /\ Keeping(Tail(ops))
<1> DEFINE S == {ops[i] : i \in DOMAIN ops}
<1>1. (\A op \in S : PlannedOp(stored, target, op)) /\ (\A i \in DOMAIN ops : ops[i] \in S)
  BY DEF Planned
<1> HIDE DEF S
<1>2. ops \in Seq(S)
  BY <1>1, SequenceOver DEF Planned
<1>3. Head(ops) = ops[1] /\ Tail(ops) \in Seq(S) /\ 1 \in DOMAIN ops /\ ops[1] \in S
  BY <1>2
<1>4. \A k \in DOMAIN Tail(ops) : k + 1 \in DOMAIN ops /\ Tail(ops)[k] = ops[k + 1]
  BY <1>2
<1>5. Planned(stored, target, Tail(ops))
  BY <1>1, <1>3, PlannedTyped
<1> QED
  BY <1>1, <1>3, <1>4, <1>5 DEF Keeping

\* The next operation of a plan, on whole tables or on one of them, keeps
\* what the block has kept so far.
LEMMA ApplyKept ==
    ASSUME IInv, KInv, ApplyOp
    PROVE  KInv'
<1> DEFINE op == Head(job.ops)
           r == apply_op(Block, op)
<1>1. /\ job.running /\ job.ops # <<>> /\ r.ok /\ disk' = r.disk
      /\ job' = [job EXCEPT !.ops = Tail(@), !.touched = r.touched]
      /\ UNCHANGED <<compiled, issued>>
  BY DEF ApplyOp
<1>0. PICK t : t = op.table
  OBVIOUS
<1>2. IsBlock(Block) /\ IsJob(job) /\ Underway /\ Recorded(disk)
  BY <1>1 DEF IInv, KInv, IsBlock, Block
<1>3. /\ job'.running = job.running /\ job'.ops = Tail(job.ops) /\ job'.touched = r.touched
      /\ job'.saved = job.saved /\ job'.before = job.before
      /\ job'.allow_destructive = job.allow_destructive
  BY <1>1, <1>2 DEF IsJob
<1>4. PlannedOp(job.before, compiled, op) /\ Planned(job.before, compiled, Tail(job.ops))
  BY <1>1, <1>2, PlannedTail DEF Underway
<1>5. \/ job.allow_destructive
      \/ op.op \notin {"DropTable", "DropColumn"} /\ Keeping(Tail(job.ops))
  BY <1>1, <1>2, PlannedTail DEF Underway
<1>6. Block.disk = disk /\ Block.touched = job.touched
  BY DEF Block
<1>7. \A u : Current(u)' = IF u \in DOMAIN r.touched THEN r.touched[u] ELSE r.disk.snapshots[u]
  BY <1>1, <1>3 DEF Current, Block, load_snapshot_for_mutation
<1>8. \A u : Current(u) = IF u \in DOMAIN job.touched THEN job.touched[u] ELSE disk.snapshots[u]
  BY DEF Current, Block, load_snapshot_for_mutation
<1>9. DOMAIN disk.counters = disk.tables /\ DOMAIN disk.snapshots = disk.tables
  BY <1>2 DEF Underway, Recorded
\* What it amounts to: the tables, their counters and their snapshots.
<1>10. /\ DOMAIN r.disk.counters = r.disk.tables
       /\ \A u \in r.disk.tables : u # t => u \in disk.tables
       /\ \A u \in disk.tables : u # t => u \in r.disk.tables
       /\ t \in DOMAIN job.before \intersect DOMAIN compiled => t \in r.disk.tables
       /\ \A u \in r.disk.tables : \/ /\ u \in disk.tables
                                     /\ r.disk.counters[u] = disk.counters[u]
                                  \/ /\ u \notin DOMAIN job.before
                                     /\ \A c \in DOMAIN r.disk.counters[u] :
                                           r.disk.counters[u][c].v[1] = 0
       /\ \A u \in r.disk.tables : u # t => Current(u)' = Current(u)
       /\ t \in r.disk.tables => IsSnapshot(Current(t)')
       /\ job.allow_destructive \/ ~(t \in DOMAIN job.before)
            \/ (t \in r.disk.tables
                /\ (Carried(t, job.before[t], Current(t)) => Carried(t, job.before[t], Current(t)')))
  <2>1. CASE op.op = "CreateTable"
    <3>1. r = create_table(Block, op)
      BY <2>1 DEF apply_op
    <3>2. r.disk = Registered(disk, t, op.schema) /\ r.touched = Put(job.touched, t, op.schema)
      BY <3>1, <1>0, <1>2, <1>6 DEF create_table, Touch, IsBlock
    <3>3. /\ t \notin DOMAIN job.before /\ IsSnapshot(op.schema)
      BY <1>0, <1>4, <2>1 DEF PlannedOp
    <3>4. /\ r.disk.tables = disk.tables \union {t}
          /\ r.disk.snapshots = Put(disk.snapshots, t, op.schema)
          /\ r.disk.counters = Put(disk.counters, t, Counters(op.schema))
      BY <3>2, <1>2, RegisteredParts
    <3> HIDE DEF r
    <3>5. /\ DOMAIN r.disk.counters = r.disk.tables
          /\ r.disk.counters[t] = Counters(op.schema)
          /\ \A u \in disk.tables : u # t => r.disk.counters[u] = disk.counters[u]
                                             /\ r.disk.snapshots[u] = disk.snapshots[u]
      BY <3>4, <1>9 DEF Put
    <3>6. Current(t)' = op.schema
      BY <3>2, <1>7 DEF Put
    <3>7. \A u \in r.disk.tables : u # t => Current(u)' = Current(u)
      BY <3>2, <3>4, <3>5, <1>7, <1>8 DEF Put
    <3> QED
      BY <3>3, <3>4, <3>5, <3>6, <3>7, CountersStart
  <2>2. CASE op.op = "DropTable"
    <3>1. r = drop_table(Block, op)
      BY <2>2 DEF apply_op
    <3>2. r.disk = Unregistered(disk, t) /\ r.touched = job.touched
      BY <3>1, <1>0, <1>2, <1>6 DEF drop_table, IsBlock
    <3>3. t \notin DOMAIN compiled /\ job.allow_destructive
      BY <1>0, <1>4, <1>5, <2>2 DEF PlannedOp
    <3>4. /\ r.disk.tables = disk.tables \ {t}
          /\ r.disk.snapshots = Drop(disk.snapshots, t)
          /\ r.disk.counters = Drop(disk.counters, t)
      BY <3>2, <1>2, UnregisteredParts
    <3> HIDE DEF r
    <3>5. /\ DOMAIN r.disk.counters = r.disk.tables
          /\ \A u \in disk.tables : u # t => r.disk.counters[u] = disk.counters[u]
                                             /\ r.disk.snapshots[u] = disk.snapshots[u]
      BY <3>4, <1>9 DEF Drop
    <3>6. \A u \in r.disk.tables : u # t => Current(u)' = Current(u)
      BY <3>2, <3>4, <3>5, <1>7, <1>8
    <3> QED
      BY <3>3, <3>4, <3>5, <3>6
  <2>3. CASE op.op \notin {"CreateTable", "DropTable"}
    <3>1. t \in DOMAIN job.before /\ t \in DOMAIN compiled
      BY <1>0, <1>4, <2>3 DEF PlannedOp
    <3>2. t \in disk.tables /\ IsSnapshot(load_snapshot_for_mutation(Block, t))
      BY <3>1, <1>2 DEF Underway, Current
    <3>3. Leaves(job.before, Block, op, r)
      BY <1>0, <1>2, <1>4, <2>3, <3>2, OperationLeaves
    <3>4. PICK new : /\ Rewritten(Block, r, t, new) /\ IsSnapshot(new)
                     /\ op.op # "DropColumn" =>
                          (Carried(t, job.before[t], Current(t)) => Carried(t, job.before[t], new))
      BY <1>0, <1>1, <3>3 DEF Leaves, Current
    <3>5. /\ r.touched = Put(job.touched, t, new) /\ r.disk.tables = disk.tables
          /\ r.disk.snapshots = disk.snapshots /\ r.disk.counters = disk.counters
      BY <1>1, <1>6, <3>4 DEF Rewritten
    <3> HIDE DEF r
    <3>6. Current(t)' = new
      BY <3>5, <1>7 DEF Put
    <3>7. \A u \in r.disk.tables : u # t => Current(u)' = Current(u)
      BY <3>5, <1>7, <1>8 DEF Put
    <3> QED
      BY <3>2, <3>4, <3>5, <3>6, <3>7, <1>5, <1>9
  <2> QED
    BY <2>1, <2>2, <2>3
<1> HIDE DEF r
<1>11. \A u \in disk'.tables : IsSnapshot(Current(u)')
  BY <1>1, <1>2, <1>10 DEF Underway
<1>12. /\ DOMAIN disk'.counters = disk'.tables
       /\ \A u \in disk'.tables : \A c \in DOMAIN disk'.counters[u] :
             disk'.counters[u][c].v[1] \in Int
  BY <1>1, <1>2, <1>10 DEF Underway
<1>13. \A u \in DOMAIN job.before \intersect DOMAIN compiled : u \in disk'.tables
  BY <1>1, <1>2, <1>10 DEF Underway
<1>14. \A u \in DOMAIN job.before \intersect disk'.tables :
          disk'.counters[u] = job.saved.counters[u]
  BY <1>1, <1>2, <1>10 DEF Underway
<1>15. \/ job.allow_destructive
       \/ \A u \in DOMAIN job.before :
             u \in disk'.tables /\ Carried(u, job.before[u], Current(u)')
  BY <1>1, <1>2, <1>10 DEF Underway
<1>16. Underway'
  BY <1>1, <1>2, <1>3, <1>4, <1>5, <1>11, <1>12, <1>13, <1>14, <1>15 DEF Underway
<1>17. Stored(Settled)' /\ Covered(Settled)'
  BY <1>1, <1>3 DEF KInv, Stored, Covered, Settled
<1> QED
  BY <1>1, <1>3, <1>16, <1>17 DEF KInv

\* A block that ends: what it leaves is what it had made, or what it began
\* with.
LEMMA EndKept ==
    ASSUME IInv, KInv,
           ApplyFails \/ commit_snapshots \/ \E release \in Releases : Restart(release)
    PROVE  KInv'
<1>1. CASE ApplyFails
  <2>1. /\ job.running /\ disk' = job.saved /\ ~job'.running /\ UNCHANGED <<compiled, issued>>
    BY <1>1 DEF ApplyFails, Idle
  <2> QED
    BY <2>1 DEF KInv, Settled, Covered, Stored
<1>2. CASE \E release \in Releases : Restart(release)
  <2>1. /\ disk' = Settled /\ ~job'.running /\ compiled' \in Releases /\ UNCHANGED issued
    BY <1>2 DEF Restart, Settled, Idle
  <2>2. Settled' = Settled
    BY <2>1 DEF Settled
  <2> QED
    BY <2>1, <2>2 DEF KInv, Covered, Stored
<1>3. CASE commit_snapshots
  <2> DEFINE snapshots ==
               [t \in registry.tables |->
                   IF t \in {u \in DOMAIN job.touched : u \in registry.tables}
                   THEN job.touched[t] ELSE disk.snapshots[t]]
  <2>1. /\ job.running /\ ~job'.running /\ compiled' = compiled
        /\ disk' = [disk EXCEPT !.snapshots = snapshots, !.hash = compute_hash(snapshots)]
        /\ issued' = [t \in registry.tables |-> IF t \in DOMAIN job.before THEN issued[t] ELSE {}]
    BY <1>3 DEF commit_snapshots, Idle
  <2>2. registry.tables = disk.tables /\ DOMAIN disk = Regions /\ Underway
    BY <2>1 DEF IInv, KInv, Recorded, load
  <2>3. /\ disk'.tables = disk.tables /\ disk'.counters = disk.counters
        /\ disk'.snapshots = snapshots
    BY <2>1, <2>2 DEF Regions
  <2>4. DOMAIN snapshots = disk.tables /\ \A t \in disk.tables : snapshots[t] = Current(t)
    BY <2>2 DEF Current, Block, load_snapshot_for_mutation
  <2>5. snapshots = [t \in disk.tables |-> snapshots[t]]
    BY <2>2
  <2> HIDE DEF snapshots
  <2>6. Stored(disk)'
    BY <2>2, <2>3, <2>4, <2>5 DEF Underway, Stored
  <2>7. Covered(disk)'
    <3>1. DOMAIN issued' = disk.tables
      BY <2>1, <2>2
    <3>2. ASSUME NEW t \in disk.tables, NEW n \in issued'[t]
          PROVE  n \in Int /\ \E c \in DOMAIN disk.counters[t] : n <= disk.counters[t][c].v[1]
      <4>1. t \in DOMAIN job.before /\ n \in issued[t]
        BY <2>1, <2>2, <3>2
      <4>2. disk.counters[t] = job.saved.counters[t]
        BY <2>2, <4>1 DEF Underway
      <4>3. t \in job.saved.tables
        BY <2>1, <2>2, <4>1 DEF Underway, KInv, Settled, Stored
      <4>4. Covered(job.saved)
        BY <2>1 DEF KInv, Settled
      <4> QED
        BY <4>1, <4>2, <4>3, <4>4 DEF Covered
    <3> QED
      BY <3>1, <3>2, <2>3 DEF Covered
  <2> QED
    BY <2>1, <2>6, <2>7 DEF KInv, Settled
<1> QED
  BY <1>1, <1>2, <1>3

LEMMA NextKInv ==
    ASSUME IInv, KInv, [Next]_vars
    PROVE  KInv'
<1>1. CASE \E release \in Releases : UseDatabase(release)
  BY <1>1 DEF UseDatabase, KInv, Settled, Stored, Covered
<1>2. ASSUME NEW t \in DOMAIN compiled, register_table(t)
      PROVE  KInv'
  BY <1>2, RegisterKept
<1>3. ASSUME NEW t \in DOMAIN compiled, insert(t)
      PROVE  KInv'
  BY <1>3, InsertKept
<1>4. CASE OpenDatabase \/ CheckDrift
  BY <1>4 DEF OpenDatabase, CheckDrift, KInv, Settled, Stored, Covered
<1>5. ASSUME NEW allow_destructive \in BOOLEAN, Migrate(allow_destructive)
      PROVE  KInv'
  BY <1>5, MigrateKept
<1>6. CASE ApplyOp
  BY <1>6, ApplyKept
<1>7. CASE ApplyFails \/ commit_snapshots \/ \E release \in Releases : Restart(release)
  BY <1>7, EndKept
<1>8. CASE UNCHANGED vars
  BY <1>8 DEF vars, KInv, Settled, Stored, Covered, Underway, Current, Block
<1> QED
  BY <1>1, <1>2, <1>3, <1>4, <1>5, <1>6, <1>7, <1>8, Zenon DEF Next

\* Every block is on its way from the stored to the compiled schema.
THEOREM MigrationInvariant == Spec => []KInv
<1>1. IInv /\ KInv /\ [Next]_vars => KInv'
  BY NextKInv
<1> QED
  BY <1>1, InitKInv, RegistryInvariant, PTL DEF Spec

\* Every autoincrement value ever handed out is at or below the stored
\* counter of its table, through inserts that fail after the counter was
\* written, migrations that rewrite, create or drop tables, and their
\* rollbacks.
THEOREM CountersCover == Spec => []CountersCoverIssued
<1>1. IInv /\ KInv => CountersCoverIssued
  <2> SUFFICES ASSUME IInv, KInv, NEW t \in DOMAIN issued \intersect disk.tables,
                      NEW n \in issued[t]
               PROVE  \E c \in DOMAIN disk.counters[t] : n <= disk.counters[t][c].v[1]
    BY DEF CountersCoverIssued
  <2>1. /\ t \in Settled.tables
        /\ \E c \in DOMAIN Settled.counters[t] : n <= Settled.counters[t][c].v[1]
    BY DEF KInv, Covered
  <2>2. CASE ~job.running
    BY <2>1, <2>2 DEF Settled
  <2>3. CASE job.running
    <3>1. t \in DOMAIN job.before
      BY <2>1, <2>3 DEF KInv, Underway, Settled, Stored
    <3>2. disk.counters[t] = Settled.counters[t]
      BY <2>3, <3>1 DEF KInv, Underway, Settled
    <3> QED
      BY <2>1, <3>2
  <2> QED
    BY <2>2, <2>3
<1> QED
  BY <1>1, MigrationInvariant, RegistryInvariant, PTL

\* Without allow_destructive a migration keeps every table and, under its
\* own or its new name, every stored column: whatever the releases are, and
\* whatever renames, additions and changes their diff comes to.
THEOREM NothingDropped == Spec => NothingDroppedUnasked
<1> DEFINE Kept == job.running /\ ~job'.running /\ disk'.snapshots # job.before
                      /\ ~job.allow_destructive =>
              \A t \in DOMAIN job.before :
                 /\ t \in disk'.tables
                 /\ \A n \in Names(job.before[t].columns) :
                       \E m \in Names(disk'.snapshots[t].columns) :
                          m = n \/ \E i \in DOMAIN RenamedFrom(t, m) : RenamedFrom(t, m)[i] = n
<1>1. IInv /\ KInv /\ [Next]_vars => [Kept]_vars
  <2> SUFFICES ASSUME IInv, KInv, Next, job.running, ~job'.running,
                      disk'.snapshots # job.before, ~job.allow_destructive
               PROVE  \A t \in DOMAIN job.before :
                         t \in disk'.tables /\ Carried(t, job.before[t], disk'.snapshots[t])
    BY DEF Carried
  <2>1. Underway
    BY DEF KInv
  <2>2. ~ApplyFails /\ ~\E release \in Releases : Restart(release)
    BY <2>1 DEF ApplyFails, Restart, Underway
  <2>3. ~ApplyOp
    BY DEF ApplyOp, IInv, IsJob
  <2>4. commit_snapshots
    BY <2>2, <2>3 DEF Next, UseDatabase, register_table, insert, OpenDatabase, CheckDrift, Migrate
  <2>5. /\ disk'.tables = disk.tables
        /\ \A t \in disk.tables : disk'.snapshots[t] = Current(t)
    BY <2>4 DEF commit_snapshots, IInv, Recorded, Regions, load, Current, Block,
                load_snapshot_for_mutation
  <2> QED
    BY <2>1, <2>5 DEF Underway
<1>2. Spec => [][Kept]_vars
  BY <1>1, MigrationInvariant, RegistryInvariant, PTL DEF Spec
<1> QED
  BY <1>2 DEF NothingDroppedUnasked
=============================================================================
