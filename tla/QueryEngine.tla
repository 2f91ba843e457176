---------------------------- MODULE QueryEngine ----------------------------
(***************************************************************************)
(* Reading: select on a table with its indexes, inside and outside a       *)
(* transaction, from the choice of an access path to the last page.        *)
(*                                                                         *)
(* A query is [columns, distinct_by, eager, filter, order_by, limit,       *)
(* offset]; columns is All or a set, order_by a sequence of <<column,      *)
(* direction>>, limit may be NoLimit.  An answer is [ok, rows]; rows is a  *)
(* sequence of rows, each a function on the columns that were read.        *)
(***************************************************************************)
EXTENDS AccessPath, Overlay, Bags

CONSTANTS
    Table,
    Columns,      \* [Table -> [column -> [type, nullable, primary_key, unique, fk]]]
    Indexes,      \* [Table -> sequence of column sequences]
    Contents,     \* bound: contents of the tables to start from
    Inserts,      \* bound: inputs, as InsertOp records
    Updates,      \* bound: inputs, as UpdateOp records
    Deletes,      \* bound: inputs, as DeleteOp records
    MaxOps,       \* bound: staged operations
    Queries,      \* bound: the selects to check, as <<table, query>>
    All, NoLimit, NoTransaction

VARIABLES
    stored,   \* [Table -> [addresses in use -> row]]
    staged    \* the operations of the open transaction, or NoTransaction

vars == <<stored, staged>>

InTransaction == staged # NoTransaction
Staged == IF InTransaction THEN staged ELSE <<>>

\* The columns of t, one at a time; every table has the primary key id.
FkColumns(t, relation) == {c \in DOMAIN Columns[t] : Columns[t][c].fk = relation}

Answer(rows) == [ok |-> TRUE, rows |-> rows]
Failed == [ok |-> FALSE, rows |-> <<>>]

-----------------------------------------------------------------------------
(* What a scan reads                                                       *)

Live(rows) == SelectSeq(rows, LAMBDA r : r # Gone)

AddressesOf(t) == SetToSortSeq(DOMAIN stored[t], <)

\* iter_inserted, in the order of the inserts.
iter_inserted(t) ==
    Live([i \in 1 .. Len(Staged) |->
            IF Staged[i].kind = "insert" /\ Staged[i].table = t
            THEN replay(t, Staged[i].row, SubSeq(Staged, i + 1, Len(Staged))) ELSE Gone])

\* DatabaseOverlayReader: stored rows as the transaction left them, then its own.
ReaderRows(t) ==
    LET at == AddressesOf(t) IN
    Live([i \in DOMAIN at |-> replay(t, stored[t][at[i]], Staged)]) \o iter_inserted(t)

\* The part of a sequence that select keeps while it reads: every row that
\* matches, skipping offset of them, up to limit.
Page(rows, offset, limit) ==
    SubSeq(rows, offset + 1,
           IF limit = NoLimit \/ Len(rows) < offset + limit THEN Len(rows) ELSE offset + limit)

Matching(rows, filter) ==
    IF filter = NoFilter THEN rows ELSE SelectSeq(rows, LAMBDA r : matches(filter, r) = "yes")

Fails(rows, filter) ==
    filter # NoFilter /\ \E i \in DOMAIN rows : matches(filter, rows[i]) = "error"

\* The rows a scan has to evaluate: those up to the last one of its page.
\* Only the limit of a query that neither sorts nor deduplicates ends it, and
\* it is first looked at when a row matched.
ScanReach(rows, q) ==
    LET needed == q.offset + IF q.limit = 0 THEN 1 ELSE q.limit
        upTo == {i \in DOMAIN rows : Len(Matching(SubSeq(rows, 1, i), q.filter)) = needed}
    IN  IF q.limit = NoLimit \/ q.order_by # <<>> \/ q.distinct_by # <<>> \/ upTo = {} THEN rows
        ELSE SubSeq(rows, 1, First(upTo))

ScanSelect(t, q) ==
    LET Scanned(rows) == IF Fails(rows, q.filter) THEN Failed ELSE Answer(Matching(rows, q.filter))
    IN  Scanned(ScanReach(ReaderRows(t), q))

-----------------------------------------------------------------------------
(* What an index reads                                                     *)

\* updated_pks: keys of updates that touch one of the columns.
updated_pks(t, columns) ==
    UNION {{r.id : r \in Staged[i].rows} : i \in {j \in 1 .. Len(Staged) :
        /\ Staged[j].kind = "update" /\ Staged[j].table = t
        /\ DOMAIN Staged[j].patch \cap columns # {}}}

\* candidate_addresses: what the path selects, and the stored rows that the
\* transaction may have moved into it.
candidate_addresses(t, path) ==
    LET moved == updated_pks(t, {"id"} \union collect_constrained_columns(path))
        AndMoved(found) ==
            IF found = OverLimit THEN OverLimit
            ELSE found \union {a \in DOMAIN stored[t] : stored[t][a].id \in moved}
    IN  AndMoved(materialize(path, TOTAL_BUDGET, stored[t]).set)

NotServed == [ok |-> FALSE, rows |-> <<Gone>>]

\* Keeps the first row of each primary key.
OncePerKey(rows) ==
    LET Add(acc, r) == IF \E i \in DOMAIN acc : acc[i].id = r.id THEN acc ELSE Append(acc, r) IN
    FoldLeft(Add, <<>>, rows)

\* Rows by their addresses as the transaction left them, then its own.
RowsAt(t, at) == Live([i \in DOMAIN at |-> replay(t, stored[t][at[i]], Staged)]) \o iter_inserted(t)

\* try_index_select.  A filter that can fail is checked against the visible
\* key first, then for what the plan left of it.
try_index_select(t, filter) ==
    LET Verified(planned, rows) ==
            IF Fails(rows, planned.verify) THEN Failed
            ELSE Answer(OncePerKey(Matching(rows, planned.verify)))
        AtKey(planned, rows) ==
            IF is_fallible(filter)
            THEN SelectSeq(rows, LAMBDA r : matches_row(planned.path, r)) ELSE rows
        Fetched(planned, found) ==
            IF found = OverLimit THEN NotServed
            ELSE Verified(planned, AtKey(planned, RowsAt(t, SetToSortSeq(found, <))))
        Served(planned) ==
            IF planned.path = NoPath THEN NotServed
            ELSE Fetched(planned, candidate_addresses(t, planned.path))
    IN  Served(plan_access(filter, Indexes[t], Columns[t]))

Selected(t, q) == IF q.columns = All THEN DOMAIN Columns[t] ELSE q.columns

Project(row, columns) == [c \in DOMAIN row \cap columns |-> row[c]]

NeededColumns(t, q) ==
    Selected(t, q) \union {q.order_by[i][1] : i \in DOMAIN q.order_by} \union Range(q.distinct_by)
        \union IF q.filter = NoFilter THEN {} ELSE collect_filter_columns(q.filter)

\* The one range a covering read uses, or NoPath.
CoveringScan(t, q) ==
    LET covering == {i \in DOMAIN Indexes[t] : NeededColumns(t, q) \subseteq Range(Indexes[t][i])}
        IfCovered(path) ==
            IF path.kind = "scan" /\ NeededColumns(t, q) \subseteq Range(path.scan.columns)
            THEN path ELSE NoPath
    IN  IF q.filter = NoFilter
        THEN IF covering = {} THEN NoPath
             ELSE ScanPath(Scan(Indexes[t][First(covering)], <<>>, Unbounded, Unbounded))
        ELSE IfCovered(plan_filter(q.filter, Indexes[t], Columns[t]))

\* try_covering_select: rows made of index keys alone, outside transactions.
\* It stops once the page is full when nothing is sorted or deduplicated.
try_covering_select(t, q) ==
    LET stop == q.limit # NoLimit /\ q.order_by = <<>> /\ q.distinct_by = <<>>
        Keys(columns, read) ==
            Matching([i \in DOMAIN read |-> Project(stored[t][read[i].addr], Range(columns))], q.filter)
        Cut(rows) == IF stop THEN Page(rows, 0, q.offset + q.limit) ELSE rows
        Covered(path) ==
            IF path = NoPath THEN NotServed
            ELSE IF q.limit = 0 THEN Answer(<<>>)
            ELSE Answer(Cut(Keys(path.scan.columns, for_each_entry(path.scan, stored[t]))))
    IN  IF InTransaction \/ q.eager # {} \/ (q.filter # NoFilter /\ is_fallible(q.filter))
        THEN NotServed ELSE Covered(CoveringScan(t, q))

-----------------------------------------------------------------------------
(* After the rows are read                                                 *)

ValueAt(row, col) == IF col \in DOMAIN row THEN row[col] ELSE Null

\* apply_distinct: the first row of each combination of values.
apply_distinct(rows, by) ==
    LET Key(r) == [i \in DOMAIN by |-> ValueAt(r, by[i])]
        Add(acc, r) == IF \E i \in DOMAIN acc : Key(acc[i]) = Key(r) THEN acc ELSE Append(acc, r)
    IN  IF by = <<>> THEN rows ELSE FoldLeft(Add, <<>>, rows)

\* sort_values_with_direction, as a strict order; a missing value comes first.
SortsBefore(a, b, direction) ==
    IF a = Missing \/ b = Missing THEN a = Missing /\ b # Missing
    ELSE IF direction = "asc" THEN Less(a, b) ELSE Less(b, a)

\* A stable sort on one key: by key, then by place.
StableSort(rows, Before(_, _)) ==
    LET order == SetToSortSeq(DOMAIN rows, LAMBDA i, j :
                    Before(rows[i], rows[j]) \/ (~Before(rows[j], rows[i]) /\ i < j))
    IN  [i \in DOMAIN rows |-> rows[order[i]]]

sort_query_results(rows, col, direction) ==
    LET At(r) == IF col \in DOMAIN r THEN r[col] ELSE Missing IN
    StableSort(rows, LAMBDA a, b : SortsBefore(At(a), At(b), direction))

\* ORDER BY: the last key first, so that earlier keys prevail.
SortAll(rows, order_by) ==
    FoldRight(LAMBDA key, acc : sort_query_results(acc, key[1], key[2]), order_by, rows)

\* The rows through the cheapest way that serves the query.
ReadRows(t, q) ==
    LET OrElse(served, otherwise) == IF served # NotServed THEN served ELSE otherwise
    IN  OrElse(try_covering_select(t, q),
               OrElse(IF q.filter = NoFilter THEN NotServed ELSE try_index_select(t, q.filter),
                      ScanSelect(t, q)))

\* A select of whole rows: nothing is done to them after they are read.
PlainSelect(filter) ==
    [columns |-> All, distinct_by |-> <<>>, eager |-> {}, filter |-> filter,
     order_by |-> <<>>, limit |-> NoLimit, offset |-> 0]

-----------------------------------------------------------------------------
(* Eager relations, one local column at a time.  A reference names the key *)
(* id of the other table.                                                  *)

\* collect_fk_values: the distinct references per column, NULLs left out.
collect_fk_values(rows, columns) ==
    LET Values(c) == {r[c] : r \in Range(rows)} \ {Null} IN
    [c \in {d \in columns : Values(d) # {}} |-> Values(c)]

\* fetch_batch: the referenced rows, by a select of their keys.
RECURSIVE select_columns(_, _)
fetch_batch(t, column, keys) == select_columns(Columns[t][column].fk, PlainSelect(Pred("In", "id", keys)))

\* The row a batch map has under a key: of equal keys the last one.
WithKey(rows, key) == {i \in DOMAIN rows : rows[i].id = key}
InBatch(rows, key) ==
    rows[CHOOSE i \in WithKey(rows, key) : \A j \in WithKey(rows, key) : j <= i]

\* Mutant of attach_foreign_data: a record is found by its table alone.
AttachByTable(t, row, batches) ==
    LET Same(c) == {d \in DOMAIN batches : Columns[t][d].fk = Columns[t][c].fk /\ row[d] # Null}
        of == {c \in DOMAIN batches : Same(c) # {}}
        From(c) == CHOOSE d \in Same(c) : TRUE
    IN  row @@ [foreign |-> [c \in of |-> InBatch(batches[From(c)].rows, row[From(c)])]]

\* attach_foreign_data: the row with the records its columns reference.
attach_foreign_data(t, row, batches) ==
    LET of == {c \in DOMAIN batches : WithKey(batches[c].rows, row[c]) # {}}
    IN  row @@ [foreign |-> [c \in of |-> InBatch(batches[c].rows, row[c])]]

\* verify_fk_batch of every batch, then the rows with what they reference.
Loaded(t, rows, keys, batches) ==
    IF \A c \in DOMAIN keys : batches[c].ok /\ \A k \in keys[c] : WithKey(batches[c].rows, k) # {}
    THEN Answer([i \in DOMAIN rows |-> attach_foreign_data(t, rows[i], batches)]) ELSE Failed

\* fetch_batch of every column.
Fetched(t, rows, keys) == Loaded(t, rows, keys, [c \in DOMAIN keys |-> fetch_batch(t, c, keys[c])])

\* batch_load_eager_relations: fails without a foreign key to the relation,
\* and when a key is not in its batch.
batch_load_eager_relations(t, rows, eager) ==
    IF eager = {} THEN Answer(rows)
    ELSE IF rows # <<>> /\ \E relation \in eager : FkColumns(t, relation) = {} THEN Failed
    ELSE Fetched(t, rows, collect_fk_values(rows, UNION {FkColumns(t, relation) : relation \in eager}))

\* apply_column_selection leaves the attached records alone.
Narrowed(rows, columns) == [i \in DOMAIN rows |-> Project(rows[i], columns \union {"foreign"})]

\* Mutant of Presented: the page is cut before the rows are sorted.
PresentedPageFirst(t, q, read) ==
    LET InOrder(loaded) ==
            IF ~loaded.ok THEN Failed
            ELSE Answer(SortAll(Narrowed(loaded.rows, Selected(t, q)), q.order_by))
    IN  IF ~read.ok THEN Failed
        ELSE InOrder(batch_load_eager_relations(t, apply_distinct(Page(read.rows, q.offset, q.limit), q.distinct_by), q.eager))

\* What select_columns makes of the rows it read: distinct, relations,
\* projection, order, and the page.
Presented(t, q, read) ==
    LET deferred == q.order_by # <<>> \/ q.distinct_by # <<>>
        early == IF deferred THEN read.rows ELSE Page(read.rows, q.offset, q.limit)
        Cut(rows) == IF deferred THEN Page(rows, q.offset, q.limit) ELSE rows
        InOrder(loaded) ==
            IF ~loaded.ok THEN Failed
            ELSE Answer(Cut(SortAll(Narrowed(loaded.rows, Selected(t, q)), q.order_by)))
    IN  IF ~read.ok THEN Failed
        ELSE InOrder(batch_load_eager_relations(t, apply_distinct(early, q.distinct_by), q.eager))

select_columns(t, q) == Presented(t, q, ReadRows(t, q))

\* collect_matching_records: the addresses an update or a delete outside a
\* transaction works on.  Staged operations are not consulted.
collect_matching_records(t, filter) ==
    LET Outcome(a, verify) == IF verify = NoFilter THEN "yes" ELSE matches(verify, stored[t][a])
        Verified(read, verify) ==
            IF \E a \in read : Outcome(a, verify) = "error" THEN OverLimit
            ELSE {a \in read : Outcome(a, verify) = "yes"}
        Found(found, verify) ==
            IF found = OverLimit THEN Verified(DOMAIN stored[t], filter) ELSE Verified(found, verify)
        Planned(planned) ==
            IF planned.path = NoPath THEN Verified(DOMAIN stored[t], filter)
            ELSE Found(materialize(planned.path, TOTAL_BUDGET, stored[t]).set, planned.verify)
    IN  Planned(plan_access(filter, Indexes[t], Columns[t]))

-----------------------------------------------------------------------------
(* The index overlay of a transaction: per index, the keys it added and    *)
(* the keys it removed, each with the primary key of the record.           *)

NoChanges == [added |-> {}, removed |-> {}]

\* IndexColumnOverlay::insert and delete.
OverlayInsert(o, entry) == [added |-> o.added \union {entry}, removed |-> o.removed \ {entry}]

OverlayDelete(o, entry) ==
    IF entry \in o.added THEN [o EXCEPT !.added = @ \ {entry}]
    ELSE [o EXCEPT !.removed = @ \union {entry}]

IndexEntry(index, row, pk) == <<index_key(index, row), pk>>

\* TableOverlay::insert, update and delete on one index.  An update counts
\* when it touches the columns, and moves the key under the old primary key.
OverlayOp(index, o, op) ==
    LET Touches == DOMAIN op.patch \cap Range(index) # {}
        Moved(acc, r) == OverlayInsert(OverlayDelete(acc, IndexEntry(index, r, r.id)),
                                       IndexEntry(index, apply_update(r, op.patch), r.id))
    IN  CASE op.kind = "insert" -> OverlayInsert(o, IndexEntry(index, op.row, op.row.id))
          [] op.kind = "delete" ->
               FoldLeft(LAMBDA acc, r : OverlayDelete(acc, IndexEntry(index, r, r.id)), o, SetToSeq(op.rows))
          [] op.kind = "update" ->
               IF Touches THEN FoldLeft(Moved, o, SetToSeq(op.rows)) ELSE o

index_overlay(t, index) ==
    FoldLeft(LAMBDA o, op : IF op.table = t THEN OverlayOp(index, o, op) ELSE o, NoChanges, Staged)

-----------------------------------------------------------------------------
(* Transactions: operations are staged on the rows a select returns.       *)

Init == stored \in Contents /\ staged = NoTransaction

begin_transaction == ~InTransaction /\ staged' = <<>> /\ UNCHANGED stored

rollback == InTransaction /\ staged' = NoTransaction /\ UNCHANGED stored

Stage(op) ==
    /\ InTransaction /\ Len(staged) < MaxOps
    /\ staged' = Append(staged, op) /\ UNCHANGED stored

\* insert refuses a primary key the transaction sees.
TxInsert(op) ==
    /\ \A r \in Range(ReaderRows(op.table)) : r.id # op.row.id
    /\ Stage(op)

\* existing_rows_for_filter, then the staged operation on what it found.
TxUpdate(op) == Stage([op EXCEPT !.rows = @ \cap Range(ReaderRows(op.table))])

TxDelete(op) == Stage([op EXCEPT !.rows = @ \cap Range(ReaderRows(op.table))])

Next ==
    \/ begin_transaction
    \/ rollback
    \/ \E op \in Inserts : TxInsert(op)
    \/ \E op \in Updates : TxUpdate(op)
    \/ \E op \in Deletes : TxDelete(op)

Spec == Init /\ [][Next]_vars

-----------------------------------------------------------------------------
(* Properties                                                              *)

\* A staged update may give two rows one primary key; commit refuses it.
KeysAreUnique ==
    \A t \in Table : LET rows == ReaderRows(t) IN
        \A i, j \in DOMAIN rows : rows[i].id = rows[j].id => i = j

\* The rows of an answer, as a bag.
BagOf(rows) == [r \in Range(rows) |-> Cardinality({i \in DOMAIN rows : rows[i] = r})]

BeforeIn(a, b, order_by) ==
    \E k \in DOMAIN order_by :
        /\ SortsBefore(a[order_by[k][1]], b[order_by[k][1]], order_by[k][2])
        /\ \A j \in 1 .. k - 1 : a[order_by[j][1]] = b[order_by[j][1]]

OrdersByRead(t, q) == \A i \in DOMAIN q.order_by : q.order_by[i][1] \in Selected(t, q)

\* Whatever way a select reads its rows (index keys alone, an access path
\* under its budget, a scan), inside a transaction or not, the rows are the
\* visible ones that match the filter.  An index may spare a query an
\* evaluation error (a LIKE on a row it skips), but never adds one.
SelectReadsWhatMatches ==
    KeysAreUnique => \A tq \in Queries :
        LET t == tq[1]
            q == [tq[2] EXCEPT !.limit = NoLimit, !.offset = 0, !.distinct_by = <<>>,
                               !.order_by = <<>>, !.eager = {}]
            visible == ReaderRows(t)
        IN  \A answer \in {select_columns(t, q)} :
            /\ Fails(visible, q.filter) \/ answer.ok
            /\ answer.ok => BagOf(answer.rows) =
                   BagOf(Narrowed(Matching(visible, q.filter), Selected(t, q)))

\* A page holds as many rows as there are left after the offset, each of them
\* a matching row; under ORDER BY the rows before it in the order are the
\* ones the offset skipped, and under DISTINCT no combination comes twice.
PagesAreExact ==
    KeysAreUnique => \A tq \in Queries :
        LET t == tq[1]
            q == tq[2]
            matching == Matching(ReaderRows(t), q.filter)
            all == apply_distinct(matching, q.distinct_by)
            left == IF Len(all) <= q.offset THEN 0 ELSE Len(all) - q.offset
            wide == Narrowed(matching, Selected(t, q))
            Key(r) == [i \in DOMAIN q.distinct_by |-> ValueAt(r, q.distinct_by[i])]
        IN  \A answer \in {select_columns(t, q)} :
            answer.ok /\ OrdersByRead(t, q) /\ Range(q.distinct_by) \subseteq Selected(t, q) =>
            /\ Len(answer.rows) = IF q.limit # NoLimit /\ q.limit < left THEN q.limit ELSE left
            /\ BagOf([i \in DOMAIN answer.rows |-> Project(answer.rows[i], Selected(t, q))]) \sqsubseteq BagOf(wide)
            /\ q.distinct_by # <<>> => \A i, j \in DOMAIN answer.rows :
                   Key(answer.rows[i]) = Key(answer.rows[j]) => i = j
            /\ \A i, j \in DOMAIN answer.rows :
                   i < j => ~BeforeIn(answer.rows[j], answer.rows[i], q.order_by)
            /\ q.distinct_by = <<>> => \A i \in DOMAIN answer.rows :
                   Len(SelectSeq(wide, LAMBDA r : BeforeIn(r, answer.rows[i], q.order_by)))
                       < q.offset + i

\* An update or a delete outside transactions works on exactly the records
\* that match its filter, or fails where a scan of the filter would.
MutationsFindTheirRecords ==
    \A tq \in Queries :
        LET t == tq[1]
            f == tq[2].filter
        IN  f # NoFilter => \A found \in {collect_matching_records(t, f)} :
            \/ found = {a \in DOMAIN stored[t] : matches(f, stored[t][a]) = "yes"}
            \/ found = OverLimit /\ \E a \in DOMAIN stored[t] : matches(f, stored[t][a]) = "error"

\* A query with eager relations answers when every reference of the rows it
\* reads has its row in the caller's view, and then gives each row of its page
\* the record that each of its columns references, as the transaction left it,
\* however the batch was read: a record renamed, changed, removed or added in
\* the transaction, two columns that reference one table, a long list of keys.
\* It never answers with a reference left out.
RelationsLoad ==
    KeysAreUnique => \A tq \in Queries :
        LET t == tq[1]
            q == tq[2]
            columns == UNION {FkColumns(t, relation) : relation \in q.eager}
            matching == Matching(ReaderRows(t), q.filter)
            Referenced(r, c) == {o \in Range(ReaderRows(Columns[t][c].fk)) : o.id = r[c]}
            Intact(r) == \A c \in columns : r[c] # Null => Referenced(r, c) # {}
            Complete(row, r) ==
                /\ DOMAIN row.foreign = {c \in columns : r[c] # Null}
                /\ \A c \in DOMAIN row.foreign : row.foreign[c] \in Referenced(r, c)
        IN  q.eager # {} => \A answer \in {select_columns(t, q)} :
            /\ /\ \A relation \in q.eager : FkColumns(t, relation) # {}
               /\ \A r \in Range(matching) : Intact(r)
               /\ ~Fails(ReaderRows(t), q.filter)
               => answer.ok
            /\ \A row \in Range(answer.rows) : \E r \in Range(matching) :
                  Project(r, Selected(t, q)) = Project(row, Selected(t, q)) /\ Complete(row, r)

\* Every row the transaction sees has its key among the entries of each index
\* less the removed and plus the added ones, unless a key was renamed.  (The
\* converse fails: an entry removed and added back counts as added only.)
IndexOverlayMissesNothing ==
    LET Renames(i) == Staged[i].kind = "update" /\ "id" \in DOMAIN Staged[i].patch IN
    (~ \E i \in 1 .. Len(Staged) : Renames(i)) => \A t \in Table : \A i \in DOMAIN Indexes[t] :
        LET index == Indexes[t][i]
            o == index_overlay(t, index)
            base == {IndexEntry(index, stored[t][a], stored[t][a].id) : a \in DOMAIN stored[t]}
        IN  {IndexEntry(index, r, r.id) : r \in Range(ReaderRows(t))}
                \subseteq (base \ o.removed) \union o.added

\* The order asked for is the order of the answer, whatever columns are
\* selected: no matching row that comes before a row of the page was left out.
OrderByIsHonoured ==
    KeysAreUnique => \A tq \in Queries :
        LET t == tq[1]
            q == tq[2]
            Matched == Matching(ReaderRows(t), q.filter)
            Skipped(r) == {m \in Range(Matched) : BeforeIn(m, r, q.order_by)}
        IN  \A answer \in {select_columns(t, q)} :
            answer.ok /\ q.distinct_by = <<>> => \A i \in DOMAIN answer.rows :
                \E r \in Range(Matched) :
                    Project(r, Selected(t, q)) = Project(answer.rows[i], Selected(t, q)) /\ Cardinality(Skipped(r)) < q.offset + i

\* A select, over whatever path the planner takes, answers the page that a
\* full evaluation of the query answers; the entries that a transaction adds to
\* and takes from the indexes miss no row.
SelectsAreExact == SelectReadsWhatMatches /\ PagesAreExact /\ IndexOverlayMissesNothing
=============================================================================
