---------------------------- MODULE StoredPages ----------------------------
(***************************************************************************)
(* A page of the database, as it is rewritten over and over.  A page holds *)
(* one kind of contents: the schema snapshot of a table, the schema        *)
(* registry, the pages of a table, the pages that list its free segments,  *)
(* one of those lists, the roots of its indexes, its autoincrement         *)
(* counters, a node of an index, or a row, the first of its page.  A write *)
(* leaves the tail of an earlier, longer value behind the new one, and     *)
(* every load starts from nothing but the bytes.                           *)
(***************************************************************************)
EXTENDS SnapshotFormat, LedgerFormat, NodeFormat, RecordFormat

CONSTANTS
    Schemas,        \* the compiled schemas a table may be given
    Neighbours,     \* the compiled schemas of a second table
    Tables,         \* fingerprint -> the five pages of a table
    PageTables,     \* the page tables of a table
    SegmentPages,   \* the pages claimed for lists of free segments, in this order
    SegmentLists,   \* the lists of free segments
    IndexKeys,      \* the sets of indexes a table may have
    RootPages,      \* the pages a root may move to
    CounterColumns, \* the autoincrement columns of a table, each with its type
    Nodes,          \* the nodes of an index
    Declarations,   \* the structs that derive Table, in the order of the database's tables attribute
    Requests(_),    \* the values an insert or an update of a table may give
    IssuedNumbers,  \* what the autoincrement ledger hands out
    Orders(_)       \* the orders in which a hash map with these keys may be walked

VARIABLES
    kind,      \* what the page is for
    page,      \* its bytes
    written    \* the last value that was written, or None

vars == <<kind, page, written>>

Kinds == {"snapshot", "registry", "pages", "segment_pages", "segments", "roots", "counters", "node", "row"}

\* A page is claimed blank.  A blank registry is one without tables, and a
\* blank list of pages one without pages, which are written None here too:
\* all of them are the empty sequence.
Init ==
    /\ kind \in Kinds
    /\ page = Blank
    /\ written = None

\* write_at of the value's bytes.
Store(value, bytes) ==
    /\ Fits(bytes)
    /\ page' = write_at(page, bytes)
    /\ written' = value
    /\ UNCHANGED kind

(***************************************************************************)
(* SchemaSnapshotLedger::init, and ::write after a migration.              *)
(***************************************************************************)
WriteSnapshot ==
    /\ kind = "snapshot"
    /\ \E schema \in Schemas :
      LET snapshot == schema_snapshot(schema) IN
      /\ validate_encoding(snapshot)
      /\ Store(snapshot, encode_snapshot(snapshot))

(***************************************************************************)
(* SchemaRegistry::save, behind a registration and a removal.  The hash is *)
(* that of the snapshots; any number stands for it.                        *)
(***************************************************************************)
SaveRegistry(tables) ==
    \E order \in Orders(DOMAIN tables) :
      Store(tables, encode_registry(Cardinality(DOMAIN tables), tables, order))

RegisterTable ==
    /\ kind = "registry"
    /\ \E t \in DOMAIN Tables \ DOMAIN written :
      SaveRegistry([u \in DOMAIN written \cup {t} |-> Tables[u]])

UnregisterTable ==
    /\ kind = "registry"
    /\ \E t \in DOMAIN written : SaveRegistry([u \in DOMAIN written \ {t} |-> Tables[u]])

(***************************************************************************)
(* PageLedger::write.                                                      *)
(***************************************************************************)
WritePageTable ==
    /\ kind = "pages"
    /\ \E table \in PageTables : Store(table, encode_page_table(table))

(***************************************************************************)
(* FreeSegmentsLedger::create_new_page, and the commit behind every        *)
(* insertion and removal of a FreeSegmentsTable, which is never more than  *)
(* full.                                                                   *)
(***************************************************************************)
PushSegmentPage ==
    /\ kind = "segment_pages"
    /\ Len(written) < Len(SegmentPages)
    /\ LET pages == Append(written, SegmentPages[Len(written) + 1]) IN Store(pages, encode_pages_table(pages))

CommitSegments ==
    /\ kind = "segments"
    /\ \E segments \in SegmentLists :
      /\ Len(segments) <= max_segments
      /\ Store(segments, encode_segments(segments))

(***************************************************************************)
(* IndexLedger::init_from_keys and ::persist_root_if_changed.              *)
(***************************************************************************)
InitRoots ==
    /\ kind = "roots"
    /\ \E keys \in IndexKeys : \E roots \in [keys -> RootPages], order \in Orders(keys) :
      /\ written = None
      /\ \A key \in keys : validate_columns(key)
      /\ Store(roots, encode_roots(roots, order))

PersistRoot ==
    /\ kind = "roots"
    /\ written # None
    /\ \E key \in DOMAIN written, root \in RootPages, order \in Orders(DOMAIN written) :
         LET roots == [written EXCEPT ![key] = root] IN
         /\ root # written[key]
         /\ Store(roots, encode_roots(roots, order))

(***************************************************************************)
(* AutoincrementLedger::init_from_snapshot and ::next.  The columns are a  *)
(* sequence of names with their types.                                     *)
(***************************************************************************)
InitCounters ==
    /\ kind = "counters"
    /\ \E columns \in CounterColumns :
      LET names == MapSeq(LAMBDA column : column.name, columns)
          counters == MapOf(MapSeq(LAMBDA column : [key |-> column.name, value |-> Fixed(column.type, <<0>>)], columns))
      IN  /\ written = None
          /\ \A i \in DOMAIN columns : columns[i].type \in AutoIncrementTypes
          /\ validate_counters(names)
          /\ \E order \in Orders(DOMAIN counters) : Store(counters, encode_counters(counters, order))

NextCounter ==
    /\ kind = "counters"
    /\ written # None
    /\ \E column \in DOMAIN written, order \in Orders(DOMAIN written) :
         LET counters == [written EXCEPT ![column] = next_value(@)] IN
         /\ ~Overflows(written[column])
         /\ Store(counters, encode_counters(counters, order))

(***************************************************************************)
(* BTreeNode::flush: the whole page is rewritten.                          *)
(***************************************************************************)
FlushNode ==
    /\ kind = "node"
    /\ \E node \in Nodes :
      /\ Serializes(node)
      /\ page' = serialize(node)
      /\ written' = node
      /\ UNCHANGED kind

(***************************************************************************)
(* insert and update of a row, by the name of its table.  An update writes *)
(* a record of the same size in place; another one goes to a place where   *)
(* all bytes are zero.                                                     *)
(***************************************************************************)
\* A struct that the macro refuses is no table.
Database == SelectSeq(Declarations, collect_table_metadata)

StoreRow(struct, row, from, onto) ==
    \E bytes \in {encode_raw(struct, row)} : \E footprint \in {Footprint(bytes, RawAlignment(struct))} :
      /\ footprint <= PageSize
      /\ page' = write_record(onto, bytes, footprint)
      /\ written' = [struct |-> struct, row |-> row, from |-> from]
      /\ UNCHANGED kind

InsertRow ==
    /\ kind = "row"
    /\ written = None
    /\ \E table \in {struct.table[1] : struct \in ToSet(Database)}, issued \in IssuedNumbers :
      \E struct \in {Dispatch(Database, table)[1]} : \E values \in Requests(struct) :
        \E row \in InsertedRow(struct, InsertFromValues(struct, values), issued) :
          StoreRow(struct, row, [values |-> values, row |-> None], page)

UpdateRow ==
    /\ kind = "row"
    /\ written # None
    /\ \E struct \in {Dispatch(Database, written.struct.table[1])[1]} : \E values \in Requests(struct) :
      /\ UpdateAccepts(struct, values)
      /\ \E row \in UpdatedRow(struct, written.row, update_values(struct, values)) :
           StoreRow(struct, row, [values |-> values, row |-> written.row],
                    IF impl_size(struct, row) = impl_size(struct, written.row) THEN page ELSE Blank)

(***************************************************************************)
(* unclaim_page of a dropped table or index, and a later claim_page: the   *)
(* page is zeroed and serves any purpose next.  Page 0 is never released.  *)
(***************************************************************************)
Reclaim ==
    /\ kind # "registry"
    /\ page' = Blank
    /\ written' = None
    /\ kind' \in Kinds \ {"registry"}

Next ==
    \/ Reclaim \/ WriteSnapshot \/ RegisterTable \/ UnregisterTable \/ WritePageTable
    \/ PushSegmentPage \/ CommitSegments
    \/ InitRoots \/ PersistRoot \/ InitCounters \/ NextCounter \/ FlushNode
    \/ InsertRow \/ UpdateRow

Spec == Init /\ [][Next]_vars

-----------------------------------------------------------------------------
Holds(k) == kind = k /\ written # None

\* A snapshot that passed the limits is read back as it was written, with
\* every column, index, key and default, whatever longer snapshot the page
\* held before.  The size it reports is the length of its bytes, which is
\* also the length the limits were checked against: nothing is cut off.
SnapshotReadsBack ==
    Holds("snapshot") =>
      LET bytes == encode_snapshot(written) IN
      /\ decode_snapshot(read_at(page)).v = written
      /\ snapshot_size(written) = Len(bytes)
      /\ SnapshotLen(written) = Len(bytes)

\* The databases of one table or two that may be compiled, in both orders.
\* Their names differ.
Lists(snapshot) ==
    {<<snapshot>>} \cup UNION {{<<snapshot, other>>, <<other, snapshot>>} :
        other \in {schema_snapshot(n) : n \in {m \in Neighbours : m.name # snapshot.name}}}
CompiledLists == UNION {Lists(schema_snapshot(s)) : s \in {t \in Schemas : validate_encoding(schema_snapshot(t))}}
CompiledHashes == {[tables |-> ToSet(list), input |-> CompiledHashInput(list)] : list \in CompiledLists}

\* The registry and the migration hash their snapshots on their own, one in
\* the order in which a hash map is walked, the other in the order of the
\* declarations.  Whatever the orders, and whatever pages the snapshots were
\* read back from, they hash the same bytes exactly when the databases have
\* the same tables: an old database is not reported as changed, and no change
\* of a table, nor a table more or less, is missed.
DriftIsVisible ==
    Holds("snapshot") =>
      \A list \in Lists(decode_snapshot(read_at(page)).v) : \A input \in {StoredHashInput(list)} :
        \A compiled \in CompiledHashes :
          input = compiled.input <=> ToSet(list) = compiled.tables

\* Whatever order the maps were encoded in, the registry and the ledgers of
\* a table load as they were written, also where a load reads only as many
\* bytes as the ledger's own lengths announce.
LedgersReadBack ==
    /\ kind = "registry" => decode_registry(read_at(page)).v.tables = written
    /\ Holds("pages") => load_page_table(page).v = written
    /\ kind = "segment_pages" => load_pages_table(page).v = written
    /\ Holds("segments") => decode_segments(read_at(page)).v = written
    /\ Holds("roots") => load_roots(page).v = written
    /\ Holds("counters") => decode_counters(read_at(page)).v = written

\* The two readers of a node agree with what was written: the view finds the
\* same keys and pointers, and sends a key to the child in front of the first
\* greater separator.
ReadersAgree ==
    Holds("node") =>
      LET node == written
          bytes == page
          view == parse(bytes)
          After(key) == {i \in DOMAIN node.entries : ~KeyAtMost(node.entries[i].key, key)}
      IN  /\ deserialize(bytes) = [v |-> node, c |-> [data |-> bytes, at |-> Len(NodeBytes(node)), ok |-> TRUE]]
          /\ view.ok /\ Len(view.key_offsets) = Len(node.entries)
          /\ \A i \in DOMAIN node.entries : view_key(bytes, view, i) = node.entries[i].key
          /\ node.leaf =>
               /\ \A i \in DOMAIN node.entries : view_pointer(bytes, view, i) = node.entries[i].to
               /\ first_leaf_key(bytes) = IF node.entries = <<>> THEN None ELSE node.entries[1].key
          /\ ~node.leaf =>
               \A other \in Nodes : \A i \in DOMAIN other.entries :
                 LET key == other.entries[i].key IN
                 child_for(bytes, view, key) =
                   IF After(key) = {} THEN node.rightmost ELSE node.entries[Min(After(key))].to

(***************************************************************************)
(* Rows.  A calendar that counts days by the lengths of the months, and    *)
(* the moment of a date and time in it: its day and its minute in UTC.     *)
(***************************************************************************)
IsLeap(year) == year % 4 = 0 /\ (year % 100 # 0 \/ year % 400 = 0)
MonthDays(year, month) ==
    IF month = 2 THEN (IF IsLeap(year) THEN 29 ELSE 28) ELSE IF month \in {4, 6, 9, 11} THEN 30 ELSE 31
DayNumber(year, month, day) ==
    365 * year + (year + 3) \div 4 - (year + 99) \div 100 + (year + 399) \div 400
    + Sum([m \in 1..month - 1 |-> MonthDays(year, m)]) + day
Moment(dt) ==
    LET minute == dt[4] * 60 + dt[5] - dt[8]
    IN  <<DayNumber(dt[1], dt[2], dt[3]) + minute \div 1440, minute % 1440, dt[6], dt[7]>>
IsDate(dt) == dt[2] \in 1..12 /\ dt[3] \in 1..MonthDays(dt[1], dt[2])

\* The row is read back by the struct that wrote it and, column by column,
\* by a migration that knows only the stored snapshot, and its size is that
\* of its bytes.
RowReadsBack(struct, row) ==
    /\ decode_raw(struct, read_at(page)) = [v |-> row, c |-> [data |-> impl_encode(struct, row), at |-> impl_size(struct, row), ok |-> TRUE]]
    /\ read_by_snapshot(schema_snapshot(generate_table_schema(struct)), read_at(page)).v = row

\* A record of a query gives each column that is no foreign key its value.
RecordShows(struct, row) ==
    LET values == to_values(struct, row)
    IN  RecordToValues(struct, RecordFromValues(struct, values))
          = SelectSeq(values, LAMBDA p : ~IsForeign(struct, p.name))

\* What a sanitizer leaves in a column: a value it would not change again,
\* or a text of letters, digits and percent signs for a URL.
IsClean(sanitizer, value) ==
    IF sanitizer.kind = "UrlEncoding" THEN All(value.v, Alphanumeric \cup {Percent})
    ELSE sanitize(sanitizer, value) = Ok(value)

\* A column that an update does not name keeps its value.  Only an encoding
\* for a URL changes it: the percent signs of the old value are encoded.
Untouched(chain, value, old) ==
    IF \E i \in DOMAIN chain : chain[i].kind = "UrlEncoding"
    THEN SanitizerChain(chain, old) = Ok(value) ELSE value = old

\* A stored value passes the column's validators and is clean for the last of
\* its sanitizers.  A date and time is one, at the moment that was given.
ColumnIsAsAsked(field, value, from, old) ==
    LET chain == collect_sanitizes(field)
        given == AcceptedFor(field, from.values)
    IN  /\ ValidatorChain(collect_validates(field), value)
        /\ chain # <<>> => IsClean(Last(chain), value)
        /\ value.type = "DateTime" /\ chain # <<>> =>
             IsDate(value.v) /\ (given # <<>> => Moment(value.v) = Moment(Last(given).v))
        /\ from.row # None /\ given = <<>> => Untouched(chain, value, old)

\* A row on its page is the row that was asked for: both readers and the
\* records of queries show it, and every value has gone through the
\* sanitizers and validators of its own column.  A column that an update does
\* not name, but that goes through them again, is what it was before, a text
\* encoded for a URL excepted: that one is encoded again
\* (UntouchedColumnsStay).
RowsAreAsAsked ==
    Holds("row") =>
      /\ RowReadsBack(written.struct, written.row)
      /\ RecordShows(written.struct, written.row)
      /\ \A i \in DOMAIN written.row :
           ColumnIsAsAsked(written.struct.fields[i], written.row[i], written.from,
                           IF written.from.row = None THEN Null ELSE written.from.row[i])

\* An update changes no column it does not name.  The code violates it for
\* UrlEncoding, which is not idempotent.
UntouchedColumnsStay ==
    Holds("row") /\ written.from.row # None =>
      \A i \in DOMAIN written.row :
        AcceptedFor(written.struct.fields[i], written.from.values) = <<>> => written.row[i] = written.from.row[i]

\* One key, unique and with the first index; an index for every unique
\* column; no index twice.
CoherentKeys(schema, snapshot) ==
    /\ \E i \in DOMAIN schema.columns :
         /\ schema.columns[i].name = schema.primary_key /\ schema.columns[i].unique
         /\ \A j \in DOMAIN schema.columns : schema.columns[j].primary_key <=> j = i
    /\ schema.indexes[1] = <<schema.primary_key>>
    /\ \A i, j \in DOMAIN schema.indexes : schema.indexes[i] = schema.indexes[j] => i = j
    /\ \A column \in ToSet(schema.columns) :
         /\ column.unique => [columns |-> <<column.name>>, unique |-> TRUE] \in ToSet(snapshot.indexes)
         /\ column.auto_increment => ~column.nullable /\ column.data_type.kind \in SignedTypes \cup UnsignedTypes

CoherentRelations(struct, schema, snapshots) ==
    /\ \A column \in ToSet(schema.columns) :
         column.foreign_key # None =>
           /\ column.data_type.kind # "Custom"
           /\ impl_fetch(struct, column.foreign_key.foreign_table, column.name)[1].referenced_field
                = column.foreign_key.foreign_column
    /\ UNION {{<<ref.table, c>> : c \in ToSet(ref.columns)} : ref \in ToSet(get_referenced_tables(Database, schema.name))}
         = UNION {{<<s.name, c.name>> : c \in {d \in ToSet(s.columns) : d.foreign_key # None /\ d.foreign_key.table = schema.name}} :
                    s \in ToSet(snapshots)}

CoherentDispatch(struct, schema) ==
    /\ table_columns(Database, schema.name) = Some(schema.columns)
    /\ table_indexes(Database, schema.name) = Some(schema.indexes)
    /\ static_table_name(Database, schema.name) = Some(schema.name)
    /\ \A column \in ToSet(schema.columns) :
         /\ renamed_from_dyn(Database, schema.name, column.name) = column.renamed_from
         /\ migrate_default(Database, schema.name, column.name)
              = IF column.name \in DOMAIN struct.hooks THEN struct.hooks[column.name] ELSE column.default

Coherent(struct, schema, snapshots) ==
    /\ CoherentKeys(schema, schema_snapshot(schema))
    /\ CoherentRelations(struct, schema, snapshots)
    /\ CoherentDispatch(struct, schema)

\* What the macros derive for the table of a stored row fits together.  It
\* has one key, unique and with the first index; every unique column has an
\* index of its own, and no index is there twice, which would enter every
\* row twice; autoincrement columns are integers that are never null; a
\* foreign key is fetched by the column it was declared with; the tables
\* that refer to it are those whose snapshots say so; and its name leads to
\* its own columns, indexes, former names and defaults.
SchemasAreCoherent ==
    Holds("row") => Coherent(written.struct, generate_table_schema(written.struct), compiled_snapshots(Database))
=============================================================================
