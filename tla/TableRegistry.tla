--------------------------- MODULE TableRegistry ---------------------------
(***************************************************************************)
(* How one table keeps its records on pages: the page ledger (how much of  *)
(* each page was ever handed out), the free segments left by deletions,    *)
(* the typed path of CRUD and the raw path of migrations, and the two      *)
(* readers that find the records again by walking the pages.               *)
(*                                                                         *)
(* A page is PageSize cells.  The two-byte length header of a record is    *)
(* one cell that holds the length of its body; a body is `len` cells that  *)
(* all hold the row's value.  Nothing but the cells says where a record    *)
(* is: a reader trusts that what is not a record is blank.                 *)
(*                                                                         *)
(* Every operation runs inside an atomic section: one that fails is rolled *)
(* back by the journal (module JournaledMemory), so it leaves the state.   *)
(***************************************************************************)
EXTENDS Integers, Sequences, FiniteSets, SequencesExt

CONSTANTS
    PageSize,          \* cells of a page
    Alignment,         \* RawRecord<E>::ALIGNMENT: the layout of typed writes
    SnapshotAlignment, \* the alignment the stored snapshot gives to migrations
    PagePool,          \* the pages the memory manager may hand to the table
    TableCapacity,     \* free segments of one FreeSegmentsTable
    Lengths,           \* body lengths CRUD may ask for
    Fills,             \* values of a body
    Growths            \* what a migration adds to the length of every body

ASSUME LayoutAssumption ==
    /\ PageSize \in Nat \ {0}
    /\ Alignment \in Nat \ {0}
    /\ SnapshotAlignment \in Nat \ {0}
    /\ TableCapacity \in Nat \ {0}
    /\ PagePool \in Seq(Nat)
    /\ Lengths \subseteq Nat \ {0}
    /\ Fills \subseteq Nat
    /\ Growths \subseteq Int

VARIABLES
    mem,     \* page -> offset -> cell
    ledger,  \* PageTable: the table's pages with their untouched tail
    tables,  \* the FreeSegmentsTables, in the order of the PagesTable
    pool,    \* unclaimed pages, the last one is handed out first
    live,    \* history: the rows that were stored and not deleted
    result   \* what the last operation returned

vars == <<mem, ledger, tables, pool, live, result>>

RAW_RECORD_HEADER_SIZE == 1

\* The largest MSize is one less than the page size (65535 and 65536).
MSizeMax == PageSize - 1

PageIds == ToSet(PagePool)

Cells == 0 .. PageSize - 1

FreeSegment == [page : PageIds, offset : Cells, size : 0 .. MSizeMax]

PageRecord == [page : PageIds, free : 0 .. PageSize]

RecordAddress == [page : PageIds, offset : Cells]

-----------------------------------------------------------------------------
(* Layout of a record *)

align_up(n, alignment) == ((n + alignment - 1) \div alignment) * alignment

saturating_add(m, n) == IF m + n > MSizeMax THEN MSizeMax ELSE m + n

\* Header, body and padding.
raw_record_footprint(len, alignment) ==
    align_up(RAW_RECORD_HEADER_SIZE + len, alignment)

ensure_record_fits(len, alignment) ==
    raw_record_footprint(len, alignment) <= MSizeMax

\* The cells of an encoded row, zero padded to its footprint.
Encoded(row, alignment) ==
    [i \in 0 .. raw_record_footprint(row.len, alignment) - 1 |->
        CASE i = 0                                     -> row.len
          [] i \in 1 .. row.len                        -> row.fill
          [] OTHER                                     -> 0]

\* `memory` with `cells` written at an address.
Written(memory, page, offset, cells) ==
    [memory EXCEPT ![page] =
        [o \in Cells |-> IF o - offset \in DOMAIN cells THEN cells[o - offset] ELSE @[o]]]

Blank(n) == [i \in 0 .. n - 1 |-> 0]

-----------------------------------------------------------------------------
(* An operation transforms a store: the four pieces of state, the address  *)
(* it wrote to (`at`) and the error that stopped it (`err`).               *)

Store == [mem |-> mem, ledger |-> ledger, tables |-> tables, pool |-> pool,
          at |-> <<>>, err |-> "ok"]

Fail(st, why) == IF st.err = "ok" THEN [st EXCEPT !.err = why] ELSE st

\* A page of the unclaimed-pages ledger; blank, because unclaim_page zeroes it.
claim_page(st) ==
    IF st.pool = <<>> THEN Fail(st, "FailedToAllocatePage")
    ELSE [st EXCEPT !.pool = Front(@), !.at = Last(st.pool)]

\* The typed write checks the alignment and the padded end of the record.
write_at(st, page, offset, row) ==
    IF offset % Alignment # 0
    THEN Fail(st, "OffsetNotAligned")
    ELSE IF offset + raw_record_footprint(row.len, Alignment) > PageSize
    THEN Fail(st, "SegmentationFault")
    ELSE [st EXCEPT !.mem = Written(@, page, offset, Encoded(row, Alignment)),
                    !.at = [page |-> page, offset |-> offset]]

\* The raw write checks the end of the page only, for the bytes and then
\* for the padding that zero_raw blanks.
write_at_raw(st, page, offset, row, alignment) ==
    IF offset + raw_record_footprint(row.len, alignment) > PageSize
    THEN Fail(st, "SegmentationFault")
    ELSE [st EXCEPT !.mem = Written(@, page, offset, Encoded(row, alignment)),
                    !.at = [page |-> page, offset |-> offset]]

\* Mutant: a deleted record is only unlinked, its cells stay.
ZeroNothing(st, page, offset, size, alignment) == st

\* The typed form checks the alignment, the raw form (alignment 1) does not.
zero(st, page, offset, size, alignment) ==
    IF offset % alignment # 0
    THEN Fail(st, "OffsetNotAligned")
    ELSE IF offset + size > PageSize
    THEN Fail(st, "SegmentationFault")
    ELSE [st EXCEPT !.mem = Written(@, page, offset, Blank(size))]

-----------------------------------------------------------------------------
(* The free segments ledger *)

swap_remove(seq, i) ==
    IF i = Len(seq) THEN Front(seq) ELSE [Front(seq) EXCEPT ![i] = Last(seq)]

\* Mutant: the rest of a reused segment starts where the segment started.
RestNotMoved(records, segment, used) ==
    LET pos  == SelectInSeq(records, LAMBDA r : r = segment)
        rest == [segment EXCEPT !.size = @ - used]
    IN IF pos = 0 THEN records
       ELSE swap_remove(records, pos) \o (IF used < segment.size THEN <<rest>> ELSE <<>>)

\* Takes `used` cells from the front of a segment; the rest stays free.
remove(records, segment, used) ==
    LET pos  == SelectInSeq(records, LAMBDA r : r = segment)
        rest == [segment EXCEPT !.offset = saturating_add(@, used), !.size = @ - used]
    IN IF pos = 0 THEN records
       ELSE swap_remove(records, pos) \o (IF used < segment.size THEN <<rest>> ELSE <<>>)

AdjacentBefore(records, segment) ==
    SelectInSeq(records, LAMBDA r : /\ r.page = segment.page
                                    /\ saturating_add(r.offset, r.size) = segment.offset)

AdjacentAfter(records, segment) ==
    SelectInSeq(records, LAMBDA r : /\ r.page = segment.page
                                    /\ r.offset = saturating_add(segment.offset, segment.size))

\* Adds a segment, merged with its neighbours of the same table for as long
\* as there are any.
TableWith[arg \in Seq(FreeSegment) \X FreeSegment] ==
    LET records == arg[1]
        segment == arg[2]
        before  == AdjacentBefore(records, segment)
        after   == AdjacentAfter(records, segment)
        Merge(i, offset) ==
            TableWith[<<remove(records, records[i], records[i].size),
                        [segment EXCEPT !.offset = offset,
                                        !.size = saturating_add(records[i].size, @)]>>]
    IN CASE before # 0 -> Merge(before, records[before].offset)
         [] before = 0 /\ after # 0 -> Merge(after, segment.offset)
         [] OTHER -> Append(records, segment)

is_full(table) == Len(table.records) >= TableCapacity

\* The first table that is not full takes the segment, or else a new one.
insert_free_segment(st, segment) ==
    LET t       == SelectInSeq(st.tables, LAMBDA table : ~is_full(table))
        claimed == claim_page(st)
    IN CASE st.err # "ok" -> st
         [] st.err = "ok" /\ t # 0 ->
              [st EXCEPT !.tables[t].records = TableWith[<<@, segment>>]]
         [] OTHER ->
              IF claimed.err # "ok" THEN claimed
              ELSE [claimed EXCEPT !.tables =
                       Append(@, [page |-> claimed.at, records |-> <<segment>>])]

\* The first table, and in it the first segment, of at least `required` cells.
find_reusable_segment(st, required) ==
    LET Suits(r) == r.size >= required
        t == SelectInSeq(st.tables, LAMBDA table : SelectInSeq(table.records, Suits) # 0)
    IN IF t = 0 THEN <<>>
       ELSE <<[table   |-> t,
               segment |-> st.tables[t].records[SelectInSeq(st.tables[t].records, Suits)]]>>

commit_reused_space(st, ticket, used) ==
    IF st.err # "ok" THEN st
    ELSE [st EXCEPT !.tables[ticket.table].records = remove(@, ticket.segment, used)]

-----------------------------------------------------------------------------
(* The page ledger *)

Taken(page_record) == PageSize - page_record.free

\* Room for `size` cells behind what the first suitable page has handed out,
\* or a new page.  CRUD aligns nothing here, migrations start at `alignment`.
get_page_and_offset(st, size, alignment) ==
    LET i == SelectInSeq(st.ledger, LAMBDA p : align_up(Taken(p), alignment) + size <= PageSize)
        claimed == claim_page(st)
    IN IF i # 0
       THEN [st EXCEPT !.at = [page   |-> st.ledger[i].page,
                               offset |-> align_up(Taken(st.ledger[i]), alignment)]]
       ELSE IF claimed.err # "ok" THEN claimed
       ELSE [claimed EXCEPT !.ledger = Append(@, [page |-> claimed.at, free |-> PageSize]),
                            !.at = [page |-> claimed.at, offset |-> 0]]

commit(st, page, size, alignment) ==
    LET i        == SelectInSeq(st.ledger, LAMBDA p : p.page = page)
        consumed == align_up(Taken(st.ledger[i]), alignment) - Taken(st.ledger[i]) + size
    IN CASE st.err # "ok" -> st
         [] st.err = "ok" /\ st.ledger[i].free < consumed -> Fail(st, "DataTooLarge")
         [] OTHER -> [st EXCEPT !.ledger[i].free = @ - consumed]

-----------------------------------------------------------------------------
(* Records *)

\* A segment that holds header and body, the padding not counted, or else
\* room at the end of a page.
get_write_position(st, row) ==
    LET ticket == find_reusable_segment(st, RAW_RECORD_HEADER_SIZE + row.len)
    IN [ticket |-> ticket,
        st     |-> IF ticket = <<>>
                   THEN get_page_and_offset(st, raw_record_footprint(row.len, Alignment), 1)
                   ELSE [st EXCEPT !.at = [page   |-> ticket[1].segment.page,
                                           offset |-> ticket[1].segment.offset]]]

\* The segment or the page is charged with the padded record.
post_write(st, ticket, page, size) ==
    IF ticket = <<>> THEN commit(st, page, size, 1)
    ELSE commit_reused_space(st, ticket[1], size)

\* TableRegistry::insert.
InsertRecord(st, row) ==
    LET position == get_write_position(st, row)
        at       == position.st.at
    IN CASE st.err # "ok" -> st
         [] st.err = "ok" /\ ~ensure_record_fits(row.len, Alignment) -> Fail(st, "DataTooLarge")
         [] OTHER ->
              IF position.st.err # "ok" THEN position.st
              ELSE post_write(write_at(position.st, at.page, align_up(at.offset, Alignment), row),
                              position.ticket, at.page,
                              raw_record_footprint(row.len, Alignment))

\* TableRegistry::delete.
DeleteRecord(st, row) ==
    LET size == raw_record_footprint(row.len, Alignment)
    IN insert_free_segment(zero(st, row.page, row.offset, size, Alignment),
                           [page |-> row.page, offset |-> row.offset, size |-> size])

\* TableRegistry::insert_raw: the whole footprint must fit the segment, and
\* the record starts where the segment starts.
insert_raw(st, row) ==
    LET padded == raw_record_footprint(row.len, SnapshotAlignment)
        ticket == find_reusable_segment(st, padded)
        end    == get_page_and_offset(st, padded, SnapshotAlignment)
    IN CASE st.err # "ok" -> st
         [] st.err = "ok" /\ ~ensure_record_fits(row.len, SnapshotAlignment) ->
              Fail(st, "DataTooLarge")
         [] OTHER ->
              IF ticket # <<>>
              THEN write_at_raw(commit_reused_space(st, ticket[1], padded),
                                ticket[1].segment.page, ticket[1].segment.offset,
                                row, SnapshotAlignment)
              ELSE IF end.err # "ok" THEN end
              ELSE write_at_raw(commit(end, end.at.page, padded, SnapshotAlignment),
                                end.at.page, end.at.offset, row, SnapshotAlignment)

delete_raw(st, row) ==
    LET size == raw_record_footprint(row.len, SnapshotAlignment)
    IN insert_free_segment(zero(st, row.page, row.offset, size, 1),
                           [page |-> row.page, offset |-> row.offset, size |-> size])

-----------------------------------------------------------------------------
(* The readers *)

\* The rows found on a page from `offset` on, `rest` being the rows found
\* from later offsets: slots are `alignment` apart, a zero header is an empty
\* slot.  A length that runs past the page is the TooShort error, and ends
\* the scan.
RowsAt(rest, cells, page, alignment, offset) ==
    LET o   == align_up(offset, alignment)
        len == cells[o]
    IN CASE o + RAW_RECORD_HEADER_SIZE > PageSize -> <<>>
         [] o + RAW_RECORD_HEADER_SIZE <= PageSize ->
              CASE len = 0 -> rest[o + alignment]
                [] len # 0 /\ o + RAW_RECORD_HEADER_SIZE + len > PageSize ->
                     <<[page |-> page, offset |-> o, len |-> len, fill |-> -1]>>
                [] OTHER ->
                     <<[page |-> page, offset |-> o, len |-> len, fill |-> cells[o + 1]]>>
                       \o rest[o + RAW_RECORD_HEADER_SIZE + len]

RowsFrom(page, alignment) ==
    LET F[offset \in 0 .. 2 * (PageSize + alignment)] ==
            RowsAt(F, mem[page], page, alignment, offset)
    IN F[0]

\* Pages are visited in ledger order, whatever their numbers.
ScanPages(alignment) ==
    FlattenSeq([i \in DOMAIN ledger |-> RowsFrom(ledger[i].page, alignment)])

\* TableReader, the scan of every query.
read == ScanPages(Alignment)

\* RawTableReader, the scan of every migration.
iter_raw == ScanPages(SnapshotAlignment)

-----------------------------------------------------------------------------
(* Operations *)

Init ==
    /\ mem = [p \in PageIds |-> [o \in Cells |-> 0]]
    /\ ledger = <<>>
    /\ tables = <<>>
    /\ pool = PagePool
    /\ live = {}
    /\ result = "ok"

\* Keeps what a successful operation did, or what the journal restored.
Finish(st, rows) ==
    /\ result' = st.err
    /\ IF st.err = "ok"
       THEN /\ mem' = st.mem
            /\ ledger' = st.ledger
            /\ tables' = st.tables
            /\ pool' = st.pool
            /\ live' = rows
       ELSE UNCHANGED <<mem, ledger, tables, pool, live>>

At(st, row) == [page |-> st.at.page, offset |-> st.at.offset,
                len |-> row.len, fill |-> row.fill]

Insert ==
    \E len \in Lengths, fill \in Fills :
        LET row == [len |-> len, fill |-> fill]
            st  == InsertRecord(Store, row)
        IN Finish(st, live \cup {At(st, row)})

Delete ==
    \E row \in live : Finish(DeleteRecord(Store, row), live \ {row})

\* A row of the same length is overwritten in place, another one moves.
Update ==
    \E old \in live, len \in Lengths, fill \in Fills :
        LET row == [len |-> len, fill |-> fill]
            st  == CASE ~ensure_record_fits(len, Alignment) -> Fail(Store, "DataTooLarge")
                     [] ensure_record_fits(len, Alignment) /\ len = old.len ->
                          write_at(Store, old.page, old.offset, row)
                     [] OTHER -> InsertRecord(DeleteRecord(Store, old), row)
        IN Finish(st, (live \ {old}) \cup {At(st, row)})

\* What a migration makes of a row.
Grown(row, growth) == [len |-> row.len + growth, fill |-> row.fill]

\* A row is deleted and inserted again; the first error ends the rewrite.
RewriteRow(acc, row, growth) ==
    LET st == insert_raw(delete_raw(acc.st, row), Grown(row, growth))
    IN CASE acc.st.err # "ok" -> acc
         [] acc.st.err = "ok" /\ st.err # "ok" -> [acc EXCEPT !.st = st]
         [] OTHER -> [st |-> st, rows |-> acc.rows \cup {At(st, Grown(row, growth))}]

RewriteRows(start, rows, growth) ==
    LET done[k \in 0 .. Len(rows)] ==
            IF k = 0 THEN [st |-> start, rows |-> {}]
            ELSE RewriteRow(done[k - 1], rows[k], growth)
    IN done[Len(rows)]

\* rewrite_table: every row read before the first write is deleted and
\* inserted again with its new length.  A row keeps its primary key, so no
\* body becomes empty.
RewriteTable ==
    \E growth \in Growths :
        LET done == RewriteRows(Store, iter_raw, growth)
        IN /\ \A row \in ToSet(iter_raw) : row.len + growth > 0
           /\ Finish(done.st, done.rows)

\* DropTable releases the pages in ledger order, and the table is created
\* anew: reclaimed pages come back last in, first out.
ReleasePages ==
    /\ ledger # <<>>
    /\ LET pages == [i \in DOMAIN ledger |-> ledger[i].page]
                       \o [i \in DOMAIN tables |-> tables[i].page]
       IN /\ mem' = [p \in PageIds |->
                        IF p \in ToSet(pages) THEN [o \in Cells |-> 0] ELSE mem[p]]
          /\ pool' = pool \o pages
    /\ ledger' = <<>>
    /\ tables' = <<>>
    /\ live' = {}
    /\ result' = "ok"

Next == Insert \/ Delete \/ Update \/ RewriteTable \/ ReleasePages

Spec == Init /\ [][Next]_vars

-----------------------------------------------------------------------------
(* Properties *)

\* The state has its shape: cells are numbers, ledgers hold pages of the
\* pool, a free-segment table never exceeds its capacity (page_ledger.rs,
\* free_segments_table.rs).
TypeOK ==
    /\ mem \in [PageIds -> [Cells -> Nat]]
    /\ ledger \in Seq(PageRecord)
    /\ \A i \in DOMAIN tables :
         /\ tables[i].page \in PageIds
         /\ tables[i].records \in Seq(FreeSegment)
         /\ Len(tables[i].records) <= TableCapacity
    /\ pool \in Seq(PageIds)
    /\ \A row \in live : /\ [page |-> row.page, offset |-> row.offset] \in RecordAddress
                         /\ row.len \in Nat

Extent(row) ==
    {row.page} \X (row.offset .. row.offset + raw_record_footprint(row.len, Alignment) - 1)

SegmentCells(r) == {r.page} \X (r.offset .. r.offset + r.size - 1)

FreeSegments == UNION {{<<t, i>> : i \in DOMAIN tables[t].records} : t \in DOMAIN tables}

SegmentOf(ti) == tables[ti[1]].records[ti[2]]

\* A query's scan (TableReader) returns the rows that were stored and not
\* deleted, at their addresses and with their values, each once: no record
\* is overwritten, hidden behind a stale length or resurrected, however
\* segments were split, merged and reused.
ScanIsExact ==
    /\ ToSet(read) = live
    /\ Len(read) = Cardinality(live)

\* A migration's scan (RawTableReader, driven by the alignment of the stored
\* snapshot) returns the same rows.  raw_table_reader.rs says that this
\* alignment "matches the on-disk layout written by `TableRegistry::insert`".
RawScanIsExact ==
    /\ ToSet(iter_raw) = live
    /\ Len(iter_raw) = Cardinality(live)

\* No two owners of a cell: records with their padding, free segments and
\* the untouched tails of the pages do not overlap (get_write_position,
\* post_write).
NoDoubleUse ==
    /\ \A r \in live, s \in live : r # s => Extent(r) \cap Extent(s) = {}
    /\ \A r \in live, f \in FreeSegments : Extent(r) \cap SegmentCells(SegmentOf(f)) = {}
    /\ \A f \in FreeSegments, g \in FreeSegments :
         f # g => SegmentCells(SegmentOf(f)) \cap SegmentCells(SegmentOf(g)) = {}
    /\ \A i \in DOMAIN ledger :
         LET tail == {ledger[i].page} \X (Taken(ledger[i]) .. PageSize - 1)
         IN /\ \A r \in live : Extent(r) \cap tail = {}
            /\ \A f \in FreeSegments : SegmentCells(SegmentOf(f)) \cap tail = {}

\* Space is never lost: what a page handed out is a record or a free segment.
\* The one cell that may be missing is the last of a page, when a whole page
\* is free and its size saturates at the largest MSize
\* (FreeSegmentsTable::insert_free_segment).
NoSpaceLost ==
    \A i \in DOMAIN ledger :
        LET page == ledger[i].page
            owned == UNION ({Extent(r) : r \in live}
                              \cup {SegmentCells(SegmentOf(f)) : f \in FreeSegments})
        IN \A o \in 0 .. Taken(ledger[i]) - 1 : <<page, o>> \in owned \/ o = PageSize - 1

\* The allocator never picks a position that the memory manager refuses:
\* the only errors are a record too large for a page, found before anything
\* is written, and no page left (TableRegistry::insert and update).
NoInternalError == result \in {"ok", "DataTooLarge", "FailedToAllocatePage"}

\* Every page belongs to the pool, the page ledger or the free-segments
\* ledger, and to one of them only (claim_page, release_pages).
PagesConserved ==
    LET owned == pool \o [i \in DOMAIN ledger |-> ledger[i].page]
                      \o [i \in DOMAIN tables |-> tables[i].page]
    IN Len(owned) = Len(PagePool) /\ ToSet(owned) = PageIds

\* The typed scan of queries and the raw scan of migrations both return the
\* live records and nothing else.
ScansAreExact == ScanIsExact /\ RawScanIsExact

\* Every cell is in one use: no two records and no record and free segment
\* share one, deletes lose no space inside a page, drops lose no page, and no
\* operation runs into an error that the code calls internal.
CellsHaveOneUse == NoDoubleUse /\ NoSpaceLost /\ PagesConserved /\ NoInternalError
=============================================================================
