---------------------------- MODULE LedgerFormat ----------------------------
(***************************************************************************)
(* How the registries and ledgers of the memory crate are stored, each at  *)
(* the start of a page of its own: the schema registry, the pages of a     *)
(* table, its free segments, the roots of its indexes and its              *)
(* autoincrement counters.  Three of them are hash maps, which the code    *)
(* encodes in whatever order the map yields: the encoders take the order   *)
(* as a parameter.                                                         *)
(***************************************************************************)
EXTENDS Wire, Functions, FiniteSetsExt

CONSTANT INITIAL_READ_SIZE   \* the bytes a load of a ledger reads first

\* 1024 of 65536: after three growths the whole page has been read.
ASSUME ReadSizeAssumption ==
    INITIAL_READ_SIZE \in 1..PageSize /\ INITIAL_READ_SIZE * 4^3 >= PageSize

\* The map that a sequence of entries, each a key and a value, builds: a
\* later entry replaces an earlier one.
MapOf(entries) ==
    [k \in {entries[i].key : i \in DOMAIN entries} |->
       entries[CHOOSE i \in DOMAIN entries :
                 entries[i].key = k /\ \A j \in i + 1..Len(entries) : entries[j].key # k].value]

(***************************************************************************)
(* The schema registry: the hash of the stored snapshots and, for each     *)
(* table, five pages.  The last one is there only with an autoincrement    *)
(* column.  The numbers of pages are of four bytes.                        *)
(***************************************************************************)
MIN_ENTRY_SIZE == 25

encode_registry(hash, tables, order) ==
    LET Entry(fingerprint) ==
          LET pages == tables[fingerprint]
              Four(p) == to_le_bytes(p, 4)
          IN  to_le_bytes(fingerprint, 8) \o Four(pages[1]) \o Four(pages[2]) \o Four(pages[3]) \o Four(pages[4]) \o
              (IF pages[5] = None THEN <<0>> ELSE <<1>> \o Four(pages[5][1]))
    IN  to_le_bytes(hash, 8) \o to_le_bytes(Len(order), 8) \o FlattenSeq([i \in DOMAIN order |-> Entry(order[i])])

decode_registry(c) ==
    LET count == Number(Skip(c, 8), 8)
        Entry(d) ==
          LET flag == Skip(d, 24)
              owner == Number(flag, 1) = 1
          IN  [v |-> [key |-> Number(d, 8),
                      value |-> [i \in 1..4 |-> Number(Skip(d, 4 + 4 * i), 4)] \o
                                <<IF owner THEN Some(Number(Skip(flag, 1), 4)) ELSE None>>],
               c |-> Skip(flag, IF owner THEN 5 ELSE 1)]
        entries == Repeat(count, Skip(c, 16), Entry)
    IN  IF count > (Len(c.data) - 16) \div MIN_ENTRY_SIZE THEN [v |-> None, c |-> Fail(c)]
        ELSE [v |-> [hash |-> Number(c, 8), tables |-> MapOf(entries.v)], c |-> entries.c]

(***************************************************************************)
(* A load that copies only the bytes of the ledger: a prefix is read and   *)
(* quadrupled until it tells how long the ledger is.  encoded_len maps the *)
(* length of a prefix to that of the ledger, or to None when the prefix is *)
(* too short to tell.                                                      *)
(***************************************************************************)
ReadSizes == {AtMostMax(INITIAL_READ_SIZE * 4^k, PageSize) : k \in 0..3}

read_sized(page, encoded_len) ==
    LET telling == {n \in ReadSizes : encoded_len[n] # None}
        len == encoded_len[Min(telling)][1]
    IN  IF telling = {} \/ len > PageSize THEN Fail(Cursor(page)) ELSE Cursor(SubSeq(page, 1, len))

(***************************************************************************)
(* The pages of a table, each with its free bytes.                         *)
(***************************************************************************)
PAGE_RECORD_SIZE == 4 + 8

encode_page_table(pages) ==
    to_le_bytes(Len(pages), 4) \o
    FlattenSeq([i \in DOMAIN pages |-> to_le_bytes(pages[i].page, 4) \o to_le_bytes(pages[i].free, 8)])

decode_page_table(c) ==
    LET One(d) == [v |-> [page |-> Number(d, 4), free |-> Number(Skip(d, 4), 8)], c |-> Skip(d, PAGE_RECORD_SIZE)]
    IN  Repeat(Number(c, 4), Skip(c, 4), One)

page_table_len(prefix) ==
    IF Len(prefix) < 4 THEN None ELSE Some(4 + Number(Cursor(prefix), 4) * PAGE_RECORD_SIZE)

(***************************************************************************)
(* The free segments of a table: the pages that list them, and the list on *)
(* one of those pages, which is full when another one would not fit.       *)
(***************************************************************************)
FREE_SEGMENT_SIZE == 4 + 2 + 2

encode_pages_table(pages) ==
    to_le_bytes(Len(pages), 2) \o FlattenSeq([i \in DOMAIN pages |-> to_le_bytes(pages[i], 4)])

decode_pages_table(c) ==
    LET One(d) == [v |-> Number(d, 4), c |-> Skip(d, 4)]
    IN  Repeat(Number(c, 2), Skip(c, 2), One)

pages_table_len(prefix) ==
    IF Len(prefix) < 2 THEN None ELSE Some(2 + Number(Cursor(prefix), 2) * 4)

max_segments == (PageSize + FREE_SEGMENT_SIZE - 1) \div FREE_SEGMENT_SIZE - 1

encode_segments(segments) ==
    to_le_bytes(Len(segments), 2) \o
    FlattenSeq([i \in DOMAIN segments |->
                  to_le_bytes(segments[i].page, 4) \o to_le_bytes(segments[i].offset, 2) \o to_le_bytes(segments[i].size, 2)])

decode_segments(c) ==
    LET One(d) == [v |-> [page |-> Number(d, 4), offset |-> Number(Skip(d, 4), 2), size |-> Number(Skip(d, 6), 2)],
                   c |-> Skip(d, FREE_SEGMENT_SIZE)]
    IN  Repeat(Number(c, 2), Skip(c, 2), One)

(***************************************************************************)
(* The roots of the indexes, by the names of the indexed columns.  The     *)
(* length of a name is cut to its one byte: longer names are refused       *)
(* before the ledger is written.                                           *)
(***************************************************************************)
\* Mutant: a name may be one byte longer than its length can say.
ValidateOneTooLong(columns) == \A i \in DOMAIN columns : Len(columns[i]) <= U8Max + 1

validate_columns(columns) == \A i \in DOMAIN columns : Len(columns[i]) <= U8Max

encode_roots(roots, order) ==
    LET Name(name) == to_le_bytes(Len(name), 1) \o name
        Entry(columns) ==
          to_le_bytes(Len(columns), 8) \o FlattenSeq([i \in DOMAIN columns |-> Name(columns[i])])
          \o to_le_bytes(roots[columns], 4)
    IN  to_le_bytes(Len(order), 8) \o FlattenSeq([i \in DOMAIN order |-> Entry(order[i])])

decode_roots(c) ==
    LET Name(d) == [v |-> Payload(d, 1), c |-> PastPayload(d, 1)]
        Entry(d) == LET columns == Repeat(Number(d, 8), Skip(d, 8), Name)
                    IN  [v |-> [key |-> columns.v, value |-> Number(columns.c, 4)], c |-> Skip(columns.c, 4)]
        entries == Repeat(Number(c, 8), Skip(c, 8), Entry)
    IN  [v |-> MapOf(entries.v), c |-> entries.c]

\* The same walk without the names.
roots_len(prefix) ==
    LET Name(d) == [v |-> 0, c |-> PastPayload(d, 1)]
        Entry(d) == [v |-> 0, c |-> Skip(Repeat(Number(d, 8), Skip(d, 8), Name).c, 4)]
        end == Repeat(Number(Cursor(prefix), 8), Skip(Cursor(prefix), 8), Entry).c
    IN  IF end.ok THEN Some(end.at) ELSE None

load_page_table(page) ==
    LET c == read_sized(page, [n \in ReadSizes |-> page_table_len(SubSeq(page, 1, n))])
    IN  IF c.ok THEN decode_page_table(c) ELSE [v |-> None, c |-> c]

load_pages_table(page) ==
    LET c == read_sized(page, [n \in ReadSizes |-> pages_table_len(SubSeq(page, 1, n))])
    IN  IF c.ok THEN decode_pages_table(c) ELSE [v |-> None, c |-> c]

load_roots(page) ==
    LET c == read_sized(page, [n \in ReadSizes |-> roots_len(SubSeq(page, 1, n))])
    IN  IF c.ok THEN decode_roots(c) ELSE [v |-> None, c |-> c]

(***************************************************************************)
(* The autoincrement counters, by column.  The count and the length of a   *)
(* name are cut to one byte; the names are those of the columns, and their *)
(* number is checked when the table is created.                            *)
(***************************************************************************)
validate_counters(names) ==
    /\ \A i \in DOMAIN names : Len(names[i]) <= U8Max
    /\ Len(names) <= U8Max

encode_counters(counters, order) ==
    to_le_bytes(Len(order), 1) \o
    FlattenSeq([i \in DOMAIN order |->
                  to_le_bytes(Len(order[i]), 1) \o order[i] \o encode_value(counters[order[i]])])

\* The cursor moves by the size of the decoded value, not by what was read.
decode_counters(c) ==
    LET EntryOf(d, rest, value) ==
          [v |-> [key |-> Payload(d, 1), value |-> value.v],
           c |-> IF value.c.ok THEN Skip(rest, value_size(value.v)) ELSE Fail(d)]
        Entry(d) == EntryOf(d, PastPayload(d, 1), decode_value(PastPayload(d, 1)))
        Counters(entries) == [v |-> MapOf(entries.v), c |-> entries.c]
    IN  Counters(Repeat(Number(c, 1), Skip(c, 1), Entry))

\* The largest number of an autoincrement type; next_value stops there.
Greatest(type) == CASE type = "Int8" -> Byte \div 2 - 1 [] type = "Uint8" -> Byte - 1
                    [] type = "Int16" -> (Byte * Byte) \div 2 - 1 [] type = "Uint16" -> Byte * Byte - 1

AutoIncrementTypes == {"Int8", "Int16", "Uint8", "Uint16"}
Overflows(value) == value.v[1] >= Greatest(value.type)
next_value(value) == Fixed(value.type, <<value.v[1] + 1>>)
=============================================================================
