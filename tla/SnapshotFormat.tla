--------------------------- MODULE SnapshotFormat ---------------------------
(***************************************************************************)
(* How the snapshot of a table's schema is stored: the snapshot taken of a *)
(* compiled schema, the limits it is checked against before it is written, *)
(* its encoding, and the decoder that every load of the table goes         *)
(* through.                                                                *)
(***************************************************************************)
EXTENDS Wire

SCHEMA_SNAPSHOT_VERSION == 1

(***************************************************************************)
(* Taking the snapshot.  A foreign key is always recorded as Restrict, an  *)
(* index as unique when it covers one column that is unique or the key.    *)
(* A column's default is the value its function returns.                   *)
(***************************************************************************)
ForeignKey(table, column) == [table |-> table, column |-> column, on_delete |-> "Restrict"]

ColumnSnapshotOf(def) ==
    [name |-> def.name, data_type |-> def.data_type, nullable |-> def.nullable,
     auto_increment |-> def.auto_increment, unique |-> def.unique, primary_key |-> def.primary_key,
     foreign_key |-> IF def.foreign_key = None THEN None
                     ELSE ForeignKey(def.foreign_key.foreign_table, def.foreign_key.foreign_column),
     default |-> def.default]

IsUniqueIndex(schema, columns) ==
    /\ Len(columns) = 1
    /\ \E i \in DOMAIN schema.columns :
         /\ schema.columns[i].name = columns[1]
         /\ \A j \in 1..i - 1 : schema.columns[j].name # columns[1]
         /\ schema.columns[i].unique \/ schema.columns[i].primary_key

schema_snapshot(schema) ==
    [version |-> SCHEMA_SNAPSHOT_VERSION, name |-> schema.name, primary_key |-> schema.primary_key,
     alignment |-> schema.alignment,
     columns |-> [i \in DOMAIN schema.columns |-> ColumnSnapshotOf(schema.columns[i])],
     indexes |-> [i \in DOMAIN schema.indexes |->
                    [columns |-> schema.indexes[i], unique |-> IsUniqueIndex(schema, schema.indexes[i])]]]

(***************************************************************************)
(* The tags of the data types.  A custom type carries its name and the     *)
(* layout of its bytes: a fixed number of them, or a length prefix.        *)
(***************************************************************************)
Tags == <<"Int8", "Int16", "Int32", "Uint8", "Uint16", "Uint32", "Decimal", "Boolean", "Date", "DateTime",
          "Blob", "Text", "Uuid">>
CustomTag == Byte - 1

SimpleType(name) == [kind |-> name]
CustomType(tag, wire_size) == [kind |-> "Custom", tag |-> tag, wire_size |-> wire_size]
\* The number of bytes of a fixed layout, or none.
LengthPrefixed == None

TagOf(type) == IF type.kind = "Custom" THEN CustomTag ELSE CHOOSE t \in DOMAIN Tags : Tags[t] = type.kind
OnDelete == <<"Restrict", "Cascade">>

Sum(seq) == FoldLeft(LAMBDA a, b : a + b, 0, seq)
MapSeq(Op(_), seq) == [i \in DOMAIN seq |-> Op(seq[i])]

(***************************************************************************)
(* Encoding.                                                               *)
(***************************************************************************)
encode_name(name) == u8_len(Len(name)) \o name
encode_flag(b) == <<IF b THEN 1 ELSE 0>>
encode_sized(bytes) == length_prefix(Len(bytes)) \o bytes

encode_index(index) ==
    u8_len(Len(index.columns)) \o FlattenSeq(MapSeq(encode_name, index.columns)) \o encode_flag(index.unique)

encode_foreign_key(fk) ==
    encode_name(fk.table) \o encode_name(fk.column) \o
    <<CHOOSE t \in DOMAIN OnDelete : OnDelete[t] = fk.on_delete>>

encode_data_type(type) ==
    IF type.kind # "Custom" THEN <<TagOf(type)>>
    ELSE <<CustomTag>> \o
         (IF type.wire_size = LengthPrefixed THEN <<2>> ELSE <<1>> \o to_le_bytes(type.wire_size[1], 4)) \o
         encode_name(type.tag)

Flags(c) == (IF c.nullable THEN 1 ELSE 0) + (IF c.auto_increment THEN 2 ELSE 0)
            + (IF c.unique THEN 4 ELSE 0) + (IF c.primary_key THEN 8 ELSE 0)

encode_column(c) ==
    encode_name(c.name) \o encode_data_type(c.data_type) \o <<Flags(c)>> \o
    (IF c.foreign_key = None THEN <<0>> ELSE <<1>> \o encode_sized(encode_foreign_key(c.foreign_key))) \o
    (IF c.default = None THEN <<0>> ELSE <<1>> \o encode_sized(encode_value(c.default)))

encode_snapshot(s) ==
    <<s.version>> \o encode_name(s.name) \o encode_name(s.primary_key) \o to_le_bytes(s.alignment, 4) \o
    length_prefix(Len(s.columns)) \o
    FlattenSeq([i \in DOMAIN s.columns |-> encode_sized(encode_column(s.columns[i]))]) \o
    length_prefix(Len(s.indexes)) \o
    FlattenSeq([i \in DOMAIN s.indexes |-> encode_sized(encode_index(s.indexes[i]))])

(***************************************************************************)
(* Sizes, as the Encode implementations report them: each nested size is   *)
(* already narrowed to an MSize.                                           *)
(***************************************************************************)
NamesSize(names) == Sum([i \in DOMAIN names |-> 1 + Len(names[i])])

index_size(index) == saturating_size(2, NamesSize(index.columns))
foreign_key_size(fk) == saturating_size(3, Len(fk.table) + Len(fk.column))

data_type_size(type) ==
    IF type.kind # "Custom" THEN 1
    ELSE saturating_size(1 + (IF type.wire_size = LengthPrefixed THEN 1 ELSE 1 + 4) + 1, Len(type.tag))

column_size(c) ==
    saturating_size(0,
        1 + Len(c.name) + data_type_size(c.data_type) + 1
        + 1 + (IF c.foreign_key = None THEN 0 ELSE 2 + foreign_key_size(c.foreign_key))
        + 1 + (IF c.default = None THEN 0 ELSE 2 + value_size(c.default)))

snapshot_size(s) ==
    saturating_size(0,
        1 + 1 + Len(s.name) + 1 + Len(s.primary_key) + 4
        + 2 + Sum([i \in DOMAIN s.columns |-> 2 + column_size(s.columns[i])])
        + 2 + Sum([i \in DOMAIN s.indexes |-> 2 + index_size(s.indexes[i])]))

(***************************************************************************)
(* The limits.  Each checked length is that of the encoding, and each      *)
(* length and count is compared with the largest of its field.             *)
(***************************************************************************)
FitsField(len, max) == len <= max

ValidIndex(index) ==
    /\ FitsField(Len(index.columns), U8Max)
    /\ \A i \in DOMAIN index.columns : FitsField(Len(index.columns[i]), U8Max)
IndexLen(index) == 2 + NamesSize(index.columns)

\* Mutant: the name of the referenced column is not checked.
ValidForeignTable(fk) == FitsField(Len(fk.table), U8Max)

ValidForeignKey(fk) == FitsField(Len(fk.table), U8Max) /\ FitsField(Len(fk.column), U8Max)
ForeignKeyLen(fk) == 1 + Len(fk.table) + 1 + Len(fk.column) + 1

ValidDataType(type) == type.kind = "Custom" => FitsField(Len(type.tag), U8Max)
DataTypeLen(type) ==
    IF type.kind # "Custom" THEN 1
    ELSE 1 + (IF type.wire_size = LengthPrefixed THEN 1 ELSE 1 + 4) + 1 + Len(type.tag)

ValidColumn(c) ==
    /\ FitsField(Len(c.name), U8Max)
    /\ ValidDataType(c.data_type)
    /\ c.foreign_key # None => ValidForeignKey(c.foreign_key) /\ FitsField(ForeignKeyLen(c.foreign_key), MSizeMax)
    /\ c.default # None => FitsField(Len(encode_value(c.default)), MSizeMax)
ColumnLen(c) ==
    1 + Len(c.name) + DataTypeLen(c.data_type) + 3
    + (IF c.foreign_key = None THEN 0 ELSE 2 + ForeignKeyLen(c.foreign_key))
    + (IF c.default = None THEN 0 ELSE 2 + Len(encode_value(c.default)))

SnapshotLen(s) ==
    1 + 1 + Len(s.name) + 1 + Len(s.primary_key) + 4
    + 2 + Sum([i \in DOMAIN s.columns |-> 2 + ColumnLen(s.columns[i])])
    + 2 + Sum([i \in DOMAIN s.indexes |-> 2 + IndexLen(s.indexes[i])])

validate_encoding(s) ==
    /\ FitsField(Len(s.name), U8Max)
    /\ FitsField(Len(s.primary_key), U8Max)
    /\ FitsField(Len(s.columns), MSizeMax)
    /\ \A i \in DOMAIN s.columns : ValidColumn(s.columns[i]) /\ FitsField(ColumnLen(s.columns[i]), MSizeMax)
    /\ FitsField(Len(s.indexes), MSizeMax)
    /\ \A i \in DOMAIN s.indexes : ValidIndex(s.indexes[i]) /\ FitsField(IndexLen(s.indexes[i]), MSizeMax)
    /\ FitsField(SnapshotLen(s), MSizeMax)

(***************************************************************************)
(* Decoding.  A nested part is decoded from its own bytes, and the cursor  *)
(* is moved by the length in front of them, not by what the part's decoder *)
(* consumed; an error of the part is an error of the whole.                *)
(***************************************************************************)
Sized(c, part) == IF part.c.ok THEN PastPayload(c, 2) ELSE Fail(c)

NameAt(c) == [v |-> Payload(c, 1), c |-> PastPayload(c, 1)]

decode_index(c) ==
    LET names == Repeat(Number(c, 1), Skip(c, 1), NameAt)
    IN  [v |-> [columns |-> names.v, unique |-> Number(names.c, 1) # 0], c |-> Skip(names.c, 1)]

decode_foreign_key(c) ==
    LET Key(table, column, tag) ==
          IF ~Skip(column.c, 1).ok \/ tag \notin DOMAIN OnDelete THEN [v |-> None, c |-> Fail(c)]
          ELSE [v |-> [table |-> table.v, column |-> column.v, on_delete |-> OnDelete[tag]],
                c |-> Skip(column.c, 1)]
        Tagged(table, column) == Key(table, column, Number(column.c, 1))
        Behind(table) == Tagged(table, NameAt(table.c))
    IN  Behind(NameAt(c))

\* The bytes a data type takes, which the decoder of a column works out on
\* its own before it hands them to the decoder of the type; 0 when the tag
\* of the layout is unknown or the header is cut off.
Header(c) == IF Number(Skip(c, 1), 1) = 1 THEN 6 ELSE IF Number(Skip(c, 1), 1) = 2 THEN 2 ELSE 0
DataTypeSpan(c) ==
    IF Number(c, 1) # CustomTag THEN 1
    ELSE IF Header(c) = 0 \/ ~Skip(c, Header(c) + 1).ok THEN 0
    ELSE Header(c) + 1 + Number(Skip(c, Header(c)), 1)

decode_data_type(c) ==
    LET tag == Number(c, 1)
        name == NameAt(Skip(c, Header(c)))
    IN  IF tag \in DOMAIN Tags THEN [v |-> SimpleType(Tags[tag]), c |-> Skip(c, 1)]
        ELSE IF tag # CustomTag \/ Header(c) = 0 THEN [v |-> None, c |-> Fail(c)]
        ELSE [v |-> CustomType(name.v, IF Header(c) = 2 THEN LengthPrefixed ELSE Some(Number(Skip(c, 2), 4))),
              c |-> name.c]

\* A part behind a flag: absent for the flag 0.
Optional(c, part) ==
    IF Number(c, 1) = 0 THEN [v |-> None, c |-> Skip(c, 1)]
    ELSE [v |-> part.v, c |-> Sized(Skip(c, 1), part)]
PartBehind(c) == Cursor(Payload(Skip(c, 1), 2))

Bit(n, i) == (n \div 2^i) % 2 = 1

\* The parts follow one another: each is decoded behind the one before.
decode_column(c) ==
    LET Column(name, span, type, flags, bits, fk, default) ==
          IF ~name.c.ok \/ span = 0 \/ ~flags.ok \/ ~type.c.ok THEN [v |-> None, c |-> Fail(c)]
          ELSE [v |-> [name |-> name.v, data_type |-> type.v, nullable |-> Bit(bits, 0),
                       auto_increment |-> Bit(bits, 1), unique |-> Bit(bits, 2), primary_key |-> Bit(bits, 3),
                       foreign_key |-> fk.v, default |-> default.v],
                c |-> default.c]
        BehindKey(name, span, type, flags, fk) ==
          Column(name, span, type, flags, Number(flags, 1), fk, Optional(fk.c, decode_value(PartBehind(fk.c))))
        BehindFlags(name, span, flags, rest) ==
          BehindKey(name, span, decode_data_type(Cursor(Take(name.c, span))), flags,
                    Optional(rest, decode_foreign_key(PartBehind(rest))))
        BehindType(name, span, flags) == BehindFlags(name, span, flags, Skip(flags, 1))
        BehindName(name, span) == BehindType(name, span, Skip(name.c, span))
        Behind(name) == BehindName(name, DataTypeSpan(name.c))
    IN  Behind(NameAt(c))

decode_snapshot(c) ==
    LET SizedPart(d, part) == [v |-> part.v, c |-> Sized(d, part)]
        ColumnAt(d) == SizedPart(d, decode_column(Cursor(Payload(d, 2))))
        IndexAt(d) == SizedPart(d, decode_index(Cursor(Payload(d, 2))))
        Snapshot(name, key, columns, indexes) ==
          IF Number(c, 1) # SCHEMA_SNAPSHOT_VERSION \/ ~indexes.c.ok THEN [v |-> None, c |-> Fail(c)]
          ELSE [v |-> [version |-> Number(c, 1), name |-> name.v, primary_key |-> key.v,
                       alignment |-> Number(key.c, 4), columns |-> columns.v, indexes |-> indexes.v],
                c |-> indexes.c]
        BehindColumns(name, key, columns) ==
          Snapshot(name, key, columns, Repeat(Number(columns.c, 2), Skip(columns.c, 2), IndexAt))
        BehindAlignment(name, key, body) ==
          BehindColumns(name, key, Repeat(Number(body, 2), Skip(body, 2), ColumnAt))
        BehindKey(name, key) == BehindAlignment(name, key, Skip(key.c, 4))
        Behind(name) == BehindKey(name, NameAt(name.c))
    IN  Behind(NameAt(Skip(c, 1)))

(***************************************************************************)
(* What the hash of a schema is computed from: the snapshots in the order  *)
(* of their names, each behind the length of its bytes.  The registry and  *)
(* the migration each have a function for it.                              *)
(***************************************************************************)
\* The order of strings, byte by byte.
NameLess(a, b) ==
    \/ \E i \in DOMAIN a \cap DOMAIN b : a[i] < b[i] /\ \A j \in 1..i - 1 : a[j] = b[j]
    \/ Len(a) < Len(b) /\ \A j \in DOMAIN a : a[j] = b[j]

Framed(s) == LET bytes == encode_snapshot(s) IN to_le_bytes(Len(bytes), 8) \o bytes

\* Mutant of StoredHashInput: the tables are hashed as the map is walked.
StoredHashInputUnsorted(snapshots) ==
    <<SCHEMA_SNAPSHOT_VERSION>> \o FlattenSeq(MapSeq(Framed, snapshots))

StoredHashInput(snapshots) ==
    <<SCHEMA_SNAPSHOT_VERSION>> \o
    FlattenSeq(MapSeq(Framed, SortSeq(snapshots, LAMBDA a, b : NameLess(a.name, b.name))))

CompiledHashInput(snapshots) ==
    <<SCHEMA_SNAPSHOT_VERSION>> \o
    FlattenSeq(MapSeq(Framed, SortSeq(snapshots, LAMBDA a, b : NameLess(a.name, b.name))))
=============================================================================
