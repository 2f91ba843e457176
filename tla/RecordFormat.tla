---------------------------- MODULE RecordFormat ----------------------------
(***************************************************************************)
(* A row between its request and its bytes: the typed requests and records *)
(* the macros generate for a table, the way of an insert and of an update  *)
(* through them, and the two readers of the stored bytes, the derived one  *)
(* of the compiled struct and the one of migrations, which follows the     *)
(* stored snapshot.                                                        *)
(*                                                                         *)
(* Values are passed around as a sequence of columns, each a name and a    *)
(* value; a row is the sequence of the values of the struct's fields.  A   *)
(* custom value stands for its encoding.                                   *)
(***************************************************************************)
EXTENDS DeriveMacros

Pair(name, value) == [name |-> name, value |-> value]

(***************************************************************************)
(* The derived Encode of a struct: the encodings of its fields, one behind *)
(* the other.  A nullable field is a flag and, when set, its value.        *)
(***************************************************************************)
encode_kind(value) == IF value.type \in {"Text", "Blob"} THEN encode_dynamic(value.v) ELSE encode_fixed(value.type, value.v)
decode_kind(kind, c) ==
    IF kind \in {"Text", "Blob"} THEN [v |-> Dynamic(kind, Payload(c, 2)), c |-> PastPayload(c, 2)]
    ELSE decode_fixed(kind, c)

\* A struct of built-in kinds, and its bytes again.
decode_layout(type, c) ==
    LET Then(read, one) == [v |-> read.v \o encode_kind(one.v), c |-> one.c]
        Read(read, kind) == IF read.c.ok THEN Then(read, decode_kind(kind, read.c)) ELSE read
        End(read) == [v |-> Custom(type.tag, read.v), c |-> read.c]
    IN  End(FoldLeft(Read, [v |-> <<>>, c |-> c], type.layout))

encode_typed(value) == IF value.type = "Custom" THEN value.v ELSE encode_kind(value)
decode_typed(type, c) == IF type.kind = "Custom" THEN decode_layout(type, c) ELSE decode_kind(type.kind, c)

encode_nullable(value) == IF value = Null THEN <<0>> ELSE <<1>> \o encode_typed(value)
decode_nullable(type, c) ==
    IF ~Skip(c, 1).ok THEN [v |-> Null, c |-> Fail(c)]
    ELSE IF Number(c, 1) = 0 THEN [v |-> Null, c |-> Skip(c, 1)] ELSE decode_typed(type, Skip(c, 1))
nullable_size(typed) == saturating_size(1, typed)

impl_encode(struct, row) ==
    FlattenSeq([i \in DOMAIN row |-> IF struct.fields[i].nullable THEN encode_nullable(row[i]) ELSE encode_typed(row[i])])

typed_size(value) == IF value.type \in {"Text", "Blob"} THEN saturating_size(2, Len(value.v)) ELSE Len(encode_typed(value))
impl_size(struct, row) ==
    AtMostMax(Sum([i \in DOMAIN row |-> IF row[i] = Null THEN 1
                                        ELSE IF struct.fields[i].nullable THEN nullable_size(typed_size(row[i]))
                                        ELSE typed_size(row[i])]), MSizeMax)

impl_decode(struct, c) ==
    LET Then(read, one) == [v |-> Append(read.v, one.v), c |-> one.c]
        Read(read, field) ==
          IF ~read.c.ok THEN read
          ELSE Then(read, IF field.nullable THEN decode_nullable(field.type, read.c) ELSE decode_typed(field.type, read.c))
    IN  FoldLeft(Read, [v |-> <<>>, c |-> c], struct.fields)

(***************************************************************************)
(* The record on its page: behind the length of its body, and padded to a  *)
(* multiple of its alignment.                                              *)
(***************************************************************************)
RawAlignment(struct) ==
    LET size == impl_size_const(MapSeq(FieldSize, struct.fields))
    IN  IF size = None THEN impl_alignment_const(struct) ELSE size[1] + 2

encode_raw(struct, row) == to_le_bytes(impl_size(struct, row), 2) \o impl_encode(struct, row)
decode_raw(struct, c) == impl_decode(struct, Cursor(Payload(c, 2)))

Footprint(bytes, alignment) == ((Len(bytes) + alignment - 1) \div alignment) * alignment

write_record(page, bytes, footprint) ==
    [i \in 1..PageSize |-> IF i <= Len(bytes) THEN bytes[i] ELSE IF i <= footprint THEN 0 ELSE page[i]]

(***************************************************************************)
(* What a migration reads: only the flags 0 and 1, and a custom value by   *)
(* the layout the snapshot gives it, whose tag it takes over.              *)
(***************************************************************************)
snapshot_typed(type, c) ==
    CASE type.kind # "Custom" -> decode_kind(type.kind, c)
      [] type.kind = "Custom" /\ type.wire_size = LengthPrefixed ->
           [v |-> Custom(type.tag, Take(c, 2 + Number(c, 2))), c |-> PastPayload(c, 2)]
      [] OTHER -> [v |-> Custom(type.tag, Take(c, type.wire_size[1])), c |-> Skip(c, type.wire_size[1])]

snapshot_column(column, c) ==
    IF ~column.nullable THEN snapshot_typed(column.data_type, c)
    ELSE IF ~Skip(c, 1).ok \/ Number(c, 1) > 1 THEN [v |-> Null, c |-> Fail(c)]
    ELSE IF Number(c, 1) = 0 THEN [v |-> Null, c |-> Skip(c, 1)] ELSE snapshot_typed(column.data_type, Skip(c, 1))

read_by_snapshot(snapshot, c) ==
    LET Then(read, one) == [v |-> Append(read.v, one.v), c |-> one.c]
        Read(read, column) == IF ~read.c.ok THEN read ELSE Then(read, snapshot_column(column, read.c))
    IN  FoldLeft(Read, [v |-> <<>>, c |-> Cursor(Payload(c, 2))], snapshot.columns)

(***************************************************************************)
(* Requests.  A column takes a value of its own type, a null only when it  *)
(* is nullable.  What a custom value carries is decoded and kept as the    *)
(* struct's own encoding; its tag is looked at by an update alone.         *)
(***************************************************************************)
Matches(field, value) ==
    IF field.type.kind = "Custom" THEN value.type = "Custom" /\ decode_layout(field.type, Cursor(value.v)).c.ok
    ELSE value.type = field.type.kind
Accepts(field, value) == Matches(field, value) \/ (field.nullable /\ value = Null)
Taken(field, value) == IF value.type = "Custom" THEN decode_layout(field.type, Cursor(value.v)).v ELSE value

\* The accepted values of a column.  Another one is passed over.
AcceptedFor(field, values) ==
    MapSeq(LAMBDA p : Taken(field, p.value),
           SelectSeq(values, LAMBDA p : p.name = field.name /\ Accepts(field, p.value)))

\* The last one counts.  A missing column is null if it may be, and left to
\* the engine if it is an autoincrement column.
InsertField(field, values) ==
    LET accepted == AcceptedFor(field, values)
    IN  IF accepted # <<>> THEN Some(Last(accepted)) ELSE IF field.nullable THEN Some(Null) ELSE None

InsertFromValues(struct, values) == MapSeq(LAMBDA field : InsertField(field, values), struct.fields)
MissingNonNullable(struct, request) ==
    \E i \in DOMAIN request : request[i] = None /\ ~Has(struct.fields[i], "autoincrement")

into_values(struct, request) ==
    FlattenSeq([i \in DOMAIN request |-> MapSeq(LAMBDA v : Pair(struct.fields[i].name, v), request[i])])

Resolved(request) == \A i \in DOMAIN request : request[i] # None
into_record(request) == MapSeq(LAMBDA v : v[1], request)

\* A value that does not fit ends an update.
UpdateMatches(field, value) ==
    (Matches(field, value) /\ (field.type.kind = "Custom" => value.tag = field.type.tag)) \/ (field.nullable /\ value = Null)
UpdateAccepts(struct, values) ==
    \A i \in DOMAIN struct.fields, j \in DOMAIN values :
      values[j].name = struct.fields[i].name => UpdateMatches(struct.fields[i], values[j].value)

update_values(struct, values) ==
    FlattenSeq([i \in DOMAIN struct.fields |->
                  LET given == AcceptedFor(struct.fields[i], values)
                  IN  IF given = <<>> THEN <<>> ELSE <<Pair(struct.fields[i].name, Last(given))>>])

to_values(struct, row) == [i \in DOMAIN row |-> Pair(struct.fields[i].name, row[i])]

(***************************************************************************)
(* The engine's part: the missing autoincrement columns come last, every   *)
(* value goes through its chain, and the result is checked.  Keys and      *)
(* references are left to the module TransactionEngine.                    *)
(***************************************************************************)
fill_auto_increment_values(struct, values, issued) ==
    values \o
    MapSeq(LAMBDA field : Pair(field.name, Fixed(field.type.kind, <<issued>>)),
           SelectSeq(struct.fields, LAMBDA f : Has(f, "autoincrement") /\ \A p \in ToSet(values) : p.name # f.name))

sanitize_value(struct, pair) == SanitizerChain(sanitizers(struct, pair.name), pair.value)
Sanitizes(struct, values) == \A p \in ToSet(values) : sanitize_value(struct, p).ok
sanitize_values(struct, values) == MapSeq(LAMBDA p : Pair(p.name, sanitize_value(struct, p).v), values)

check_non_nullable_fields(struct, values) ==
    \A f \in ToSet(struct.fields) : f.nullable \/ \E p \in ToSet(values) : p.name = f.name
check_column_validate(struct, values) ==
    \A p \in ToSet(values) : ValidatorChain(validators(struct, p.name), p.value)

patch(values, updates) ==
    MapSeq(LAMBDA p : LET new == SelectSeq(updates, LAMBDA u : u.name = p.name)
                      IN  IF new = <<>> THEN p ELSE Pair(p.name, Last(new).value), values)

\* The row that is stored, or nothing when a step refuses the values.  An
\* autoincrement column that is still missing would be a panic.
CheckedRow(struct, values, request) ==
    IF check_non_nullable_fields(struct, values) /\ check_column_validate(struct, values) /\ Resolved(request)
    THEN {into_record(request)} ELSE {}
TypedRow(struct, values) == CheckedRow(struct, values, InsertFromValues(struct, values))
SanitizedRow(struct, values) ==
    IF Sanitizes(struct, values) THEN TypedRow(struct, sanitize_values(struct, values)) ELSE {}

InsertedRow(struct, request, issued) ==
    IF MissingNonNullable(struct, request) THEN {}
    ELSE SanitizedRow(struct, fill_auto_increment_values(struct, into_values(struct, request), issued))

UpdatedRow(struct, row, updates) == SanitizedRow(struct, patch(to_values(struct, row), updates))

(***************************************************************************)
(* The record a query returns.  A foreign key is a record of its own, so   *)
(* its column is left out of both directions.                              *)
(***************************************************************************)
IsForeign(struct, name) == foreign_key_def(struct, name) # None

\* The fields of the record, None where it has no value.
RecordFromValues(struct, values) ==
    MapSeq(LAMBDA field : IF IsForeign(struct, field.name) \/ AcceptedFor(field, values) = <<>> THEN None
                          ELSE Some(Last(AcceptedFor(field, values))), struct.fields)

\* Mutant: the values are paired with all the columns.
RecordToValuesUnfiltered(struct, record) ==
    LET shown == SelectSeq([i \in DOMAIN record |-> i], LAMBDA i : ~IsForeign(struct, struct.fields[i].name))
    IN  [n \in DOMAIN shown |->
           Pair(struct.fields[n].name, IF record[shown[n]] = None THEN Null ELSE record[shown[n]][1])]

RecordToValues(struct, record) ==
    LET columns == SelectSeq(struct.fields, LAMBDA f : ~IsForeign(struct, f.name))
        shown == SelectSeq([i \in DOMAIN record |-> i], LAMBDA i : ~IsForeign(struct, struct.fields[i].name))
    IN  [n \in DOMAIN shown |-> Pair(columns[n].name, IF record[shown[n]] = None THEN Null ELSE record[shown[n]][1])]
=============================================================================
