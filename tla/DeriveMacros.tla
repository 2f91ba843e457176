---------------------------- MODULE DeriveMacros ----------------------------
(***************************************************************************)
(* What the derive macros make of the declaration of a table and of a      *)
(* database: the metadata they collect and refuse, the schema the engine   *)
(* sees, the relations the foreign fetcher knows, and the dispatch of an   *)
(* operation on a table by its name.                                       *)
(*                                                                         *)
(* A declaration is a struct with its attributes:                          *)
(*   [table, alignment, hooks, fields], hooks being the defaults of        *)
(*   its Migrate implementation (column -> value);                         *)
(* a field is [name, type, nullable, attrs], and each of its attributes a  *)
(* record whose attr names the attribute.  A type is [kind], or a custom   *)
(* type [kind |-> "Custom", tag, layout], a struct of the built-in kinds   *)
(* in layout.  The name of a group of index columns is a number.           *)
(***************************************************************************)
EXTENDS SnapshotFormat, Sanitizers

MIN_ALIGNMENT == 8
RESERVED_WHERE_CLAUSE == <<U8Max>>

Attrs(field, kind) == SelectSeq(field.attrs, LAMBDA a : a.attr = kind)
Has(field, kind) == Attrs(field, kind) # <<>>

\* Every attribute of a kind with the name of its field, in the order of
\* the declaration.
Annotations(struct, kind) ==
    FlattenSeq([i \in DOMAIN struct.fields |->
                  MapSeq(LAMBDA a : [field |-> struct.fields[i].name, attr |-> a], Attrs(struct.fields[i], kind))])
FieldNames(annotations) == MapSeq(LAMBDA a : a.field, annotations)

(***************************************************************************)
(* Metadata of a table.                                                    *)
(***************************************************************************)
get_alignment(struct) == struct.alignment = None \/ struct.alignment[1] >= MIN_ALIGNMENT

\* Exactly one field is the primary key.
get_primary_key_field(struct) == FieldNames(Annotations(struct, "primary_key"))

get_unique_fields(struct) == FieldNames(Annotations(struct, "unique"))

\* Mutant: an index that repeats an earlier one is kept.
IndexesWithRepeats(struct) ==
    LET annotated == Annotations(struct, "index")
        Standalone == SelectSeq(annotated, LAMBDA a : a.attr.group = None)
    IN  MapSeq(LAMBDA name : <<name>>,
               get_primary_key_field(struct) \o get_unique_fields(struct) \o FieldNames(Standalone))

collect_indexes(struct) ==
    LET annotated == Annotations(struct, "index")
        Standalone == SelectSeq(annotated, LAMBDA a : a.attr.group = None)
        Group(g) == FieldNames(SelectSeq(annotated, LAMBDA a : a.attr.group = Some(g)))
        groups == {a.attr.group[1] : a \in ToSet(annotated) \ ToSet(Standalone)}
        all == MapSeq(LAMBDA name : <<name>>,
                      get_primary_key_field(struct) \o get_unique_fields(struct) \o FieldNames(Standalone))
               \o MapSeq(Group, SetToSortSeq(groups, <))
    IN  FoldLeft(LAMBDA seen, columns : IF columns \in ToSet(seen) THEN seen ELSE Append(seen, columns), <<>>, all)

\* Each of the three arguments of a foreign key is required.
Complete(fk) == fk.entity # None /\ fk.table # None /\ fk.column # None

collect_foreign_keys(struct) ==
    MapSeq(LAMBDA a : [entity |-> a.attr.entity[1], field |-> a.field,
                       referenced_table |-> a.attr.table[1], referenced_field |-> a.attr.column[1]],
           Annotations(struct, "foreign_key"))

collect_validates(field) == MapSeq(LAMBDA a : a.of, Attrs(field, "validate"))
collect_sanitizes(field) == MapSeq(LAMBDA a : a.of, Attrs(field, "sanitizer"))

parse_default(field) == Len(Attrs(field, "default")) <= 1
parse_renamed_from(field) ==
    LET found == Attrs(field, "renamed_from") IN Len(found) <= 1 /\ \A i \in DOMAIN found : found[i].names # <<>>

autoincrement(field) == Has(field, "autoincrement") => field.type.kind \in SignedTypes \cup UnsignedTypes

\* A field the macro accepts.  A custom type without its attribute would be
\* taken for a built-in one, which does not compile.
ValidField(field) ==
    /\ field.name # RESERVED_WHERE_CLAUSE
    /\ autoincrement(field) /\ ~(Has(field, "autoincrement") /\ field.nullable)
    /\ ~(Has(field, "custom_type") /\ Has(field, "foreign_key"))
    /\ Has(field, "custom_type") <=> field.type.kind = "Custom"
    /\ parse_default(field) /\ parse_renamed_from(field)

collect_table_metadata(struct) ==
    /\ get_alignment(struct)
    /\ struct.table # None
    /\ Len(get_primary_key_field(struct)) = 1
    /\ \A a \in ToSet(Annotations(struct, "foreign_key")) : Complete(a.attr)
    /\ \A i \in DOMAIN struct.fields : ValidField(struct.fields[i])

(***************************************************************************)
(* The derived encoding: its constants.  A size is None when dynamic.      *)
(***************************************************************************)
impl_size_const(sizes) ==
    IF \E i \in DOMAIN sizes : sizes[i] = None THEN None ELSE Some(Sum([i \in DOMAIN sizes |-> sizes[i][1]]))

KindSize(kind) == IF kind \in {"Text", "Blob"} THEN None ELSE Some(FixedSize(kind))
TypeSize(type) == IF type.kind = "Custom" THEN impl_size_const(MapSeq(KindSize, type.layout)) ELSE KindSize(type.kind)
FieldSize(field) == IF field.nullable THEN None ELSE TypeSize(field.type)

impl_alignment_const(struct) ==
    LET size == impl_size_const(MapSeq(FieldSize, struct.fields))
    IN  IF size # None THEN (IF size[1] = 0 THEN 1 ELSE size[1])
        ELSE IF struct.alignment # None THEN struct.alignment[1] ELSE DEFAULT_ALIGNMENT

\* A custom type of a dynamic size is taken to be length-prefixed.
from_data_size(type) ==
    IF type.kind = "Custom" THEN CustomType(type.tag, TypeSize(type)) ELSE SimpleType(type.kind)

(***************************************************************************)
(* The schema of a table.                                                  *)
(***************************************************************************)
foreign_key_def(struct, name) ==
    LET found == SelectSeq(collect_foreign_keys(struct), LAMBDA fk : fk.field = name)
    IN  IF found = <<>> THEN None
        ELSE [local_column |-> name, foreign_table |-> found[1].referenced_table,
              foreign_column |-> found[1].referenced_field]

default_expr(field) == IF Has(field, "default") THEN Attrs(field, "default")[1].value ELSE None
renamed_from_expr(field) == IF Has(field, "renamed_from") THEN Attrs(field, "renamed_from")[1].names ELSE <<>>

\* A primary key is unique.
column_def(struct, field) ==
    [name |-> field.name, data_type |-> from_data_size(field.type), nullable |-> field.nullable,
     auto_increment |-> Has(field, "autoincrement"),
     unique |-> Has(field, "unique") \/ Has(field, "primary_key"), primary_key |-> Has(field, "primary_key"),
     foreign_key |-> foreign_key_def(struct, field.name), default |-> default_expr(field),
     renamed_from |-> renamed_from_expr(field)]

generate_table_schema(struct) ==
    [name |-> struct.table[1], primary_key |-> get_primary_key_field(struct)[1],
     alignment |-> impl_alignment_const(struct),
     columns |-> MapSeq(LAMBDA field : column_def(struct, field), struct.fields),
     indexes |-> collect_indexes(struct)]

\* The chains of the field of that name; no chain leaves and accepts all.
FieldNamed(struct, name) == struct.fields[CHOOSE i \in DOMAIN struct.fields : struct.fields[i].name = name]
sanitizers(struct, name) == collect_sanitizes(FieldNamed(struct, name))
validators(struct, name) == collect_validates(FieldNamed(struct, name))

(***************************************************************************)
(* The foreign fetcher: the relation an arm is taken for, which says what  *)
(* table to select from and by which column.                               *)
(***************************************************************************)
\* Mutant: an arm is chosen by the table alone.
FetchByTable(struct, table, local_column) ==
    SelectSeq(collect_foreign_keys(struct), LAMBDA fk : fk.referenced_table = table)

\* The arms of impl_fetch and of impl_fetch_batch: the first one that
\* matches, and none for an unknown relation.
impl_fetch(struct, table, local_column) ==
    SelectSeq(collect_foreign_keys(struct), LAMBDA fk : fk.referenced_table = table /\ fk.field = local_column)

(***************************************************************************)
(* A database: the structs of its tables attribute, in order.  A name is   *)
(* compared with the name of each table, and none of them is TableNotFound *)
(* where the method can say so.                                            *)
(***************************************************************************)
Dispatch(database, name) == SelectSeq(database, LAMBDA struct : struct.table[1] = name)

table_columns(database, name) ==
    IF Dispatch(database, name) = <<>> THEN None ELSE Some(generate_table_schema(Dispatch(database, name)[1]).columns)
table_indexes(database, name) ==
    IF Dispatch(database, name) = <<>> THEN None ELSE Some(collect_indexes(Dispatch(database, name)[1]))
static_table_name(database, name) ==
    IF Dispatch(database, name) = <<>> THEN None ELSE Some(Dispatch(database, name)[1].table[1])

get_referenced_tables(database, target) ==
    LET Referring(struct) ==
          MapSeq(LAMBDA c : c.name,
                 SelectSeq(generate_table_schema(struct).columns,
                           LAMBDA c : c.foreign_key # None /\ c.foreign_key.foreign_table = target))
    IN  MapSeq(LAMBDA struct : [table |-> struct.table[1], columns |-> Referring(struct)],
               SelectSeq(database, LAMBDA struct : Referring(struct) # <<>>))

\* The table's own hook comes before the default of the column.
migrate_default(database, table, column) ==
    LET found == Dispatch(database, table)
        columns == SelectSeq(found[1].fields, LAMBDA f : f.name = column)
    IN  CASE found = <<>> -> None
          [] column \in DOMAIN found[1].hooks -> found[1].hooks[column]
          [] columns # <<>> -> default_expr(columns[1])
          [] OTHER -> None

renamed_from_dyn(database, table, column) ==
    LET found == Dispatch(database, table)
        columns == SelectSeq(found[1].fields, LAMBDA f : f.name = column)
    IN  IF found = <<>> \/ columns = <<>> THEN <<>> ELSE renamed_from_expr(columns[1])

compiled_snapshots(database) == MapSeq(LAMBDA struct : schema_snapshot(generate_table_schema(struct)), database)
=============================================================================
