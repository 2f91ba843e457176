--------------------------- MODULE MCStoredPages ---------------------------
(***************************************************************************)
(* A finite instance of StoredPages: a byte has 16 values, so that a name  *)
(* of 16 bytes is one too long, and a page has 256.                        *)
(***************************************************************************)
EXTENDS StoredPages

\* Names that differ in their first byte and in their length.
Name(first, len) == [i \in 1..len |-> IF i = 1 THEN first ELSE 3]

Column(name, type, flags, fk, default) ==
    [name |-> name, data_type |-> type, nullable |-> 1 \in flags, auto_increment |-> 2 \in flags,
     unique |-> 4 \in flags, primary_key |-> 8 \in flags, foreign_key |-> fk, default |-> default]
Key == Column(Name(1, 2), SimpleType("Uint16"), {2, 8}, None, None)
References(table, column) == [foreign_table |-> table, foreign_column |-> column]

Schema(name, columns, indexes) ==
    [name |-> name, primary_key |-> Key.name, alignment |-> 32, columns |-> columns, indexes |-> indexes]
OneTable(column) == Schema(Name(5, 1), <<Key, column>>, <<<<Key.name>>>>)

MCDefaults ==
    {Dynamic("Blob", <<0, 15>>), Fixed("Boolean", <<1>>), Fixed("Date", <<100, 12, 15>>),
     Fixed("Decimal", [i \in 1..16 |-> 16 - i]), Fixed("Uuid", [i \in 1..16 |-> i % 2]),
     Fixed("Int16", <<-128>>), Fixed("Int32", <<-1>>), Fixed("Uint32", <<65535>>)}

MCSchemas ==
    {Schema(Name(5, n), <<Key>>, <<>>) : n \in {0, 15, 16}}
    \cup {OneTable(Column(Name(2, n), SimpleType("Text"), {1}, None, Dynamic("Text", Name(4, m)))) :
            n \in {0, 15, 16}, m \in {0, 1, 200}}
    \cup {OneTable(Column(Name(2, 3), SimpleType("Int8"), flags, References(Name(6, n), Name(1, m)), default)) :
            flags \in {{}, {4}}, n \in {1, 15, 16}, m \in {0, 16}, default \in {None, Fixed("Int8", <<-8>>)}}
    \cup {OneTable(Column(Name(2, 1), CustomType(Name(7, n), size), {1, 4}, None, default)) :
            n \in {1, 16}, size \in {LengthPrefixed, Some(0), Some(300)}, default \in {None, Custom(Name(7, 1), Name(8, 2)), Null}}
    \cup {Schema(Name(5, 1), <<Key, Column(Name(2, 1), SimpleType("DateTime"), {4}, None, default)>>, indexes) :
            default \in {None, Fixed("DateTime", <<100, 12, 5, 3, 4, 5, 999, -60>>)},
            indexes \in {<<>>, <<<<Name(2, 1)>>>>, <<<<Name(2, 1), Key.name>>, <<Name(2, 1)>>>>,
                         <<[i \in 1..16 |-> Name(2, 1)]>>, <<<<Name(2, 16)>>>>}}
    \cup {Schema(Name(5, 1), [i \in 1..n |-> Column(Name(i % 16, 2), SimpleType("Date"), {}, None, None)], <<>>) :
            n \in {25, 26, 27}}
    \cup {OneTable(Column(Name(2, 1), SimpleType(value.type), {}, None, value)) : value \in MCDefaults}

\* A name before the others, one that a name of the others starts with, one
\* behind them, and a table that has the contents of one of them.
MCNeighbours ==
    {Schema(Name(4, 3), <<Key>>, <<>>), Schema(Name(5, 2), <<Key>>, <<>>),
     [OneTable(Column(Name(2, 1), SimpleType("Int16"), {}, None, Fixed("Int16", <<-128>>))) EXCEPT !.name = Name(6, 1)]}

MCTables ==
    [f \in {1, 4095, 65535} |-> IF f = 1 THEN <<2, 3, 4, 5, None>> ELSE <<f, 0, 255, 1, Some(IF f = 4095 THEN 0 ELSE 65534)>>]

MCPageTables ==
    {[i \in 1..n |-> [page |-> 1 + i, free |-> IF i = n THEN 256 ELSE 1]] : n \in {0, 1, 2, 20, 21, 22}}

\* One page and one segment more than there is room for.
MCSegmentPages == [i \in 1..64 |-> 65536 - i]
MCSegmentLists ==
    {[i \in 1..n |-> [page |-> 65535, offset |-> 32 * (i % 8), size |-> 255]] : n \in {0, 1, 2, 30, 31, 32}}

MCIndexKeys == {{<<Name(1, 1)>>}, {<<Name(1, 15)>>, <<Name(1, 1), Name(2, 1)>>}, {<<Name(1, 16)>>}, {<<>>, <<Name(3, 2)>>}}
MCRootPages == {7, 4096}

MCCounterColumns ==
    {<<[name |-> Name(1, n), type |-> t]>> : n \in {1, 15, 16}, t \in {"Int8", "Uint16", "Text"}}
    \cup {[i \in 1..n |-> [name |-> <<i - 1, 2>>, type |-> "Uint8"]] : n \in {2, 16}}

\* Every order of a few keys; one of the many counters of a large table.
MCOrders(keys) ==
    IF Cardinality(keys) <= 3 THEN SetToSeqs(keys) ELSE {[i \in 1..Cardinality(keys) |-> CHOOSE k \in keys : k[1] = i - 1]}

IndexKey(n, m) == <<Fixed("Int16", <<n>>), Fixed("Uint8", <<m>>)>>
NodeKeys == <<IndexKey(-128, 0), IndexKey(-1, 2), IndexKey(-1, 3), IndexKey(0, 0), IndexKey(127, 15)>>
SomeKeys == {s \in SUBSET (1..5) : Cardinality(s) <= 3}
Entries(keys, To(_)) == LET sorted == SetToSortSeq(keys, <) IN [i \in DOMAIN sorted |-> [key |-> NodeKeys[sorted[i]], to |-> To(sorted[i])]]

MCNodes ==
    {Leaf(parent, Entries(keys, LAMBDA i : Pointer(i, 255)), prev, Some(6)) :
       keys \in SomeKeys, parent \in {None, Some(9)}, prev \in {None, Some(0)}}
    \cup {Internal(None, Entries(keys, LAMBDA i : 10 + i), 20) : keys \in SomeKeys}
    \cup {Leaf(Some(9), [i \in 1..n |-> [key |-> IndexKey(i, 1), to |-> Pointer(1, i)]], None, None) : n \in 8..12}

(***************************************************************************)
(* Declarations.  Notes refers to Words by two of its columns, and the      *)
(* macro refuses each of the last ones for a reason of its own.            *)
(***************************************************************************)
Attr(what) == [attr |-> what]
IndexAttr(group) == [attr |-> "index", group |-> group]
Default(value) == [attr |-> "default", value |-> value]
RenamedFrom(names) == [attr |-> "renamed_from", names |-> names]
Refers(table, column) == [attr |-> "foreign_key", entity |-> Some("Words"), table |-> table, column |-> column]
Sanitizer(what) == [attr |-> "sanitizer", of |-> [kind |-> what]]
Clamps(what, min, max) == [attr |-> "sanitizer", of |-> [kind |-> what, min |-> min, max |-> max]]
Zoned(minutes) == [attr |-> "sanitizer", of |-> [kind |-> "Timezone", offset |-> minutes]]
Validates(what) == [attr |-> "validate", of |-> [kind |-> what]]
Strlens(min, max) == [attr |-> "validate", of |-> [kind |-> "Strlen", min |-> min, max |-> max]]

NotNull(name, what, attrs) == [name |-> name, type |-> [kind |-> what], nullable |-> FALSE, attrs |-> attrs]
Nullable(name, what, attrs) == [name |-> name, type |-> [kind |-> what], nullable |-> TRUE, attrs |-> attrs]
CustomField(name, layout, nullable, attrs) ==
    [name |-> name, type |-> [kind |-> "Custom", tag |-> Name(7, 2), layout |-> layout], nullable |-> nullable, attrs |-> attrs]
Struct(table, alignment, hooks, fields) == [table |-> table, alignment |-> alignment, hooks |-> hooks, fields |-> fields]

Id == NotNull(<<1>>, "Uint16", <<Attr("primary_key"), Attr("autoincrement")>>)
NoHooks == <<>>

Words ==
    Struct(Some(<<11>>), None, NoHooks,
      <<NotNull(<<2>>, "Text", <<Attr("primary_key"), Sanitizer("Trim"), Sanitizer("LowerCase"), Strlens(1, 3), Validates("KebabCase")>>),
        Nullable(<<3>>, "Text", <<Attr("unique"), IndexAttr(None), Sanitizer("Trim"), Sanitizer("NullIfEmpty")>>),
        NotNull(<<4>>, "Text", <<Sanitizer("CollapseWhitespace"), Sanitizer("Slug"), IndexAttr(Some(2)), RenamedFrom(<<<<9>>, <<8>>>>)>>),
        NotNull(<<5>>, "Text", <<Validates("SnakeCase")>>)>>)

Numbers ==
    Struct(Some(<<12>>), Some(16), <<>>,
      <<Id,
        NotNull(<<5>>, "Int8", <<Clamps("Clamp", -100, 3), Default(Fixed("Int8", <<1>>)), IndexAttr(Some(3))>>),
        NotNull(<<6>>, "Uint8", <<Clamps("ClampUnsigned", 2, 300), IndexAttr(Some(1)), IndexAttr(Some(3))>>),
        Nullable(<<8>>, "DateTime", <<Zoned(-60)>>)>>)

Notes ==
    Struct(Some(<<13>>), None, (<<2>> :> Dynamic("Text", <<5>>)),
      <<NotNull(<<2>>, "Text", <<Refers(Some(<<11>>), Some(<<2>>)), Default(Dynamic("Text", <<6>>)), Sanitizer("UpperCase"), Validates("CamelCase")>>),
        Id,
        Nullable(<<3>>, "Text", <<Refers(Some(<<11>>), Some(<<3>>)), Sanitizer("UpperCase")>>),
        CustomField(<<7>>, <<"Uint8", "Int16">>, FALSE, <<Attr("custom_type")>>),
        CustomField(<<6>>, <<"Text">>, TRUE, <<Attr("custom_type"), Attr("unique")>>),
        NotNull(<<4>>, "Text", <<Sanitizer("UrlEncoding"), Strlens(0, 5)>>)>>)

Refused ==
    <<Struct(None, None, NoHooks, <<Id>>),
      Struct(Some(<<14>>), Some(7), NoHooks, <<Id>>),
      Struct(Some(<<14>>), None, NoHooks, <<NotNull(<<2>>, "Text", <<>>)>>),
      Struct(Some(<<14>>), None, NoHooks, <<Id, NotNull(<<2>>, "Text", <<Attr("primary_key")>>)>>),
      Struct(Some(<<14>>), None, NoHooks, <<Id, NotNull(<<2>>, "Text", <<Refers(Some(<<11>>), None)>>)>>),
      Struct(Some(<<14>>), None, NoHooks, <<Id, CustomField(<<2>>, <<"Uint8">>, FALSE, <<Attr("custom_type"), Refers(Some(<<11>>), Some(<<2>>))>>)>>),
      Struct(Some(<<14>>), None, NoHooks, <<NotNull(<<1>>, "Text", <<Attr("primary_key"), Attr("autoincrement")>>)>>),
      Struct(Some(<<14>>), None, NoHooks, <<Id, NotNull(<<2>>, "Text", <<RenamedFrom(<<>>)>>)>>)>>

MCDeclarations == <<Words, Numbers, Notes>> \o Refused

(***************************************************************************)
(* Requests: a full row, the row with a column left out, the row with a    *)
(* second value for one of its columns, and that value alone.  Some are of *)
(* another type, null, or cut off.                                         *)
(***************************************************************************)
Text(bytes) == Dynamic("Text", bytes)
When(year, month, day, hour, minute, offset) == Fixed("DateTime", <<year, month, day, hour, minute, 7, 9, offset>>)

RowOf(struct) ==
    CASE struct = Words -> <<Pair(<<2>>, Text(<<1, 8, 5, 1>>)), Pair(<<3>>, Text(<<5>>)), Pair(<<4>>, Text(<<9, 1, 1, 2, 5>>)),
                             Pair(<<5>>, Text(<<4, 12>>))>>
      [] struct = Numbers -> <<Pair(<<5>>, Fixed("Int8", <<-8>>)), Pair(<<6>>, Fixed("Uint8", <<0>>)),
                               Pair(<<8>>, When(1, 1, 1, 0, 30, 0))>>
      [] struct = Notes -> <<Pair(<<2>>, Text(<<5>>)), Pair(<<1>>, Fixed("Uint16", <<255>>)), Pair(<<7>>, Custom(Name(7, 2), <<15, 0, 8>>)),
                             Pair(<<4>>, Text(<<2>>))>>

Others(struct) ==
    CASE struct = Words -> {Pair(<<2>>, Text(<<1>>)), Pair(<<2>>, Text(<<5, 8, 3, 5>>)), Pair(<<2>>, Text(<<7>>)), Pair(<<3>>, Text(<<1, 1>>)), Pair(<<3>>, Null),
                            Pair(<<3>>, Fixed("Uint8", <<3>>)), Pair(<<4>>, Text(<<>>)), Pair(<<4>>, Null), Pair(<<5>>, Text(<<5, 8>>))}
      [] struct = Numbers -> {Pair(<<5>>, Fixed("Int8", <<7>>)), Pair(<<6>>, Fixed("Uint8", <<15>>)), Pair(<<6>>, Fixed("Uint16", <<4>>)), Pair(<<8>>, Null),
                              Pair(<<8>>, When(0, 1, 1, 0, 30, 0)), Pair(<<8>>, When(2000, 3, 1, 0, 59, 0)), Pair(<<8>>, When(2001, 1, 1, 0, 0, 0)),
                              Pair(<<8>>, When(1900, 2, 29, 0, 0, 0)), Pair(<<8>>, When(4, 12, 31, 23, 0, -120)), Pair(<<8>>, When(5, 13, 1, 0, 0, 0))}
      [] struct = Notes -> {Pair(<<2>>, Text(<<5, 1>>)), Pair(<<3>>, Text(<<5, 2>>)), Pair(<<6>>, Custom(Name(7, 2), encode_dynamic(<<9, 9>>))), Pair(<<6>>, Custom(Name(6, 1), encode_dynamic(<<>>))),
                            Pair(<<7>>, Custom(Name(7, 2), <<15, 0>>)), Pair(<<4>>, Text(<<8>>))}

MCRequests(struct) ==
    {RowOf(struct)}
    \cup {RemoveAt(RowOf(struct), i) : i \in DOMAIN RowOf(struct)}
    \cup {Append(RowOf(struct), pair) : pair \in Others(struct)}
    \cup {<<pair>> : pair \in Others(struct)}

MCIssuedNumbers == {0, 255}
=============================================================================
