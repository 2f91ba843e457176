---------------------------- MODULE MCMigration ----------------------------
(* Releases of a small application: users and their posts. *)
EXTENDS Migration, TLC

Column(name, type) ==
    [name |-> name, data_type |-> type, nullable |-> FALSE, unique |-> FALSE,
     auto_increment |-> FALSE, primary_key |-> FALSE, foreign_key |-> NoKey,
     default |-> NoDefault]

Index(columns, unique) == [columns |-> columns, unique |-> unique]

DefaultAlignment == 32

\* The alignment a release is compiled with: fixed-size records are aligned
\* to their size.
Table(columns, indexes) ==
    LET fixed == \A i \in DOMAIN columns : columns[i].data_type # "Text" /\ ~columns[i].nullable
        Add(sum, column) == sum + Width(column.data_type)
    IN  [primary_key |-> "id", columns |-> columns, indexes |-> indexes,
         alignment |-> IF fixed THEN FoldLeft(Add, 0, columns) ELSE DefaultAlignment]

Id == [Column("id", "Uint8") EXCEPT !.primary_key = TRUE, !.unique = TRUE,
                                    !.auto_increment = TRUE]
PlainId == [Id EXCEPT !.auto_increment = FALSE, !.data_type = "Uint16"]
IdIndex == Index(<<"id">>, TRUE)
Name == Column("name", "Text")
Rank0 == Column("rank", "Uint8")

Users(columns, indexes) == [users |-> Table(columns, indexes)]

\* The first release, and what later ones do to it.
First == Users(<<Id, Name, Rank0>>, <<IdIndex>>)
Widened == Users(<<Id, [Name EXCEPT !.name = "nick"], Column("rank", "Int16")>>,
                 <<IdIndex, Index(<<"rank", "nick">>, FALSE)>>)
Unique == Users(<<Id, [Name EXCEPT !.unique = TRUE], Rank0>>, <<IdIndex, Index(<<"name">>, TRUE)>>)
Grown == Users(<<Id, Name, Rank0, [Column("age", "Uint8") EXCEPT !.unique = TRUE,
                                     !.default = Value("Uint8", <<1>>)]>>,
               <<IdIndex, Index(<<"age">>, TRUE)>>)
Transformed == Users(<<Id, Name, Column("rank", "Text")>>, <<IdIndex>>)
Shrunk == Users(<<Id, Name>>, <<IdIndex>>)

Posts(author) == [posts |-> Table(<<PlainId, Column("body", "Text"), author>>, <<IdIndex>>)]
Author == Column("author", "Uint8")
WithPosts == Shrunk @@ Posts(Author)
WithAuthors == Shrunk @@ Posts([Author EXCEPT !.foreign_key = <<"users", "id">>])

UserReleases == {First, Widened, Unique, Grown, Transformed, Shrunk}
AllReleases == UserReleases \union {WithPosts, WithAuthors}

\* One program has handles of two of these schemas.
MCLinked(release) == IF release \in {First, Grown} THEN {First, Grown} \ {release} ELSE {}

\* A column that may be null from one release to the next.
Nullable == Users(<<Id, Name, [Rank0 EXCEPT !.nullable = TRUE]>>, <<IdIndex>>)
NullableReleases == {First, Nullable}

\* Tables of fixed-size columns.
FixedReleases == {Users(<<Id>>, <<IdIndex>>),
                  Users(<<Id, [Rank0 EXCEPT !.default = Value("Uint8", <<1>>)]>>, <<IdIndex>>)}

MCTableOrder == <<"posts", "users">>

MCRenamedFrom(t, column) ==
    CASE t = "users" /\ column = "nick" -> <<"name">>
      [] t = "users" /\ column = "name" -> <<"nick">>
      [] OTHER -> <<>>

MCDefaultHook(t, column) ==
    IF column = "rank" THEN Value("Uint8", <<2>>) ELSE NoDefault

\* Texts become their length, numbers a text; everything else is refused.
MCTransformHook(t, column, value) ==
    CASE value.type = "Uint8" -> Value("Text", value.v)
      [] value.type = "Text" /\ value.v # <<>> -> Value("Uint8", <<value.v[1]>>)
      [] OTHER -> Malformed

MCSamples(type) ==
    CASE type = "Uint8" -> {<<1>>, <<2>>}
      [] type = "Uint16" -> {<<5>>}
      [] type = "Int16" -> {<<0 - 3>>}
      [] type = "Text" -> {<<3>>}
=============================================================================
