----------------------------- MODULE JoinEngine -----------------------------
(***************************************************************************)
(* Join queries: hash joins from left to right over rows loaded with       *)
(* select, then filter, order, page and projection.                        *)
(*                                                                         *)
(* A join query is [from, joins, filter, order_by, limit, offset, columns] *)
(* with joins a sequence of [table, type, left, right]; columns are named  *)
(* by references <<table, column>>, the table "" when unqualified.         *)
(***************************************************************************)
EXTENDS QueryEngine

CONSTANT JoinQueries    \* bound: the joins to check

\* A joined row has, per side, the place of a row or Padded.
Padded == 0

NullRow(t) == [c \in DOMAIN Columns[t] |-> Null]

\* JoinSide::row.
SideRow(side, i) == IF i = Padded THEN NullRow(side.table) ELSE side.rows[i]

\* Mutant of load_join_right_rows: an outer join loads the matching rows too.
LoadMatchingRows(values, table, col, keepRight) ==
    IF values = {} THEN <<>>
    ELSE ReadRows(table, PlainSelect(Pred("In", col, values))).rows

\* load_join_right_rows: values are the distinct left keys; they are pushed
\* down when the column leads an index and the list is short enough.
load_join_right_rows(values, table, col, keepRight) ==
    LET leads == \E i \in DOMAIN Indexes[table] : Indexes[table][i][1] = col
        filter == IF keepRight THEN NoFilter
                  ELSE IF leads /\ Cardinality(values) <= MAX_ALTERNATIVES
                  THEN Pred("In", col, values) ELSE Pred("Ne", col, Null)
    IN  IF ~keepRight /\ values = {} THEN <<>>
        ELSE ReadRows(table, PlainSelect(filter)).rows

\* The left key of a row: NULL when its side is padded or there is no such
\* column in scope.
LeftValue(sides, row, ref) ==
    LET at == GroupsOf(ref[1], sides) IN
    IF at = {} \/ ref[2] \notin DOMAIN Columns[ref[1]] \/ row[First(at)] = Padded THEN Null
    ELSE sides[First(at)].rows[row[First(at)]][ref[2]]

\* hash_join: matches in left-row order, then the right rows nobody matched.
hash_join(sides, rows, ref, right, col, keepLeft, keepRight) ==
    LET MatchesOf(row) ==
            LET v == LeftValue(sides, row, ref) IN
            SelectSeq([j \in DOMAIN right.rows |-> j], LAMBDA j :
                v # Null /\ col \in DOMAIN right.rows[j] /\ right.rows[j][col] = v)
        Emit(row) ==
            LET found == MatchesOf(row) IN
            IF found # <<>> THEN [j \in DOMAIN found |-> Append(row, found[j])]
            ELSE IF keepLeft THEN <<Append(row, Padded)>> ELSE <<>>
        matched == UNION {Range(MatchesOf(rows[i])) : i \in DOMAIN rows}
        rest == SelectSeq([j \in DOMAIN right.rows |-> j], LAMBDA j : j \notin matched)
        padding == [s \in DOMAIN sides |-> Padded]
    IN  FlattenSeq([i \in DOMAIN rows |-> Emit(rows[i])])
            \o IF keepRight THEN [j \in DOMAIN rest |-> Append(padding, rest[j])] ELSE <<>>

\* An unqualified left column belongs to the FROM table (resolve_column_ref).
LeftRef(q, join) == IF join.left[1] = "" THEN <<q.from, join.left[2]>> ELSE join.left

JoinStep(q, acc, join) ==
    LET keepLeft == join.type \in {"left", "full"}
        keepRight == join.type \in {"right", "full"}
        ref == LeftRef(q, join)
        values == {LeftValue(acc.sides, acc.rows[i], ref) : i \in DOMAIN acc.rows} \ {Null}
        With(right) ==
            [sides |-> Append(acc.sides, right),
             rows |-> hash_join(acc.sides, acc.rows, ref, right, join.right, keepLeft, keepRight)]
    IN  With([table |-> join.table,
              rows |-> load_join_right_rows(values, join.table, join.right, keepRight)])

row_groups(sides, row) ==
    [s \in DOMAIN sides |-> [table |-> sides[s].table, row |-> SideRow(sides[s], row[s])]]

\* find_value: the first side in scope that has the column.
find_value(groups, ref) ==
    LET with == {s \in DOMAIN groups : /\ ref[1] \in {"", groups[s].table}
                                       /\ ref[2] \in DOMAIN groups[s].row}
    IN  IF with = {} THEN Missing ELSE groups[First(with)].row[ref[2]]

\* Mutant of sort_joined_rows: the direction is not looked at.
SortJoinedAscending(rows, ref, direction) ==
    StableSort(rows, LAMBDA a, b : SortsBefore(find_value(a, ref), find_value(b, ref), "asc"))

sort_joined_rows(rows, ref, direction) ==
    StableSort(rows, LAMBDA a, b : SortsBefore(find_value(a, ref), find_value(b, ref), direction))

\* selected_columns and materialize_row: a column is selected by its bare or
\* its qualified name.
SelectedRow(groups, columns) ==
    [s \in DOMAIN groups |->
        IF columns = All THEN groups[s].row
        ELSE [c \in {d \in DOMAIN groups[s].row :
                        <<"", d>> \in columns \/ <<groups[s].table, d>> \in columns} |-> groups[s].row[c]]]

Schema(t) == [c \in DOMAIN Columns[t] |-> <<Columns[t][c].type, 0>>]

\* The clauses from left to right.
RECURSIVE JoinSteps(_, _, _)
JoinSteps(q, acc, joins) ==
    IF joins = <<>> THEN acc ELSE JoinSteps(q, JoinStep(q, acc, Head(joins)), Tail(joins))

\* join: the whole query.
join(q) ==
    LET tables == <<q.from>> \o [i \in DOMAIN q.joins |-> q.joins[i].table]
        schemas == [i \in DOMAIN tables |-> [table |-> tables[i], row |-> Schema(tables[i])]]
        Start(rows) == [sides |-> <<[table |-> q.from, rows |-> rows]>>,
                        rows |-> [i \in DOMAIN rows |-> <<i>>]]
        Groups(joined) == [i \in DOMAIN joined.rows |-> row_groups(joined.sides, joined.rows[i])]
        Kept(groups) == IF q.filter = NoFilter THEN groups
                        ELSE SelectSeq(groups, LAMBDA g : matches_joined_row(q.filter, g) = "yes")
        Ordered(groups) ==
            FoldRight(LAMBDA key, acc : sort_joined_rows(acc, key[1], key[2]), q.order_by, groups)
        Chosen(page) == Answer([i \in DOMAIN page |-> SelectedRow(page[i], q.columns)])
        Finish(groups) ==
            IF q.filter # NoFilter /\ \E i \in DOMAIN groups :
                   matches_joined_row(q.filter, groups[i]) = "error" THEN Failed
            ELSE Chosen(Page(Ordered(Kept(groups)), q.offset, q.limit))
    IN  IF q.filter # NoFilter /\ ~validate_joined(q.filter, schemas) THEN Failed
        ELSE Finish(Groups(JoinSteps(q, Start(ReadRows(q.from, PlainSelect(NoFilter)).rows), q.joins)))

-----------------------------------------------------------------------------
(* Properties                                                              *)

\* The rows of one join clause by definition: pairs with equal keys, and the
\* padded rows of the sides the clause keeps.
JoinByDefinition(q, left, clause) ==
    LET right == Range(ReaderRows(clause.table))
        ref == LeftRef(q, clause)
        Key(groups) == LET v == Resolve(ref, groups) IN IF v \in {Missing, Invalid} THEN Null ELSE v
        Pairs(g, r) == clause.right \in DOMAIN r /\ Key(g) # Null /\ Key(g) = r[clause.right]
        Put(g, r) == Append(g, [table |-> clause.table, row |-> r])
        names == <<q.from>> \o [i \in DOMAIN q.joins |-> q.joins[i].table]
        Padding(n) == [i \in 1 .. n |-> [table |-> names[i], row |-> NullRow(names[i])]]
        depth == First({i \in DOMAIN q.joins : q.joins[i] = clause})
    IN  UNION {{Put(g, r) : r \in {s \in right : Pairs(g, s)}} : g \in left}
        \union (IF clause.type \in {"left", "full"}
                THEN {Put(g, NullRow(clause.table)) : g \in {h \in left : ~ \E r \in right : Pairs(h, r)}}
                ELSE {})
        \union (IF clause.type \in {"right", "full"}
                THEN {Put(Padding(depth), r) : r \in {s \in right : ~ \E g \in left : Pairs(g, s)}}
                ELSE {})

\* A combination sorts before another; a column that no table has is missing
\* in all of them.
JoinedBefore(a, b, order_by) ==
    \E k \in DOMAIN order_by :
        /\ SortsBefore(find_value(a, order_by[k][1]), find_value(b, order_by[k][1]), order_by[k][2])
        /\ \A j \in 1 .. k - 1 : find_value(a, order_by[j][1]) = find_value(b, order_by[j][1])

\* A join returns each combination of visible rows with equal keys once, and
\* an outer join the rows without a partner, whether the keys were pushed
\* down to an index, the right table was scanned, or a transaction has staged
\* changes.  A page of it has the right size, is sorted by all its keys, and
\* what sorts before one of its rows is before it on the page or was skipped
\* by the offset.
JoinIsExact ==
    KeysAreUnique => \A q \in JoinQueries :
        LET start == {<<[table |-> q.from, row |-> r]>> : r \in Range(ReaderRows(q.from))}
            all == FoldLeft(LAMBDA left, clause : JoinByDefinition(q, left, clause), start, q.joins)
            matching == IF q.filter = NoFilter THEN all
                        ELSE {g \in all : matches_joined_row(q.filter, g) = "yes"}
            Rows(g) == [s \in DOMAIN g |-> g[s].row]
            Combination(row) == [s \in DOMAIN row |->
                [table |-> IF s = 1 THEN q.from ELSE q.joins[s - 1].table, row |-> row[s]]]
            left == IF Cardinality(matching) <= q.offset THEN 0 ELSE Cardinality(matching) - q.offset
        IN  \A answer \in {join([q EXCEPT !.columns = All])} : answer.ok =>
            /\ Len(answer.rows) = IF q.limit # NoLimit /\ q.limit < left THEN q.limit ELSE left
            /\ Range(answer.rows) \subseteq {Rows(g) : g \in matching}
            /\ Cardinality(Range(answer.rows)) = Len(answer.rows)
            /\ \A i, j \in DOMAIN answer.rows : i < j =>
                  ~JoinedBefore(Combination(answer.rows[j]), Combination(answer.rows[i]), q.order_by)
            /\ \A i \in DOMAIN answer.rows :
                  Cardinality({g \in matching : JoinedBefore(g, Combination(answer.rows[i]), q.order_by)})
                      < q.offset + i

\* A filter that is accepted before the rows are read can be evaluated on
\* every joined row, padded ones included: whether a join fails does not
\* depend on the data.
AcceptedFiltersEvaluate ==
    \A q \in JoinQueries :
        LET tables == <<q.from>> \o [i \in DOMAIN q.joins |-> q.joins[i].table]
            schemas == [i \in DOMAIN tables |-> [table |-> tables[i], row |-> Schema(tables[i])]]
        IN  q.filter # NoFilter /\ validate_joined(q.filter, schemas) => join(q).ok
=============================================================================
