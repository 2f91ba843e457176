----------------------------- MODULE Aggregates -----------------------------
(***************************************************************************)
(* Aggregate queries: WHERE and DISTINCT through select, then groups,      *)
(* aggregate functions, HAVING, ORDER BY and the page.                     *)
(*                                                                         *)
(* An aggregate query is [table, filter, distinct_by, group_by, aggs,      *)
(* having, order_by, limit, offset]; aggs is a sequence of <<function,     *)
(* column>>, the column "" in COUNT STAR.  The outputs are named by        *)
(* Output.  Decimals are counted in parts of Unit, so that the means of    *)
(* small groups are exact.                                                 *)
(***************************************************************************)
EXTENDS QueryEngine

CONSTANTS
    AggregateQueries,   \* bound: the aggregates to check
    Output              \* the names agg0, agg1, ...

AsDecimal(n) == <<Decimal, Unit * n>>

is_numeric_kind(type) == type \in {Decimal, Int32, Uint64}

\* value_to_decimal, in parts of Unit.
value_to_decimal(v) == IF v[1] = Decimal THEN v[2] ELSE Unit * v[2]

NonNull(rows, col) ==
    SelectSeq([i \in DOMAIN rows |-> ValueAt(rows[i], col)], LAMBDA v : ~is_null(v))

Total(values) == FoldLeft(LAMBDA acc, v : acc + value_to_decimal(v), 0, values)

\* min_max_column keeps the first of the best values.
Best(values, Beats(_, _)) ==
    IF values = <<>> THEN Null
    ELSE FoldLeft(LAMBDA cur, v : IF Beats(v, cur) THEN v ELSE cur, values[1], values)

\* Mutant of compute_aggregate: an average counts the rows with a NULL.
AggregateCountsNulls(rows, agg) ==
    LET values == NonNull(rows, agg[2]) IN
    CASE agg[1] = "count" -> <<Uint64, IF agg[2] = "" THEN Len(rows) ELSE Len(values)>>
      [] agg[1] = "sum" -> IF values = <<>> THEN Null ELSE <<Decimal, Total(values)>>
      [] agg[1] = "avg" -> IF values = <<>> THEN Null ELSE <<Decimal, Total(values) \div Len(rows)>>
      [] agg[1] = "min" -> Best(values, Less)
      [] agg[1] = "max" -> Best(values, LAMBDA a, b : Less(b, a))

\* One of compute_aggregates over the rows of a group.
compute_aggregate(rows, agg) ==
    LET values == NonNull(rows, agg[2]) IN
    CASE agg[1] = "count" -> <<Uint64, IF agg[2] = "" THEN Len(rows) ELSE Len(values)>>
      [] agg[1] = "sum" -> IF values = <<>> THEN Null ELSE <<Decimal, Total(values)>>
      [] agg[1] = "avg" -> IF values = <<>> THEN Null ELSE <<Decimal, Total(values) \div Len(values)>>
      [] agg[1] = "min" -> Best(values, Less)
      [] agg[1] = "max" -> Best(values, LAMBDA a, b : Less(b, a))

KeyOf(row, group_by) == [i \in DOMAIN group_by |-> ValueAt(row, group_by[i])]

\* group_rows: groups in first-seen order; without GROUP BY one group of all
\* rows, even of none.
group_rows(rows, group_by) ==
    LET keys == FoldLeft(LAMBDA acc, r : IF KeyOf(r, group_by) \in Range(acc) THEN acc
                                         ELSE Append(acc, KeyOf(r, group_by)), <<>>, rows)
    IN  IF group_by = <<>> THEN <<[keys |-> <<>>, rows |-> rows]>>
        ELSE [i \in DOMAIN keys |->
                [keys |-> keys[i], rows |-> SelectSeq(rows, LAMBDA r : KeyOf(r, group_by) = keys[i])]]

\* build_lookup: what HAVING and ORDER BY can name in an aggregated row.
build_lookup(row, group_by) ==
    LET Named(n) == IF \E j \in DOMAIN row.values : Output[j] = n
                    THEN row.values[First({j \in DOMAIN row.values : Output[j] = n})]
                    ELSE row.keys[First({i \in DOMAIN group_by : group_by[i] = n})]
    IN  [n \in Range(group_by) \union {Output[i] : i \in DOMAIN row.values} |-> Named(n)]

\* is_known_having_column.
Known(col, q) == col \in Range(q.group_by) \union {Output[i] : i \in DOMAIN q.aggs}

\* validate_group_by, validate_aggregates, validate_having_filter and
\* validate_order_by.
Valid(q) ==
    LET columns == Columns[q.table] IN
    /\ Range(q.group_by) \subseteq DOMAIN columns
    /\ \A i \in DOMAIN q.aggs :
          /\ q.aggs[i] = <<"count", "">> \/ q.aggs[i][2] \in DOMAIN columns
          /\ q.aggs[i][1] \in {"sum", "avg"} => is_numeric_kind(columns[q.aggs[i][2]].type)
    /\ q.having # NoFilter =>
          ~is_fallible(q.having) /\ \A c \in collect_filter_columns(q.having) : Known(c, q)
    /\ \A i \in DOMAIN q.order_by : Known(q.order_by[i][1], q)

\* filter_having and eval_filter.
HavingHolds(q, row) ==
    q.having = NoFilter \/ matches(q.having, build_lookup(row, q.group_by)) = "yes"

\* apply_order_by: the last key first.
apply_order_by(rows, q) ==
    LET At(r, col) == build_lookup(r, q.group_by)[col]
        ByKey(key, acc) == StableSort(acc, LAMBDA a, b : SortsBefore(At(a, key[1]), At(b, key[1]), key[2]))
    IN  FoldRight(ByKey, q.order_by, rows)

run_aggregate(q) ==
    LET base == [columns |-> All, distinct_by |-> q.distinct_by, eager |-> {},
                 filter |-> q.filter, order_by |-> <<>>, limit |-> NoLimit, offset |-> 0]
        Computed(groups) ==
            [i \in DOMAIN groups |->
                [keys |-> groups[i].keys,
                 values |-> [j \in DOMAIN q.aggs |-> compute_aggregate(groups[i].rows, q.aggs[j])]]]
        Kept(rows) == SelectSeq(rows, LAMBDA r : HavingHolds(q, r))
        Finish(read) ==
            IF ~read.ok THEN Failed
            ELSE Answer(Page(apply_order_by(Kept(Computed(group_rows(read.rows, q.group_by))), q),
                             q.offset, q.limit))
    IN  IF ~Valid(q) THEN Failed ELSE Finish(select_columns(q.table, base))

-----------------------------------------------------------------------------
(* Properties                                                              *)

\* What an aggregate means, over a set of rows.
AggregateByDefinition(rows, agg) ==
    LET present == {r \in rows : agg[2] # "" /\ r[agg[2]] # Null}
        sum == FoldSet(LAMBDA r, acc : acc + value_to_decimal(r[agg[2]]), 0, present)
        values == {r[agg[2]] : r \in present}
    IN  CASE agg = <<"count", "">> -> <<Uint64, Cardinality(rows)>>
          [] agg[1] = "count" /\ agg[2] # "" -> <<Uint64, Cardinality(present)>>
          [] present = {} -> Null
          [] agg[1] = "sum" -> <<Decimal, sum>>
          [] agg[1] = "avg" -> <<Decimal, sum \div Cardinality(present)>>
          [] agg[1] = "min" -> CHOOSE v \in values : \A w \in values : AtMost(v, w)
          [] agg[1] = "max" -> CHOOSE v \in values : \A w \in values : AtMost(w, v)

\* Without DISTINCT, an aggregate query returns one row per group of visible
\* matching rows that satisfies HAVING, with the values of its aggregates by
\* definition, in the order asked for; without GROUP BY exactly one row.
AggregatesAreExact ==
    KeysAreUnique => \A q \in AggregateQueries :
        LET rows == Range(Matching(ReaderRows(q.table), q.filter))
            keys == IF q.group_by = <<>> THEN {<<>>} ELSE {KeyOf(r, q.group_by) : r \in rows}
            Of(k) == {r \in rows : KeyOf(r, q.group_by) = k}
            groups == {[keys |-> k, values |-> [j \in DOMAIN q.aggs |-> AggregateByDefinition(Of(k), q.aggs[j])]] :
                            k \in keys}
            expected == {g \in groups : HavingHolds(q, g)}
            left == IF Cardinality(expected) <= q.offset THEN 0 ELSE Cardinality(expected) - q.offset
            Lookup(r) == build_lookup(r, q.group_by)
        IN  \A answer \in {run_aggregate(q)} : answer.ok /\ q.distinct_by = <<>> =>
            /\ Range(answer.rows) \subseteq expected
            /\ Len(answer.rows) = IF q.limit # NoLimit /\ q.limit < left THEN q.limit ELSE left
            /\ Cardinality(Range(answer.rows)) = Len(answer.rows)
            /\ \A i \in DOMAIN answer.rows :
                  Cardinality({g \in expected : BeforeIn(Lookup(g), Lookup(answer.rows[i]), q.order_by)})
                      < q.offset + i
=============================================================================
