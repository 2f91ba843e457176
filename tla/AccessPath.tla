----------------------------- MODULE AccessPath -----------------------------
(***************************************************************************)
(* From a filter to the records worth reading: the access-path planner,    *)
(* the single-column planner kept for filters that can fail, the index     *)
(* reader, and the execution of a path under a budget.                     *)
(*                                                                         *)
(* An index is the sequence of its columns.  A path is [kind, scan] for    *)
(* one key range, or [kind, paths] for unions and intersections.           *)
(***************************************************************************)
EXTENDS Filters, FiniteSets, SequencesExt

CONSTANTS
    MAX_ALTERNATIVES,       \* ranges one path may read
    SCAN_BUDGET,            \* addresses one range may produce
    TOTAL_BUDGET,           \* addresses one plan may produce
    SMALL_CANDIDATE_SET     \* an intersection this small is read as it is

None == <<0, 2>>
NoBounds == <<>>
Unbounded == [b |-> "unbounded", v |-> Null]
Included(v) == [b |-> "included", v |-> v]
Excluded(v) == [b |-> "excluded", v |-> v]

AdmitsLower(bound, v) ==
    CASE bound.b = "unbounded" -> TRUE
      [] bound.b = "included" -> AtMost(bound.v, v)
      [] bound.b = "excluded" -> Less(bound.v, v)

AdmitsUpper(bound, v) ==
    CASE bound.b = "unbounded" -> TRUE
      [] bound.b = "included" -> AtMost(v, bound.v)
      [] bound.b = "excluded" -> Less(v, bound.v)

Sorted(values) == SetToSortSeq(values, Less)

-----------------------------------------------------------------------------
(* Index scans: an equality prefix and bounds on the next column.          *)

Scan(columns, prefix, lower, upper) ==
    [columns |-> columns, prefix |-> prefix, lower |-> lower, upper |-> upper]

is_exact(scan) == Len(scan.prefix) >= Len(scan.columns)

\* matches_row: the visible key of a row lies in the scan.
ScanMatchesRow(scan, row) ==
    /\ \A i \in 1 .. Len(scan.prefix) :
          scan.columns[i] \in DOMAIN row /\ row[scan.columns[i]] = scan.prefix[i]
    /\ is_exact(scan) \/ LET c == scan.columns[Len(scan.prefix) + 1] IN
          c \in DOMAIN row /\ AdmitsLower(scan.lower, row[c]) /\ AdmitsUpper(scan.upper, row[c])

\* Columns whose change can move a row into the scan.
constrained_columns(scan) ==
    LET range == scan.lower.b # "unbounded" \/ scan.upper.b # "unbounded"
        depth == Len(scan.prefix) + IF range THEN 1 ELSE 0
    IN  {scan.columns[i] : i \in {j \in 1 .. Len(scan.columns) : j <= depth}}

\* The key the cursor starts from: a shorter key sorts before its extensions.
seek_key(scan) ==
    IF scan.lower.b = "unbounded" THEN scan.prefix ELSE Append(scan.prefix, scan.lower.v)

\* Lexicographic order of keys.
KeyLess(a, b) ==
    \/ \E i \in DOMAIN a \cap DOMAIN b :
          /\ Less(a[i], b[i]) /\ \A j \in 1 .. i - 1 : a[j] = b[j]
    \/ Len(a) < Len(b) /\ \A j \in DOMAIN a : a[j] = b[j]

\* An index on a table holds one entry per record, in key order.
index_key(columns, row) == [i \in DOMAIN columns |-> row[columns[i]]]

EntryLess(a, b) == KeyLess(a.key, b.key) \/ (a.key = b.key /\ a.addr < b.addr)

Entries(columns, table) ==
    SetToSortSeq({[key |-> index_key(columns, table[a]), addr |-> a] : a \in DOMAIN table}, EntryLess)

\* Mutant of for_each_entry: the cursor stops below the lower bound.
ForEachEntryStops(scan, table) ==
    LET entries == SelectSeq(Entries(scan.columns, table), LAMBDA e : ~KeyLess(e.key, seek_key(scan)))
        depth == Len(scan.prefix)
        Ends(e) == \/ SubSeq(e.key, 1, depth) # scan.prefix
                   \/ ~AdmitsLower(scan.lower, e.key[depth + 1])
                   \/ ~AdmitsUpper(scan.upper, e.key[depth + 1])
        stops == {i \in DOMAIN entries : Ends(entries[i])}
    IN  IF is_exact(scan) THEN SelectSeq(Entries(scan.columns, table), LAMBDA e : e.key = scan.prefix)
        ELSE SubSeq(entries, 1, IF stops = {} THEN Len(entries) ELSE First(stops) - 1)

\* for_each_entry: the cursor walks from the seek key, skips what is below
\* the lower bound, and stops when the prefix changes or above the upper one.
for_each_entry(scan, table) ==
    LET entries == SelectSeq(Entries(scan.columns, table), LAMBDA e : ~KeyLess(e.key, seek_key(scan)))
        depth == Len(scan.prefix)
        Below(e) == ~AdmitsLower(scan.lower, e.key[depth + 1])
        Ends(e) == \/ SubSeq(e.key, 1, depth) # scan.prefix
                   \/ ~Below(e) /\ ~AdmitsUpper(scan.upper, e.key[depth + 1])
        stops == {i \in DOMAIN entries : Ends(entries[i])}
        read == IF stops = {} THEN entries ELSE SubSeq(entries, 1, First(stops) - 1)
    IN  IF is_exact(scan) THEN SelectSeq(Entries(scan.columns, table), LAMBDA e : e.key = scan.prefix)
        ELSE SelectSeq(read, LAMBDA e : ~Below(e))

-----------------------------------------------------------------------------
(* Paths                                                                   *)

ScanPath(scan) == [kind |-> "scan", scan |-> scan]
Composed(kind, paths) == [kind |-> kind, paths |-> paths]
Empty == Composed("empty", <<>>)
NoPath == Composed("none", <<>>)

RECURSIVE matches_row(_, _)
matches_row(path, row) ==
    CASE path.kind = "empty" -> FALSE
      [] path.kind = "scan" -> ScanMatchesRow(path.scan, row)
      [] path.kind = "union" -> \E i \in DOMAIN path.paths : matches_row(path.paths[i], row)
      [] path.kind = "intersection" -> \A i \in DOMAIN path.paths : matches_row(path.paths[i], row)

RECURSIVE collect_constrained_columns(_)
collect_constrained_columns(path) ==
    CASE path.kind = "scan" -> constrained_columns(path.scan)
      [] path.kind = "empty" -> {}
      [] OTHER -> UNION {collect_constrained_columns(path.paths[i]) : i \in DOMAIN path.paths}

RECURSIVE scan_count(_)
scan_count(path) ==
    CASE path.kind = "scan" -> 1
      [] path.kind = "empty" -> 0
      [] OTHER -> FoldLeft(LAMBDA n, p : n + scan_count(p), 0, path.paths)

from_scans(scans) ==
    CASE scans = <<>> -> Empty
      [] Len(scans) = 1 -> ScanPath(scans[1])
      [] OTHER -> Composed("union", [i \in DOMAIN scans |-> ScanPath(scans[i])])

-----------------------------------------------------------------------------
(* What a conjunction says of one column                                   *)

Unconstrained ==
    [eq |-> None, in_list |-> {None}, not_null |-> FALSE, lower |-> Unbounded, upper |-> Unbounded]

Contradiction == [Unconstrained EXCEPT !.in_list = {}]

\* stricter, for lower bounds (tighter is greater) and upper bounds.
StricterLower(cur, new) ==
    IF cur.b = "unbounded" \/ (new.b # "unbounded" /\ Less(cur.v, new.v)) THEN new
    ELSE IF new.b = "unbounded" \/ Less(new.v, cur.v) \/ cur.b = "excluded" THEN cur ELSE new

StricterUpper(cur, new) ==
    IF cur.b = "unbounded" \/ (new.b # "unbounded" /\ Less(new.v, cur.v)) THEN new
    ELSE IF new.b = "unbounded" \/ Less(cur.v, new.v) \/ cur.b = "excluded" THEN cur ELSE new

\* ColumnConstraint::apply, with the predicates collect maps to updates.
apply(c, f) ==
    CASE f.op \in {"Eq", "IsNull"} ->
            LET v == IF f.op = "IsNull" THEN Null ELSE f.val IN
            IF c.eq # None /\ c.eq # v THEN Contradiction ELSE [c EXCEPT !.eq = v]
      [] f.op = "In" -> [c EXCEPT !.in_list = IF @ = {None} THEN f.val ELSE @ \cap f.val]
      [] f.op = "NotNull" -> [c EXCEPT !.not_null = TRUE]
      [] f.op = "Ge" -> [c EXCEPT !.lower = StricterLower(@, Included(f.val))]
      [] f.op = "Gt" -> [c EXCEPT !.lower = StricterLower(@, Excluded(f.val))]
      [] f.op = "Le" -> [c EXCEPT !.upper = StricterUpper(@, Included(f.val))]
      [] f.op = "Lt" -> [c EXCEPT !.upper = StricterUpper(@, Excluded(f.val))]
      [] OTHER -> c

admits(c, v) == AdmitsLower(c.lower, v) /\ AdmitsUpper(c.upper, v)

is_empty_interval(lower, upper) ==
    /\ lower.b # "unbounded" /\ upper.b # "unbounded"
    /\ IF lower.b = "included" /\ upper.b = "included" THEN Less(upper.v, lower.v)
       ELSE AtMost(upper.v, lower.v)

\* normalize: the simplest form, or Contradiction when nothing can match.
normalize(c) ==
    LET list == {v \in c.in_list \ {None} : admits(c, v) /\ ~(c.not_null /\ is_null(v))}
        eq == IF c.eq = None /\ c.in_list # {None} /\ Cardinality(list) = 1
              THEN CHOOSE v \in list : TRUE ELSE c.eq
        refuted == \/ c.in_list # {None} /\ (list = {} \/ (c.eq # None /\ c.eq \notin list))
                   \/ eq # None /\ (~admits(c, eq) \/ (c.not_null /\ is_null(eq)))
                   \/ eq = None /\ is_empty_interval(c.lower, c.upper)
    IN  IF refuted THEN Contradiction
        ELSE IF eq # None THEN [Unconstrained EXCEPT !.eq = eq, !.not_null = c.not_null]
        ELSE [c EXCEPT !.in_list = IF @ = {None} THEN @ ELSE list]

IsPredicate(f) == f.op \notin {"And", "Or", "Not"}

\* ColumnConstraints::collect, for one column of the conjunction.
ConstraintOn(col, conjuncts) ==
    LET on == SelectSeq(conjuncts, LAMBDA f : IsPredicate(f) /\ f.col = col)
        Narrow(c, f) == IF c = Contradiction THEN c ELSE apply(c, f)
        collected == FoldLeft(Narrow, Unconstrained, on)
    IN  IF collected = Contradiction THEN Contradiction ELSE normalize(collected)

\* Bounds that hold every value of a type but NULL, or NoBounds: types declared
\* before Null sort below it, the others start at their smallest value.
not_null_bounds(type) ==
    IF type < Null[1] THEN <<Unbounded, Excluded(Null)>>
    ELSE IF type = Uuid THEN NoBounds
    ELSE <<Included(<<type, 0>>), Unbounded>>

\* range_bounds of a column, or NoBounds.  defs are the columns of the table.
range_bounds(c, col, defs) ==
    IF c.lower.b # "unbounded" \/ c.upper.b # "unbounded" THEN <<c.lower, c.upper>>
    ELSE IF c.not_null /\ defs[col].nullable THEN not_null_bounds(defs[col].type)
    ELSE NoBounds

-----------------------------------------------------------------------------
(* The access-path planner                                                 *)

RECURSIVE flatten(_, _)
flatten(op, f) == IF f.op = op THEN flatten(op, f.l) \o flatten(op, f.r) ELSE <<f>>

\* Rank, cheapest first.
UniqueExact == 1
CompositeExact == 2
Prefix == 3
RangeRank == 4
UnionRank == 5
NotNullRank == 6

\* How far the constraints follow the columns of an index: the prefixes, the
\* columns used, the bounds that ended the walk, and whether they come from
\* IS NOT NULL alone.  An index_candidate step per column.
Extend(walk, col, c, defs) ==
    LET used == Append(walk.used, col)
        bounds == range_bounds(c, col, defs)
    IN  CASE walk.done -> walk
          [] c.eq # None ->
               [walk EXCEPT !.prefixes = [i \in DOMAIN @ |-> Append(@[i], c.eq)], !.used = used]
          [] c.eq = None /\ c.in_list # {None} ->
               IF Len(walk.prefixes) * Cardinality(c.in_list) > MAX_ALTERNATIVES
               THEN [walk EXCEPT !.done = TRUE]
               ELSE [walk EXCEPT !.used = used, !.prefixes = FlattenSeq(
                        [i \in DOMAIN @ |-> LET p == @[i] IN
                            [j \in 1 .. Cardinality(c.in_list) |-> Append(p, Sorted(c.in_list)[j])]])]
          [] OTHER ->
               IF bounds = NoBounds THEN [walk EXCEPT !.done = TRUE]
               ELSE [walk EXCEPT !.done = TRUE, !.used = used, !.bounds = bounds,
                                 !.not_null = c.lower.b = "unbounded" /\ c.upper.b = "unbounded"]

is_unique(col, defs) == defs[col].primary_key \/ defs[col].unique

NoCandidate == [rank |-> 0, position |-> 0, columns |-> <<>>, path |-> NoPath]

\* What the end of the walk is worth.
CandidateAfter(walk, index, position, defs) ==
    LET depth == Len(walk.used)
        exact == walk.bounds = NoBounds /\ depth = Len(index)
        rank == CASE exact /\ Len(index) > 1 -> CompositeExact
                  [] exact /\ Len(index) = 1 /\ is_unique(index[1], defs) -> UniqueExact
                  [] depth > 1 \/ walk.bounds = NoBounds -> Prefix
                  [] walk.not_null -> NotNullRank
                  [] OTHER -> RangeRank
        bounds == IF walk.bounds = NoBounds THEN <<Unbounded, Unbounded>> ELSE walk.bounds
    IN  IF depth = 0 THEN NoCandidate
        ELSE [rank |-> rank, position |-> position, columns |-> walk.used,
              path |-> from_scans([i \in DOMAIN walk.prefixes |->
                                     Scan(index, walk.prefixes[i], bounds[1], bounds[2])])]

\* index_candidate: the part of an index a conjunction can use.
index_candidate(index, position, conjuncts, defs) ==
    LET start == [prefixes |-> <<<<>>>>, used |-> <<>>, bounds |-> NoBounds, not_null |-> FALSE, done |-> FALSE]
        Walk(w, col) == Extend(w, col, ConstraintOn(col, conjuncts), defs)
    IN  CandidateAfter(FoldLeft(Walk, start, index), index, position, defs)

CandidateLess(a, b) ==
    \/ a.rank < b.rank
    \/ a.rank = b.rank /\ Len(a.columns) > Len(b.columns)
    \/ a.rank = b.rank /\ Len(a.columns) = Len(b.columns) /\ a.position < b.position

\* Candidates that add a column to those before them, in order.
Members(candidates) ==
    LET Add(acc, c) ==
            IF c.columns # <<>> /\ Range(c.columns) \subseteq acc.covered THEN acc
            ELSE [covered |-> acc.covered \union Range(c.columns), paths |-> Append(acc.paths, c.path)]
    IN  FoldLeft(Add, [covered |-> {}, paths |-> <<>>], candidates).paths

\* or_candidate: a union, when every branch has a path.  Empty branches drop out.
or_candidate(f, position, branches) ==
    LET paths == SelectSeq(branches, LAMBDA p : p # Empty)
        path == IF paths = <<>> THEN Empty ELSE IF Len(paths) = 1 THEN paths[1] ELSE Composed("union", paths)
    IN  IF NoPath \in Range(branches) \/ scan_count(path) > MAX_ALTERNATIVES THEN NoCandidate
        ELSE [rank |-> UnionRank, position |-> position, columns |-> <<>>, path |-> path]

\* The path of a conjunction, from its candidates in order.
BestPath(candidates) ==
    LET members == Members(candidates)
    IN  IF \E i \in DOMAIN candidates : candidates[i].path = Empty THEN Empty
        ELSE IF candidates = <<>> THEN NoPath
        ELSE IF candidates[1].rank \in {UniqueExact, CompositeExact} THEN candidates[1].path
        ELSE IF Len(members) = 1 THEN members[1] ELSE Composed("intersection", members)

\* plan_filter and plan_conjunction: the path for a filter, or NoPath.
RECURSIVE plan_filter(_, _, _)
plan_filter(f, indexes, defs) ==
    LET conjuncts == flatten("And", f)
        named == {conjuncts[i].col : i \in {j \in DOMAIN conjuncts : IsPredicate(conjuncts[j])}}
        OrAt(i) == IF conjuncts[i].op # "Or" THEN NoCandidate
                   ELSE LET branches == flatten("Or", conjuncts[i]) IN
                        or_candidate(conjuncts[i], Len(indexes) + i,
                                     [j \in DOMAIN branches |-> plan_filter(branches[j], indexes, defs)])
    IN  IF \E col \in named : ConstraintOn(col, conjuncts) = Contradiction THEN Empty
        ELSE BestPath(SetToSortSeq(
                 ({index_candidate(indexes[i], i, conjuncts, defs) : i \in DOMAIN indexes}
                   \union {OrAt(i) : i \in DOMAIN conjuncts}) \ {NoCandidate}, CandidateLess))

-----------------------------------------------------------------------------
(* The single-column planner, for filters that can fail.  A plan is        *)
(* [column, kind, start, end, values] and keeps what is left to evaluate.  *)

NoPlan == [column |-> "", kind |-> "none", start |-> None, end |-> None, values |-> {}]

Plan(col, kind, start, end, values) ==
    [column |-> col, kind |-> kind, start |-> start, end |-> end, values |-> values]

combine_filters(l, r) == IF l = NoFilter THEN r ELSE IF r = NoFilter THEN l ELSE And(l, r)

\* analyze_inner on one predicate.  Ranges are inclusive, so > and < stay.
AnalyzePredicate(f, indexed) ==
    LET strict == f.op \in {"Gt", "Lt"} IN
    IF ~IsPredicate(f) \/ f.op \notin {"Eq", "Ge", "Gt", "Le", "Lt", "In"} \/ f.col \notin indexed
    THEN [plan |-> NoPlan, remaining |-> NoFilter]
    ELSE [plan |-> CASE f.op = "Eq" -> Plan(f.col, "eq", None, None, {f.val})
                     [] f.op = "In" -> Plan(f.col, "in", None, None, f.val)
                     [] f.op \in {"Ge", "Gt"} -> Plan(f.col, "range", f.val, None, {})
                     [] f.op \in {"Le", "Lt"} -> Plan(f.col, "range", None, f.val, {}),
          remaining |-> IF strict THEN f ELSE NoFilter]

\* stricter_bound with max and with min.
LaterStart(a, b) == IF a = None THEN b ELSE IF b = None \/ Less(b, a) THEN a ELSE b
EarlierEnd(a, b) == IF a = None THEN b ELSE IF b = None \/ Less(a, b) THEN a ELSE b

\* analyze_and on the analyses of both sides.
AnalyzeAnd(f, l, r) ==
    IF l.plan = NoPlan /\ r.plan = NoPlan THEN l
    ELSE IF r.plan = NoPlan THEN [l EXCEPT !.remaining = combine_filters(@, f.r)]
    ELSE IF l.plan = NoPlan THEN [r EXCEPT !.remaining = combine_filters(f.l, @)]
    ELSE IF l.plan.kind = "range" /\ r.plan.kind = "range" /\ l.plan.column = r.plan.column
    THEN [plan |-> [l.plan EXCEPT !.start = LaterStart(@, r.plan.start),
                                  !.end = EarlierEnd(@, r.plan.end)],
          remaining |-> combine_filters(l.remaining, r.remaining)]
    ELSE [l EXCEPT !.remaining = combine_filters(combine_filters(@, f.r), r.remaining)]

RECURSIVE analyze_filter(_, _)
analyze_filter(f, indexed) ==
    IF f.op = "And" THEN AnalyzeAnd(f, analyze_filter(f.l, indexed), analyze_filter(f.r, indexed))
    ELSE AnalyzePredicate(f, indexed)

\* legacy_path: a plan as a path over the index of its column.
legacy_path(plan) ==
    LET index == <<plan.column>>
        bound(v) == IF v = None THEN Unbounded ELSE Included(v)
        Eq(v) == ScanPath(Scan(index, <<v>>, Unbounded, Unbounded))
        values == Sorted(plan.values)
    IN  CASE plan.kind = "eq" -> Eq(values[1])
          [] plan.kind = "range" -> ScanPath(Scan(index, <<>>, bound(plan.start), bound(plan.end)))
          [] plan.kind = "in" -> Composed("union", [i \in DOMAIN values |-> Eq(values[i])])

\* plan_access: the path, and the filter its candidates must still satisfy.
plan_access(f, indexes, defs) ==
    LET indexed == {indexes[i][1] : i \in {j \in DOMAIN indexes : Len(indexes[j]) = 1}}
        Legacy(analyzed) ==
            IF analyzed.plan = NoPlan THEN [path |-> NoPath, verify |-> f]
            ELSE [path |-> legacy_path(analyzed.plan), verify |-> analyzed.remaining]
    IN  IF is_fallible(f) THEN Legacy(analyze_filter(f, indexed))
        ELSE [path |-> plan_filter(f, indexes, defs), verify |-> f]

-----------------------------------------------------------------------------
(* Execution under a budget                                                *)

\* addresses: those of a scan, or OverLimit when it has more than limit.
OverLimit == {-1}
addresses(scan, limit, table) ==
    LET found == for_each_entry(scan, table) IN
    IF Len(found) > limit THEN OverLimit ELSE {found[i].addr : i \in DOMAIN found}

\* What is known after one more member.  A union is over with a member that
\* is over budget; an intersection skips such a member.
Combine(kind, acc, next) ==
    [next EXCEPT !.set =
        CASE kind = "union" -> IF @ = OverLimit THEN @ ELSE acc.set \union @
          [] @ = OverLimit -> acc.set
          [] OTHER -> IF acc.set = OverLimit THEN @ ELSE acc.set \cap @]

\* The members that are left need not be read.
Settled(kind, acc) ==
    IF kind = "union" THEN acc.set = OverLimit
    ELSE acc.set # OverLimit /\ Cardinality(acc.set) <= SMALL_CANDIDATE_SET

\* materialize: the addresses of a path, or OverLimit, and what is left of
\* the budget.  The set is never partial.
RECURSIVE materialize(_, _, _), Materialized(_, _, _, _)
materialize(path, left, table) ==
    LET limit == IF SCAN_BUDGET < left THEN SCAN_BUDGET ELSE left IN
    CASE path.kind = "empty" -> [set |-> {}, left |-> left]
      [] path.kind = "scan" ->
           LET found == addresses(path.scan, limit, table) IN
           [set |-> found,
            left |-> left - IF found = OverLimit THEN limit ELSE Cardinality(found)]
      [] path.kind = "union" -> Materialized("union", [set |-> {}, left |-> left], path.paths, table)
      [] path.kind = "intersection" ->
           Materialized("intersection", [set |-> OverLimit, left |-> left], path.paths, table)

\* The members of a composed path, one after another.
Materialized(kind, acc, paths, table) ==
    IF paths = <<>> \/ Settled(kind, acc) THEN acc
    ELSE Materialized(kind, Combine(kind, acc, materialize(Head(paths), acc.left, table)), Tail(paths), table)
=============================================================================
