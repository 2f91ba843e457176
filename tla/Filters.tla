------------------------------- MODULE Filters -------------------------------
(***************************************************************************)
(* Values, their order, and the evaluation of a filter on a row, on a      *)
(* joined row and on an aggregated row.                                    *)
(*                                                                         *)
(* A value is <<variant, n>>: the position of its variant in the Value     *)
(* enumeration, and the position of the payload in the order of its type.  *)
(* A row is a function from column names to values.  A LIKE pattern or a   *)
(* JSON path is [valid, matches]: whether it parses, and the payloads it   *)
(* matches (which bytes match is left open).                               *)
(***************************************************************************)
EXTENDS Integers, Sequences

\* Variants of Value, by position.
Boolean == 2
Decimal == 5
Int32 == 8
JsonKind == 10
Null == <<11, 0>>
Text == 12
Uint64 == 16
Uuid == 17

\* A Decimal is counted in parts of Unit.
Unit == 12

is_null(v) == v = Null

\* The derived order: by variant, then by payload.
Less(a, b) == a[1] < b[1] \/ (a[1] = b[1] /\ a[2] < b[2])
AtMost(a, b) == ~Less(b, a)

Comparison == {"Eq", "Ne", "Gt", "Lt", "Ge", "Le"}

Compare(op, a, b) ==
    CASE op = "Eq" -> a = b
      [] op = "Ne" -> a # b
      [] op = "Gt" -> Less(b, a)
      [] op = "Lt" -> Less(a, b)
      [] op = "Ge" -> AtMost(b, a)
      [] op = "Le" -> AtMost(a, b)

-----------------------------------------------------------------------------
(* Filters.  A predicate names one column; And, Or and Not combine.        *)

NoFilter == [op |-> "none"]
Pred(op, col, val) == [op |-> op, col |-> col, val |-> val]
And(l, r) == [op |-> "And", l |-> l, r |-> r]
Or(l, r) == [op |-> "Or", l |-> l, r |-> r]
Not(f) == [op |-> "Not", l |-> f]

\* A column reference that resolves to nothing, or to an error.
Missing == <<0, 0>>
Invalid == <<0, 1>>

Truth(b) == IF b THEN "yes" ELSE "no"

\* matches_like, matches_json: only a value of their type can be matched, and
\* the operand is validated even when the value is NULL.
MatchesOperand(kind, operand, v) ==
    IF v # Null /\ v[1] # kind THEN "error"
    ELSE IF ~operand.valid THEN "error"
    ELSE Truth(v # Null /\ v[2] \in operand.matches)

\* One predicate on the value its column resolved to.
Holds(f, v) ==
    CASE v = Invalid -> "error"
      [] f.op = "Json" -> IF v = Missing THEN "error" ELSE MatchesOperand(JsonKind, f.val, v)
      [] v = Missing -> "no"
      [] f.op = "Like" -> MatchesOperand(Text, f.val, v)
      [] f.op = "In" -> Truth(v \in f.val)
      [] f.op = "NotNull" -> Truth(~is_null(v))
      [] f.op = "IsNull" -> Truth(is_null(v))
      [] OTHER -> Truth(Compare(f.op, v, f.val))

\* The columns a filter names.
RECURSIVE collect_filter_columns(_)
collect_filter_columns(f) ==
    CASE f.op \in {"And", "Or"} -> collect_filter_columns(f.l) \union collect_filter_columns(f.r)
      [] f.op = "Not" -> collect_filter_columns(f.l)
      [] OTHER -> {f.col}

\* The outcome of a filter over resolved columns: evaluation is from left to
\* right, stops early, and an error ends it.
RECURSIVE Evaluate(_, _)
Evaluate(f, env) ==
    CASE f.op = "And" -> LET l == Evaluate(f.l, env) IN
                         IF l = "yes" THEN Evaluate(f.r, env) ELSE l
      [] f.op = "Or" -> LET l == Evaluate(f.l, env) IN
                        IF l = "no" THEN Evaluate(f.r, env) ELSE l
      [] f.op = "Not" -> LET l == Evaluate(f.l, env) IN
                         IF l = "error" THEN l ELSE Truth(l = "no")
      [] OTHER -> Holds(f, env[f.col])

\* Filter::matches on one row.
matches(f, row) ==
    Evaluate(f, [c \in collect_filter_columns(f) |-> IF c \in DOMAIN row THEN row[c] ELSE Missing])

\* Filters whose evaluation can fail.
RECURSIVE is_fallible(_)
is_fallible(f) ==
    CASE f.op \in {"Like", "Json"} -> TRUE
      [] f.op \in {"And", "Or"} -> is_fallible(f.l) \/ is_fallible(f.r)
      [] f.op = "Not" -> is_fallible(f.l)
      [] OTHER -> FALSE

-----------------------------------------------------------------------------
(* Joined rows: a sequence of [table, row].  A column reference is         *)
(* <<table, column>>, or <<"", column>> when it is not qualified.          *)

GroupsOf(table, groups) == {i \in DOMAIN groups : groups[i].table = table}
First(S) == CHOOSE i \in S : \A j \in S : i <= j

\* resolve_joined_column and resolve_joined_column_def, on what each group
\* has under a column name (a value, or a data type).
Resolve(ref, groups) ==
    IF ref[1] # "" THEN
        LET with == GroupsOf(ref[1], groups) IN
        IF with = {} THEN Invalid
        ELSE LET row == groups[First(with)].row IN
             IF ref[2] \in DOMAIN row THEN row[ref[2]] ELSE Missing
    ELSE LET with == {i \in DOMAIN groups : ref[2] \in DOMAIN groups[i].row} IN
         IF with = {} THEN Missing
         ELSE IF \E i, j \in with : i # j THEN Invalid
         ELSE groups[First(with)].row[ref[2]]

matches_joined_row(f, groups) ==
    Evaluate(f, [ref \in collect_filter_columns(f) |-> Resolve(ref, groups)])

\* Mutant of validate_joined: the type of a LIKE column is left to evaluation.
RECURSIVE ValidateJoinedUntyped(_, _)
ValidateJoinedUntyped(f, groups) ==
    CASE f.op \in {"And", "Or"} -> ValidateJoinedUntyped(f.l, groups) /\ ValidateJoinedUntyped(f.r, groups)
      [] f.op = "Not" -> ValidateJoinedUntyped(f.l, groups)
      [] OTHER ->
           LET def == Resolve(f.col, groups) IN
           /\ def # Invalid
           /\ f.op = "Json" => def[1] = JsonKind
           /\ f.op = "Like" => f.val.valid

\* validate_joined: whether the filter is accepted before any row is read.
\* The groups have <<type, 0>> under their column names.
RECURSIVE validate_joined(_, _)
validate_joined(f, groups) ==
    CASE f.op \in {"And", "Or"} -> validate_joined(f.l, groups) /\ validate_joined(f.r, groups)
      [] f.op = "Not" -> validate_joined(f.l, groups)
      [] OTHER ->
           LET def == Resolve(f.col, groups) IN
           /\ def # Invalid
           /\ f.op = "Json" => def[1] = JsonKind
           /\ f.op = "Like" => def = Missing \/ (def[1] = Text /\ f.val.valid)
=============================================================================
