----------------------------- MODULE SqlPlanner -----------------------------
(***************************************************************************)
(* From a parsed statement to the query, the filter and the column values  *)
(* the database takes: names are resolved against the tables in scope and  *)
(* every literal or parameter becomes a value of its column's type.        *)
(*                                                                         *)
(* Statements have the shape SqlParser builds.  The scope is the sequence  *)
(* of [name, qualifier] of the FROM and JOIN clauses.  Each kind of plan   *)
(* has a condition under which it is made, Accepts..., and the plan.       *)
(***************************************************************************)
EXTENDS Filters, FiniteSets, SequencesExt

CONSTANTS
    Columns,        \* [table -> [column -> [type, ...]]]
    Fits,           \* [integer type -> the integers it holds]
    Reads,          \* [type -> [text -> payload]]: the texts read as another type
    Patterns,       \* [text -> [valid, matches]]: the text as a LIKE pattern
    MaxRowCount,    \* the largest LIMIT and OFFSET
    Output,         \* the names agg0, agg1, ...
    All, NoLimit

-----------------------------------------------------------------------------
(* Scope                                                                   *)

\* Scope::push, for all tables: known, once each, under different qualifiers.
ScopeIsValid(scope) ==
    /\ \A i \in DOMAIN scope : scope[i].name \in DOMAIN Columns
    /\ \A i, j \in DOMAIN scope :
          i # j => scope[i].name # scope[j].name /\ scope[i].qualifier # scope[j].qualifier

\* The tables a column reference may mean.
Candidates(scope, ref) ==
    {i \in DOMAIN scope : /\ ref.table \in {"", scope[i].qualifier}
                          /\ ref.column \in DOMAIN Columns[scope[i].name]}

Resolves(scope, ref) == Cardinality(Candidates(scope, ref)) = 1

resolve(scope, ref) == CHOOSE i \in DOMAIN scope : i \in Candidates(scope, ref)

ResolvesAll(scope, refs) == \A i \in DOMAIN refs : Resolves(scope, refs[i])

DataType(scope, ref) == Columns[scope[resolve(scope, ref)].name][ref.column].type

qualified_name(scope, ref) == <<scope[resolve(scope, ref)].name, ref.column>>

\* The join engine wants table.column, a single table bare names.
field(scope, ref) == IF Len(scope) > 1 THEN qualified_name(scope, ref) ELSE ref.column

-----------------------------------------------------------------------------
(* Values                                                                  *)

\* Classification of a bound value; Fits has the integer types.
parameter_input(param) ==
    CASE param = Null -> <<"literal", "NULL">>
      [] param[1] \in DOMAIN Fits -> <<"integer", param[2]>>
      [] param[1] = Text -> <<"string", param[2]>>
      [] param[1] = Boolean -> <<"literal", IF param[2] = 1 THEN "TRUE" ELSE "FALSE">>
      [] OTHER -> <<"typed", param>>

input(expr, params) == IF expr[1] = "parameter" THEN parameter_input(params[expr[2]]) ELSE expr

\* The value as kind has it, or Invalid.  Every number of the instance is in the
\* range of decimals.
coerce(in, kind) ==
    CASE in = <<"literal", "NULL">> -> Null
      [] in[1] = "integer" /\ kind = Decimal -> <<Decimal, Unit * in[2]>>
      [] in[1] = "integer" /\ kind \in DOMAIN Fits ->
           IF in[2] \in Fits[kind] THEN <<kind, in[2]>> ELSE Invalid
      [] in[1] = "float" /\ kind = Decimal -> <<Decimal, in[2]>>
      [] in[1] = "literal" /\ kind = Boolean -> <<Boolean, IF in[2] = "TRUE" THEN 1 ELSE 0>>
      [] in[1] = "string" /\ kind = Text -> <<Text, in[2]>>
      [] in[1] = "string" /\ kind \in DOMAIN Reads ->
           IF in[2] \in DOMAIN Reads[kind] THEN <<kind, Reads[kind][in[2]]>> ELSE Invalid
      [] in[1] = "typed" /\ in[2][1] = kind -> in[2]
      [] OTHER -> Invalid

\* In a comparison NULL is refused.
coerce_filter_value(in, kind) == IF coerce(in, kind) = Null THEN Invalid ELSE coerce(in, kind)

AcceptsCount(count, params) ==
    count[1] = "none" \/ (input(count, params)[1] = "integer" /\ input(count, params)[2] \in 0 .. MaxRowCount)

row_count(count, params, none) == IF count[1] = "none" THEN none ELSE input(count, params)[2]

-----------------------------------------------------------------------------
(* Aggregate functions                                                     *)

\* A function is <<name, column>>, the column "" in COUNT STAR.
Function(operand) == <<operand.fn, IF operand.column = "*" THEN "" ELSE operand.column>>

AcceptsFunction(scope, operand) == operand.column = "*" \/ Resolves(scope, operand)

\* The type of its value.
signature(scope, operand) ==
    CASE operand.fn = "count" -> Uint64
      [] operand.fn \in {"sum", "avg"} -> Decimal
      [] OTHER -> DataType(scope, operand)

\* The operands of a condition, in source order.
RECURSIVE OperandsOf(_)
OperandsOf(c) ==
    CASE c.op = "none" -> <<>>
      [] c.op \in {"And", "Or"} -> OperandsOf(c.l) \o OperandsOf(c.r)
      [] c.op = "Not" -> OperandsOf(c.l)
      [] OTHER -> <<c.operand>>

ItemOperands(items) == [i \in DOMAIN items |-> items[i].operand]

AllOperands(s) == ItemOperands(s.items) \o OperandsOf(s.having) \o ItemOperands(s.order_by)

\* Aggregates::index: each function once, where it is first used.
RegisteredIn(operands) ==
    FoldLeft(LAMBDA known, o : IF o.fn = "" \/ Function(o) \in Range(known) THEN known
                               ELSE Append(known, Function(o)), <<>>, operands)

index(functions, operand) == First({i \in DOMAIN functions : functions[i] = Function(operand)})

-----------------------------------------------------------------------------
(* Conditions.  What a condition may name is [clause, scope, group_by,     *)
(* functions, params].                                                     *)

WhereIn(scope, params) ==
    [clause |-> "where", scope |-> scope, group_by |-> <<>>, functions |-> <<>>, params |-> params]

\* A grouped column, whatever it was qualified with.
IsGrouped(scope, group_by, ref) ==
    Resolves(scope, ref) /\ \E i \in DOMAIN group_by : group_by[i].column = ref.column

AcceptsOperand(env, operand) ==
    IF operand.fn # "" THEN env.clause = "having" /\ AcceptsFunction(env.scope, operand)
    ELSE IF env.clause = "having" THEN IsGrouped(env.scope, env.group_by, operand)
    ELSE Resolves(env.scope, operand)

\* Target: the name the database knows the operand by, and its type.
target(env, operand) ==
    IF operand.fn = "" THEN field(env.scope, operand) ELSE Output[index(env.functions, operand)]

TargetType(env, operand) ==
    IF operand.fn = "" THEN DataType(env.scope, operand) ELSE signature(env.scope, operand)

FilterValue(env, operand, expr) == coerce_filter_value(input(expr, env.params), TargetType(env, operand))

RECURSIVE AcceptsCondition(_, _)
AcceptsCondition(c, env) ==
    CASE c.op = "none" -> TRUE
      [] c.op \in {"And", "Or"} -> AcceptsCondition(c.l, env) /\ AcceptsCondition(c.r, env)
      [] c.op = "Not" -> AcceptsCondition(c.l, env)
      [] c.op = "Like" -> /\ env.clause = "where" /\ AcceptsOperand(env, c.operand)
                          /\ input(c.value, env.params)[1] = "string"
      [] c.op = "IsNull" -> AcceptsOperand(env, c.operand)
      [] c.op = "In" -> /\ AcceptsOperand(env, c.operand)
                        /\ \A i \in DOMAIN c.value : FilterValue(env, c.operand, c.value[i]) # Invalid
      [] OTHER -> /\ AcceptsOperand(env, c.operand)
                  /\ FilterValue(env, c.operand, c.value) # Invalid

negate(f, negated) == IF negated THEN Not(f) ELSE f

RECURSIVE filter(_, _)
filter(c, env) ==
    CASE c.op = "none" -> NoFilter
      [] c.op = "And" -> And(filter(c.l, env), filter(c.r, env))
      [] c.op = "Or" -> Or(filter(c.l, env), filter(c.r, env))
      [] c.op = "Not" -> Not(filter(c.l, env))
      [] c.op = "Like" ->
           negate(Pred("Like", target(env, c.operand), Patterns[input(c.value, env.params)[2]]), c.negated)
      [] c.op = "IsNull" -> Pred(IF c.negated THEN "NotNull" ELSE "IsNull", target(env, c.operand), Null)
      [] c.op = "In" ->
           negate(Pred("In", target(env, c.operand),
                       {FilterValue(env, c.operand, c.value[i]) : i \in DOMAIN c.value}), c.negated)
      [] OTHER -> Pred(c.op, target(env, c.operand), FilterValue(env, c.operand, c.value))

-----------------------------------------------------------------------------
(* SELECT                                                                  *)

ScopeOf(s) == <<s.from>> \o [i \in DOMAIN s.joins |-> s.joins[i].table]

JoinType == [INNER |-> "inner", LEFT |-> "left", RIGHT |-> "right", FULL |-> "full"]

\* The ON condition of a clause sees the tables up to its own, the last.
Swapped(scope, clause) == resolve(scope, clause.left) = Len(scope)

AcceptsJoin(scope, clause) ==
    /\ Resolves(scope, clause.left) /\ Resolves(scope, clause.right)
    /\ Swapped(scope, clause) # (resolve(scope, clause.right) = Len(scope))
    /\ DataType(scope, clause.left) = DataType(scope, clause.right)

\* Mutant of join: the sides are taken as they are written.
JoinAsWritten(scope, clause) ==
    [table |-> clause.table.name, type |-> JoinType[clause.kind],
     left |-> qualified_name(scope, clause.left), right |-> clause.right.column]

\* The condition may be written either way round.
join(scope, clause) ==
    LET outer == IF Swapped(scope, clause) THEN clause.right ELSE clause.left
        inner == IF Swapped(scope, clause) THEN clause.left ELSE clause.right
    IN  [table |-> clause.table.name, type |-> JoinType[clause.kind],
         left |-> qualified_name(scope, outer), right |-> inner.column]

Upto(scope, i) == SubSeq(scope, 1, i + 1)

is_aggregate(s) ==
    s.group_by # <<>> \/ s.having # NoFilter \/ \E i \in DOMAIN AllOperands(s) : AllOperands(s)[i].fn # ""

\* The items whose alias an ORDER BY item may refer to.
Aliased(items, o) == {i \in DOMAIN items : o.fn = "" /\ o.table = "" /\ items[i].alias = o.column}

\* An alias takes precedence over a column of the same name.
order_operand(items, o) ==
    IF Aliased(items, o) = {} THEN o ELSE items[First(Aliased(items, o))].operand

SortOperands(s) == [i \in DOMAIN s.order_by |-> order_operand(s.items, s.order_by[i].operand)]

direction(item) == IF item.descending THEN "desc" ELSE "asc"

\* A sort key outside the select list would be arbitrary for a distinct row.
AcceptsDistinct(s, sort) ==
    /\ s.joins = <<>>
    /\ s.items # <<>> => \A i \in DOMAIN sort : \E j \in DOMAIN s.items :
                             s.items[j].operand.column = sort[i].column

distinct_columns(s) ==
    IF ~s.distinct THEN <<>>
    ELSE IF s.items = <<>> THEN SetToSeq(DOMAIN Columns[s.from.name])
    ELSE [i \in DOMAIN s.items |-> s.items[i].operand.column]

\* What a query on rows, and an aggregate query, can be made of.
AcceptsRows(s, scope, sort) ==
    /\ ResolvesAll(scope, ItemOperands(s.items)) /\ ResolvesAll(scope, sort)
    /\ s.distinct => AcceptsDistinct(s, sort)

AcceptsAggregate(s, scope, env, sort) ==
    /\ s.joins = <<>> /\ ~s.distinct /\ s.items # <<>>
    /\ ResolvesAll(scope, s.group_by)
    /\ \A i \in DOMAIN s.items : AcceptsOperand(env, s.items[i].operand)
    /\ \A i \in DOMAIN sort : AcceptsOperand(env, sort[i])
    /\ AcceptsCondition(s.having, env)

HavingIn(s, scope, params) ==
    [clause |-> "having", scope |-> scope, group_by |-> s.group_by,
     functions |-> RegisteredIn(AllOperands(s)), params |-> params]

AcceptsSelect(s, params) ==
    LET scope == ScopeOf(s) IN
    /\ ScopeIsValid(scope)
    /\ \A i \in DOMAIN s.joins : AcceptsJoin(Upto(scope, i), s.joins[i])
    /\ IF is_aggregate(s) THEN AcceptsAggregate(s, scope, HavingIn(s, scope, params), SortOperands(s))
       ELSE AcceptsRows(s, scope, SortOperands(s))
    /\ AcceptsCondition(s.filter, WhereIn(scope, params))
    /\ AcceptsCount(s.limit, params) /\ AcceptsCount(s.offset, params)

OrderBy(s, env, sort) == [i \in DOMAIN sort |-> <<target(env, sort[i]), direction(s.order_by[i])>>]

TableQuery(s, params, env) ==
    [columns |-> All, distinct_by |-> distinct_columns(s), eager |-> {}, filter |-> filter(s.filter, env),
     order_by |-> OrderBy(s, env, SortOperands(s)),
     limit |-> row_count(s.limit, params, NoLimit), offset |-> row_count(s.offset, params, 0)]

JoinQuery(s, params, env) ==
    [from |-> s.from.name, joins |-> [i \in DOMAIN s.joins |-> join(Upto(env.scope, i), s.joins[i])],
     filter |-> filter(s.filter, env), order_by |-> OrderBy(s, env, SortOperands(s)),
     limit |-> row_count(s.limit, params, NoLimit), offset |-> row_count(s.offset, params, 0), columns |-> All]

AggregateQuery(s, params, env) ==
    [table |-> s.from.name, filter |-> filter(s.filter, WhereIn(env.scope, params)), distinct_by |-> <<>>,
     group_by |-> [i \in DOMAIN s.group_by |-> s.group_by[i].column], aggs |-> env.functions,
     having |-> filter(s.having, env), order_by |-> OrderBy(s, env, SortOperands(s)),
     limit |-> row_count(s.limit, params, NoLimit), offset |-> row_count(s.offset, params, 0)]

\* A column of the result: what is read, and the name it gets.
Named(item, name) == IF item.alias = "" THEN name ELSE item.alias

RowOutputs(s, scope) ==
    [i \in DOMAIN s.items |->
        [source |-> field(scope, s.items[i].operand), name |-> Named(s.items[i], s.items[i].operand.column)]]

AggregateOutput(s, item, functions) ==
    IF item.operand.fn # ""
    THEN [group_key |-> FALSE, source |-> index(functions, item.operand), name |-> Named(item, Function(item.operand))]
    ELSE [group_key |-> TRUE,
          source |-> First({i \in DOMAIN s.group_by : s.group_by[i].column = item.operand.column}),
          name |-> Named(item, item.operand.column)]

PlanIn(s, params, scope, env) ==
    IF is_aggregate(s)
    THEN [kind |-> "aggregate", query |-> AggregateQuery(s, params, env),
          outputs |-> [i \in DOMAIN s.items |-> AggregateOutput(s, s.items[i], env.functions)]]
    ELSE IF s.joins = <<>>
    THEN [kind |-> "table", query |-> TableQuery(s, params, WhereIn(scope, params)), outputs |-> RowOutputs(s, scope)]
    ELSE [kind |-> "join", query |-> JoinQuery(s, params, WhereIn(scope, params)), outputs |-> RowOutputs(s, scope)]

select(s, params) == PlanIn(s, params, ScopeOf(s), HavingIn(s, ScopeOf(s), params))

-----------------------------------------------------------------------------
(* INSERT, UPDATE and DELETE                                               *)

single(table) == <<[name |-> table, qualifier |-> table]>>

\* column_value: the value as its column has it.
column_value(table, column, expr, params) == coerce(input(expr, params), Columns[table][column].type)

AcceptsValue(table, column, expr, params) ==
    column \in DOMAIN Columns[table] /\ column_value(table, column, expr, params) # Invalid

AcceptsInsert(s, params) ==
    /\ s.table \in DOMAIN Columns
    /\ \A i \in DOMAIN s.columns : AcceptsValue(s.table, s.columns[i], s.values[i], params)

\* The listed columns with their values.
insert(s, params) ==
    [c \in Range(s.columns) |->
        LET i == First({j \in DOMAIN s.columns : s.columns[j] = c})
        IN  column_value(s.table, c, s.values[i], params)]

AcceptsUpdate(s, params) ==
    /\ s.table \in DOMAIN Columns
    /\ \A i \in DOMAIN s.assignments :
          AcceptsValue(s.table, s.assignments[i].column, s.assignments[i].value, params)
    /\ AcceptsCondition(s.filter, WhereIn(single(s.table), params))

\* The assigned columns with their values.
update(s, params) ==
    [c \in {s.assignments[i].column : i \in DOMAIN s.assignments} |->
        LET i == First({j \in DOMAIN s.assignments : s.assignments[j].column = c})
        IN  column_value(s.table, c, s.assignments[i].value, params)]

AcceptsDelete(s, params) ==
    s.table \in DOMAIN Columns /\ AcceptsCondition(s.filter, WhereIn(single(s.table), params))

delete(s, params) == IF s.cascade THEN "Cascade" ELSE "Restrict"

\* The filter of an UPDATE or a DELETE.
table_filter(s, params) == filter(s.filter, WhereIn(single(s.table), params))
=============================================================================
