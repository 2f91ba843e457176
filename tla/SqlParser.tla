------------------------------ MODULE SqlParser ------------------------------
(***************************************************************************)
(* The recursive-descent parser of the SQL dialect.                        *)
(*                                                                         *)
(* A token is <<kind, content>>; the lexer that cuts a text into tokens is *)
(* not modelled.  A parser goes from state to state: where it stands, the  *)
(* placeholders and the condition terms it met, and a stack with what it   *)
(* has built.  The last token is Eof.                                      *)
(***************************************************************************)
EXTENDS Integers, Sequences

CONSTANT MAX_CONDITION_TERMS    \* terms the conditions of one statement may have

Keyword(k) == <<"keyword", k>>
Symbol(s) == <<"symbol", s>>
Name(n) == <<"identifier", n>>
Placeholder == Symbol("?")
Eof == Symbol("eof")

\* A value expression is <<"parameter", n>>, the literals TRUE, FALSE and NULL
\* <<"literal", word>>, and other literals are their tokens.
NullLiteral == <<"literal", "NULL">>

\* What an omitted clause leaves.
NoCondition == [op |-> "none"]
NoCount == <<"none", 0>>

\* An operand: a column, or an aggregate function (fn) of one.
Column(table, column) == [fn |-> "", table |-> table, column |-> column]
Functions == {"count", "sum", "avg", "min", "max"}

-----------------------------------------------------------------------------
(* The token cursor and the stack                                          *)

ParserOf(tokens) ==
    [tokens |-> tokens, cursor |-> 1, parameters |-> 0, condition_terms |-> 0,
     out |-> <<>>, ok |-> TRUE]

\* Eof is read again past the end.
peek_at(s, n) ==
    s.tokens[IF s.cursor + n > Len(s.tokens) THEN Len(s.tokens) ELSE s.cursor + n]

peek(s) == peek_at(s, 0)

At(s, token) == s.ok /\ peek(s) = token

advance(s) == IF s.cursor < Len(s.tokens) THEN [s EXCEPT !.cursor = @ + 1] ELSE s

Fail(s) == [s EXCEPT !.ok = FALSE]

Push(s, node) == IF s.ok THEN [s EXCEPT !.out = Append(@, node)] ELSE s

\* The node n places below the top, and the stack without its n top nodes.
Out(s, n) == s.out[Len(s.out) - n]
Below(s, n) == SubSeq(s.out, 1, Len(s.out) - n)

\* Replaces the n top nodes by one made of them.
Made(s, n, node) == IF s.ok THEN [s EXCEPT !.out = Append(Below(s, n), node)] ELSE s

expect(s, token) == IF At(s, token) THEN advance(s) ELSE Fail(s)

eat(s, token) == IF At(s, token) THEN advance(s) ELSE s

\* Whether an optional word is there.
Flag(s, token) == Push(eat(s, token), At(s, token))

identifier(s) ==
    IF s.ok /\ peek(s)[1] = "identifier" THEN Push(advance(s), peek(s)[2]) ELSE Fail(s)


\* Positions of placeholders count from 1.
next_parameter(s) ==
    [Push(s, <<"parameter", s.parameters + 1>>) EXCEPT !.parameters = @ + 1]

-----------------------------------------------------------------------------
(* Values, columns and aggregates                                          *)

Negated(token, negative) == <<token[1], IF negative THEN -token[2] ELSE token[2]>>

\* A literal or placeholder, at the token after an optional minus.
ValueAtToken(s, token, negative) ==
    CASE ~s.ok -> s
      [] token[1] \in {"integer", "float"} -> Push(advance(s), Negated(token, negative))
      [] token[1] = "string" /\ ~negative -> Push(advance(s), token)
      [] token \in {Keyword("TRUE"), Keyword("FALSE"), Keyword("NULL")} /\ ~negative ->
           Push(advance(s), <<"literal", token[2]>>)
      [] token = Placeholder /\ ~negative -> next_parameter(advance(s))
      [] OTHER -> Fail(s)

value(s) ==
    IF At(s, Symbol("-")) THEN ValueAtToken(advance(s), peek_at(s, 1), TRUE)
    ELSE ValueAtToken(s, peek(s), FALSE)

NotNullValue(s) == IF s.ok /\ Out(s, 0) = NullLiteral THEN Fail(s) ELSE s

PlainColumn(s) == Made(s, 1, Column("", Out(s, 0)))
QualifiedColumn(s) == Made(s, 2, Column(Out(s, 1), Out(s, 0)))

column_ref(s) ==
    IF peek_at(s, 1) = Symbol(".")
    THEN QualifiedColumn(identifier(expect(identifier(s), Symbol("."))))
    ELSE PlainColumn(identifier(s))

Call(s, fn) == Made(s, 1, [Out(s, 0) EXCEPT !.fn = fn])

aggregate(s, allowed) ==
    LET fn == peek(s)[2]
        inside == expect(advance(s), Symbol("("))
    IN  IF ~s.ok \/ ~allowed \/ fn \notin Functions THEN Fail(s)
        ELSE IF fn = "count" /\ At(inside, Symbol("*"))
        THEN expect(Call(Push(advance(inside), Column("", "*")), fn), Symbol(")"))
        ELSE expect(Call(column_ref(inside), fn), Symbol(")"))

\* A name with an opening parenthesis after it is a function.
operand(s, allowed) ==
    IF peek(s)[1] = "identifier" /\ peek_at(s, 1) = Symbol("(") THEN aggregate(s, allowed)
    ELSE column_ref(s)

-----------------------------------------------------------------------------
(* Lists                                                                   *)

Aliased(s) == Made(s, 2, [operand |-> Out(s, 1), alias |-> Out(s, 0)])
Directed(s) == Made(s, 2, [operand |-> Out(s, 1), descending |-> Out(s, 0)])
Assigned(s) == Made(s, 2, [column |-> Out(s, 1), value |-> Out(s, 0)])

alias(s) == IF At(s, Keyword("AS")) THEN identifier(advance(s)) ELSE Push(s, "")

Asc(s) == IF s.ok /\ ~Out(s, 0) THEN eat(s, Keyword("ASC")) ELSE s

\* One element of a comma-separated list.
Element(s, what) ==
    CASE what = "item" -> Aliased(alias(operand(s, TRUE)))
      [] what = "order" -> Directed(Asc(Flag(operand(s, TRUE), Keyword("DESC"))))
      [] what = "column" -> column_ref(s)
      [] what = "name" -> identifier(s)
      [] what = "value" -> value(s)
      [] what = "alternative" -> NotNullValue(value(s))
      [] what = "assignment" -> Assigned(value(expect(identifier(s), <<"compare", "Eq">>)))

Collect(s) == Made(s, 2, Append(Out(s, 1), Out(s, 0)))

RECURSIVE More(_, _)
More(s, what) ==
    IF At(s, Symbol(",")) THEN More(Collect(Element(advance(s), what)), what) ELSE s

\* At least one element; the list is on the stack.
List(s, what) == More(Collect(Element(Push(s, <<>>), what)), what)

Parenthesized(s, what) == expect(List(expect(s, Symbol("(")), what), Symbol(")"))

-----------------------------------------------------------------------------
(* Conditions: OR binds least, NOT most                                    *)

count_condition_term(s) ==
    IF s.condition_terms + 1 > MAX_CONDITION_TERMS THEN Fail(s)
    ELSE [s EXCEPT !.condition_terms = @ + 1]

Compared(s, op) == Made(s, 2, [op |-> op, operand |-> Out(s, 1), value |-> Out(s, 0)])
Tested(s, op) == Made(s, 2, [op |-> op, operand |-> Out(s, 1), negated |-> Out(s, 0)])
TestedWith(s, op) ==
    Made(s, 3, [op |-> op, operand |-> Out(s, 2), negated |-> Out(s, 1), value |-> Out(s, 0)])

in_list(s) == TestedWith(Parenthesized(s, "alternative"), "In")

Pattern(s) ==
    IF s.ok /\ Out(s, 0)[1] \notin {"string", "parameter"} THEN Fail(s) ELSE s

like(s) == TestedWith(Pattern(value(s)), "Like")

\* What follows an operand.
Test(s, token, after) ==
    CASE ~s.ok -> s
      [] token[1] = "compare" -> Compared(NotNullValue(value(advance(s))), token[2])
      [] token = Keyword("IS") ->
           Tested(expect(Flag(advance(s), Keyword("NOT")), Keyword("NULL")), "IsNull")
      [] token = Keyword("IN") -> in_list(Push(advance(s), FALSE))
      [] token = Keyword("LIKE") -> like(Push(advance(s), FALSE))
      [] token = Keyword("NOT") /\ after = Keyword("IN") -> in_list(Push(advance(advance(s)), TRUE))
      [] token = Keyword("NOT") /\ after = Keyword("LIKE") -> like(Push(advance(advance(s)), TRUE))
      [] OTHER -> Fail(s)

TestOf(s) == Test(s, peek(s), peek_at(s, 1))

predicate(s, allowed) == TestOf(operand(s, allowed))

Binary(s, op) == Made(s, 2, [op |-> op, l |-> Out(s, 1), r |-> Out(s, 0)])
Unary(s) == Made(s, 1, [op |-> "Not", l |-> Out(s, 0)])

RECURSIVE or_conditions(_, _), and_conditions(_, _), not_condition(_, _)

\* Left to right: what was built becomes the left side.
or_conditions(s, allowed) ==
    IF At(s, Keyword("OR"))
    THEN or_conditions(Binary(and_conditions(
             not_condition(advance(count_condition_term(s)), allowed), allowed), "Or"), allowed)
    ELSE s

and_conditions(s, allowed) ==
    IF At(s, Keyword("AND"))
    THEN and_conditions(Binary(not_condition(advance(count_condition_term(s)), allowed), "And"), allowed)
    ELSE s

\* One term: a negation, a group, or a predicate.
Term(s, allowed) ==
    CASE ~s.ok -> s
      [] At(s, Keyword("NOT")) -> Unary(not_condition(advance(s), allowed))
      [] At(s, Symbol("(")) ->
           expect(or_conditions(and_conditions(not_condition(advance(s), allowed), allowed), allowed),
                  Symbol(")"))
      [] OTHER -> predicate(s, allowed)

not_condition(s, allowed) ==
    IF s.ok THEN Term(count_condition_term(s), allowed) ELSE s

condition(s, allowed) ==
    or_conditions(and_conditions(not_condition(s, allowed), allowed), allowed)

-----------------------------------------------------------------------------
(* SELECT                                                                  *)

projection(s) ==
    IF At(s, Symbol("*")) THEN Push(advance(s), <<>>) ELSE List(s, "item")

\* The qualifier of the columns is the alias, or the table name.
TableRef(s) == Made(s, 2, [name |-> Out(s, 1), qualifier |-> Out(s, 0)])

Qualifier(s) ==
    IF At(s, Keyword("AS")) THEN identifier(advance(s))
    ELSE IF s.ok /\ peek(s)[1] = "identifier" THEN identifier(s) ELSE Push(s, Out(s, 0))

table_ref(s) == IF identifier(s).ok THEN TableRef(Qualifier(identifier(s))) ELSE Fail(s)

Outer == {"LEFT", "RIGHT", "FULL"}

\* The words that open a join; its type is on the stack.
join_kind(s) ==
    LET word == peek(s)[2] IN
    CASE peek(s) = Keyword("JOIN") -> advance(Push(s, "INNER"))
      [] peek(s) = Keyword("INNER") -> expect(Push(advance(s), word), Keyword("JOIN"))
      [] OTHER -> expect(eat(Push(advance(s), word), Keyword("OUTER")), Keyword("JOIN"))

JoinClause(s) ==
    Made(s, 4, [kind |-> Out(s, 3), table |-> Out(s, 2), left |-> Out(s, 1), right |-> Out(s, 0)])

join(s) ==
    JoinClause(column_ref(expect(column_ref(expect(table_ref(s), Keyword("ON"))), <<"compare", "Eq">>)))

RECURSIVE Joins(_)
Joins(s) ==
    IF s.ok /\ peek(s) \in {Keyword(k) : k \in {"JOIN", "INNER"} \union Outer}
    THEN Joins(Collect(join(join_kind(s)))) ELSE s

where(s) ==
    IF At(s, Keyword("WHERE")) THEN condition(advance(s), FALSE) ELSE Push(s, NoCondition)

group_by_columns(s) ==
    IF At(s, Keyword("GROUP")) THEN List(expect(advance(s), Keyword("BY")), "column") ELSE Push(s, <<>>)

having(s) ==
    IF At(s, Keyword("HAVING")) THEN condition(advance(s), TRUE) ELSE Push(s, NoCondition)

order_items(s) ==
    IF At(s, Keyword("ORDER")) THEN List(expect(advance(s), Keyword("BY")), "order") ELSE Push(s, <<>>)

row_count(s) ==
    IF s.ok /\ peek(s)[1] = "integer" THEN Push(advance(s), peek(s))
    ELSE IF At(s, Placeholder) THEN next_parameter(advance(s)) ELSE Fail(s)

\* The two top nodes are the limit and the offset; a third goes to its place.
Limited(s) == IF s.ok THEN [s EXCEPT !.out = Below(s, 3) \o <<Out(s, 0), Out(s, 1)>>] ELSE s
Skipped(s) == IF s.ok THEN [s EXCEPT !.out = Below(s, 3) \o <<Out(s, 2), Out(s, 0)>>] ELSE s

\* LIMIT and OFFSET in either order, once each.
RECURSIVE Paged(_)
Paged(s) ==
    CASE At(s, Keyword("LIMIT")) /\ Out(s, 1) = NoCount -> Paged(Limited(row_count(advance(s))))
      [] At(s, Keyword("OFFSET")) /\ Out(s, 0) = NoCount -> Paged(Skipped(row_count(advance(s))))
      [] OTHER -> s

SelectOf(s) ==
    Made(s, 10, [kind |-> "select", distinct |-> Out(s, 9), items |-> Out(s, 8), from |-> Out(s, 7),
                 joins |-> Out(s, 6), filter |-> Out(s, 5), group_by |-> Out(s, 4), having |-> Out(s, 3),
                 order_by |-> Out(s, 2), limit |-> Out(s, 1), offset |-> Out(s, 0)])

\* Without a select list (*) items is empty.
select(s) ==
    SelectOf(Paged(Push(Push(order_items(having(group_by_columns(where(Joins(Push(
        table_ref(expect(projection(Flag(advance(s), Keyword("DISTINCT"))), Keyword("FROM"))),
        <<>>)))))), NoCount), NoCount)))

-----------------------------------------------------------------------------
(* INSERT, UPDATE and DELETE                                               *)

Once(names) == \A i, j \in DOMAIN names : names[i] = names[j] => i = j

InsertOf(s) ==
    IF s.ok /\ Once(Out(s, 1)) /\ Len(Out(s, 1)) = Len(Out(s, 0))
    THEN Made(s, 3, [kind |-> "insert", table |-> Out(s, 2), columns |-> Out(s, 1), values |-> Out(s, 0)])
    ELSE Fail(s)

insert(s) ==
    InsertOf(Parenthesized(expect(Parenthesized(
        identifier(expect(advance(s), Keyword("INTO"))), "name"), Keyword("VALUES")), "value"))

required_where(s) == IF At(s, Keyword("WHERE")) THEN condition(advance(s), FALSE) ELSE Fail(s)

UpdateOf(s) ==
    IF s.ok /\ Once([i \in DOMAIN Out(s, 1) |-> Out(s, 1)[i].column])
    THEN Made(s, 3, [kind |-> "update", table |-> Out(s, 2), assignments |-> Out(s, 1), filter |-> Out(s, 0)])
    ELSE Fail(s)

update(s) ==
    UpdateOf(required_where(List(expect(identifier(advance(s)), Keyword("SET")), "assignment")))

Restrict(s) == IF s.ok /\ ~Out(s, 0) THEN eat(s, Keyword("RESTRICT")) ELSE s

DeleteOf(s) ==
    Made(s, 3, [kind |-> "delete", table |-> Out(s, 2), filter |-> Out(s, 1), cascade |-> Out(s, 0)])

delete(s) ==
    DeleteOf(Restrict(Flag(required_where(identifier(expect(advance(s), Keyword("FROM")))),
                           Keyword("CASCADE"))))

-----------------------------------------------------------------------------

transaction(s, kind) == Push(eat(advance(s), Keyword("TRANSACTION")), [kind |-> kind])

statement(s) ==
    CASE At(s, Keyword("SELECT")) -> select(s)
      [] At(s, Keyword("INSERT")) -> insert(s)
      [] At(s, Keyword("UPDATE")) -> update(s)
      [] At(s, Keyword("DELETE")) -> delete(s)
      [] At(s, Keyword("BEGIN")) -> transaction(s, "begin")
      [] At(s, Keyword("COMMIT")) -> transaction(s, "commit")
      [] At(s, Keyword("ROLLBACK")) -> transaction(s, "rollback")
      [] OTHER -> Fail(s)

\* One statement, an optional semicolon, and nothing else.
finish(s) == expect(eat(s, Symbol(";")), Eof)

Refused == [ok |-> FALSE]

Parsed(s) ==
    IF s.ok THEN [ok |-> TRUE, statement |-> Out(s, 0), parameter_count |-> s.parameters] ELSE Refused

parse(tokens) == Parsed(finish(statement(ParserOf(tokens))))
=============================================================================
