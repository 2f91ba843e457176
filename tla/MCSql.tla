-------------------------------- MODULE MCSql --------------------------------
(***************************************************************************)
(* Model-checking instance of the SQL front end: the statements, how each  *)
(* is spelled in tokens with no more parentheses than needed, and two      *)
(* tables that both have columns id and b.                                 *)
(***************************************************************************)
EXTENDS SqlMeaning, TLC

Def(type, nullable, key, fk) ==
    [type |-> type, nullable |-> nullable, primary_key |-> key, unique |-> key, fk |-> fk]

MCColumns ==
    [items |-> [id |-> Def(Uint64, FALSE, TRUE, ""), a |-> Def(Int32, FALSE, FALSE, ""),
                b |-> Def(Text, TRUE, FALSE, ""), o |-> Def(Uint64, TRUE, FALSE, "owners")],
     owners |-> [id |-> Def(Uint64, FALSE, TRUE, ""), b |-> Def(Text, TRUE, FALSE, ""),
                 u |-> Def(Uuid, TRUE, FALSE, "")]]
MCIndexes == [items |-> <<<<"id">>, <<"b", "a">>>>, owners |-> <<<<"id">>>>]
MCOutput == <<"agg0", "agg1", "agg2">>
MCFits == Uint64 :> 0 .. 9 @@ Int32 :> -2 .. 2
MCReads == Uuid :> (1 :> 7)
MCPatterns == 0 :> [valid |-> TRUE, matches |-> {0}] @@ 1 :> [valid |-> TRUE, matches |-> {0, 1}]

N(n) == <<Uint64, n>>
T(n) == <<Text, n>>
Item(id, a, b, o) == [id |-> N(id), a |-> <<Int32, a>>, b |-> b, o |-> o]
Owner(id, b, u) == [id |-> N(id), b |-> b, u |-> u]

MCContents ==
    {[items |-> 1 :> Item(1, 0, T(0), N(1)) @@ 2 :> Item(2, 1, T(1), Null) @@ 3 :> Item(3, 1, T(0), N(1)),
      owners |-> 1 :> Owner(1, T(0), <<Uuid, 7>>) @@ 2 :> Owner(2, Null, Null)]}

-----------------------------------------------------------------------------
(* Spelling                                                                *)

K(word) == <<Parser!Keyword(word)>>
S(symbol) == <<Parser!Symbol(symbol)>>
Id(name) == <<Parser!Name(name)>>

Commas(list) == IF list = <<>> THEN <<>> ELSE FoldLeft(LAMBDA acc, x : acc \o S(",") \o x, list[1], Tail(list))
When(test, tokens) == IF test THEN tokens ELSE <<>>

SpellRef(r) == When(r.table # "", Id(r.table) \o S(".")) \o Id(r.column)
SpellOperand(o) ==
    IF o.fn = "" THEN SpellRef(o)
    ELSE Id(o.fn) \o S("(") \o (IF o.column = "*" THEN S("*") ELSE SpellRef(o)) \o S(")")
SpellValue(v) ==
    CASE v[1] = "parameter" -> S("?")
      [] v[1] = "literal" -> K(v[2])
      [] v[1] = "string" -> <<v>>
      [] OTHER -> When(v[2] < 0, S("-")) \o <<<<v[1], IF v[2] < 0 THEN -v[2] ELSE v[2]>>>>

\* Parentheses where the condition binds less than its place demands.
RECURSIVE SpellCondition(_, _)
SpellCondition(c, place) ==
    LET not == When(c.op \in {"In", "Like", "IsNull"} /\ c.negated, K("NOT"))
        Inside(level, tokens) == IF level < place THEN S("(") \o tokens \o S(")") ELSE tokens
    IN  CASE c.op = "Or" -> Inside(0, SpellCondition(c.l, 0) \o K("OR") \o SpellCondition(c.r, 1))
          [] c.op = "And" -> Inside(1, SpellCondition(c.l, 1) \o K("AND") \o SpellCondition(c.r, 2))
          [] c.op = "Not" -> K("NOT") \o SpellCondition(c.l, 2)
          [] c.op = "IsNull" -> SpellOperand(c.operand) \o K("IS") \o not \o K("NULL")
          [] c.op = "In" -> SpellOperand(c.operand) \o not \o K("IN") \o S("(")
                              \o Commas([i \in DOMAIN c.value |-> SpellValue(c.value[i])]) \o S(")")
          [] c.op = "Like" -> SpellOperand(c.operand) \o not \o K("LIKE") \o SpellValue(c.value)
          [] OTHER -> SpellOperand(c.operand) \o <<<<"compare", c.op>>>> \o SpellValue(c.value)

Clause(word, c) == When(c.op # "none", K(word) \o SpellCondition(c, 0))

SpellTable(t) == Id(t.name) \o When(t.qualifier # t.name, Id(t.qualifier))
SpellItem(i) == SpellOperand(i.operand) \o When(i.alias # "", K("AS") \o Id(i.alias))
SpellJoin(j) ==
    K(j.kind) \o K("JOIN") \o SpellTable(j.table) \o K("ON")
      \o SpellRef(j.left) \o <<<<"compare", "Eq">>>> \o SpellRef(j.right)
SpellCount(word, n) == When(n[1] # "none", K(word) \o SpellValue(n))

SpellSelect(s) ==
    K("SELECT") \o When(s.distinct, K("DISTINCT"))
      \o (IF s.items = <<>> THEN S("*") ELSE Commas([i \in DOMAIN s.items |-> SpellItem(s.items[i])]))
      \o K("FROM") \o SpellTable(s.from) \o FlattenSeq([i \in DOMAIN s.joins |-> SpellJoin(s.joins[i])])
      \o Clause("WHERE", s.filter)
      \o When(s.group_by # <<>>, K("GROUP") \o K("BY") \o Commas([i \in DOMAIN s.group_by |-> SpellRef(s.group_by[i])]))
      \o Clause("HAVING", s.having)
      \o When(s.order_by # <<>>, K("ORDER") \o K("BY") \o Commas([i \in DOMAIN s.order_by |->
             SpellOperand(s.order_by[i].operand) \o When(s.order_by[i].descending, K("DESC"))]))
      \o SpellCount("OFFSET", s.offset) \o SpellCount("LIMIT", s.limit)

Spelled(s) ==
    CASE s.kind = "select" -> SpellSelect(s)
      [] s.kind = "insert" ->
           K("INSERT") \o K("INTO") \o Id(s.table) \o S("(") \o Commas([i \in DOMAIN s.columns |-> Id(s.columns[i])])
             \o S(")") \o K("VALUES") \o S("(") \o Commas([i \in DOMAIN s.values |-> SpellValue(s.values[i])]) \o S(")")
      [] s.kind = "update" ->
           K("UPDATE") \o Id(s.table) \o K("SET")
             \o Commas([i \in DOMAIN s.assignments |->
                    Id(s.assignments[i].column) \o <<<<"compare", "Eq">>>> \o SpellValue(s.assignments[i].value)])
             \o Clause("WHERE", s.filter)
      [] s.kind = "delete" ->
           K("DELETE") \o K("FROM") \o Id(s.table) \o Clause("WHERE", s.filter) \o When(s.cascade, K("CASCADE"))
      [] s.kind = "begin" -> K("BEGIN") \o K("TRANSACTION")
      [] s.kind = "commit" -> K("COMMIT")
      [] s.kind = "rollback" -> K("ROLLBACK")

Command(s, params, legal, end) ==
    [tokens |-> Spelled(s) \o end \o <<Parser!Eof>>, params |-> params, statement |-> s, legal |-> legal]
Legal(s) == Command(s, <<>>, TRUE, S(";"))
With(s, params) == Command(s, params, TRUE, <<>>)
Illegal(s) == Command(s, <<>>, FALSE, <<>>)

-----------------------------------------------------------------------------
(* Statements                                                              *)

Lit(n) == <<"integer", n>>
Str(n) == <<"string", n>>
Param(n) == <<"parameter", n>>
C(column) == Parser!Column("", column)
Q(table, column) == Parser!Column(table, column)
Fn(fn, column) == [fn |-> fn, table |-> "", column |-> column]
Is(o, op, v) == [op |-> op, operand |-> o, value |-> v]
In(o, values, negated) == [op |-> "In", operand |-> o, value |-> values, negated |-> negated]
LikeTest(o, v, negated) == [op |-> "Like", operand |-> o, value |-> v, negated |-> negated]
NullTest(o, negated) == [op |-> "IsNull", operand |-> o, negated |-> negated]
As(o, name) == [operand |-> o, alias |-> name]
By(o, desc) == [operand |-> o, descending |-> desc]
Table1(name) == [name |-> name, qualifier |-> name]
TableAs(name, q) == [name |-> name, qualifier |-> q]
JoinOn(kind, table, left, right) == [kind |-> kind, table |-> table, left |-> left, right |-> right]

Base == [kind |-> "select", distinct |-> FALSE, items |-> <<>>, from |-> Table1("items"), joins |-> <<>>,
         filter |-> Parser!NoCondition, group_by |-> <<>>, having |-> Parser!NoCondition, order_by |-> <<>>,
         limit |-> Parser!NoCount, offset |-> Parser!NoCount]
Where(c) == [Base EXCEPT !.filter = c]
List(items) == [Base EXCEPT !.items = items]

A1 == Is(C("a"), "Eq", Lit(1))
B0 == Is(C("b"), "Eq", Str(0))
Id1 == Is(C("id"), "Gt", Lit(1))

Joined(kind, swap, c) ==
    [Base EXCEPT !.items = <<As(Q("i", "id"), "who"), As(Q("w", "b"), ""), As(C("a"), "")>>,
                 !.from = TableAs("items", "i"),
                 !.joins = <<JoinOn(kind, TableAs("owners", "w"), IF swap THEN Q("w", "id") ELSE C("o"),
                                    IF swap THEN C("o") ELSE Q("w", "id"))>>, !.filter = c]

Grouped == [List(<<As(C("b"), ""), As(Fn("sum", "a"), "b2"), As(Fn("count", "*"), "")>>) EXCEPT !.group_by = <<C("b")>>]

Selects ==
    {Legal(Base),
     Legal(Where(Or(A1, And(B0, Id1)))), Legal(Where(And(Or(A1, B0), Id1))), Legal(Where(Or(And(A1, B0), Id1))),
     Legal(Where(Not(And(A1, B0)))), Legal(Where(And(Not(A1), B0))),
     Legal(Where(Or(In(C("b"), <<Str(1)>>, TRUE), NullTest(C("o"), TRUE)))),
     Legal(Where(And(LikeTest(C("b"), Str(1), FALSE), Is(C("a"), "Ge", Lit(-1))))),
     With([Where(And(Is(C("a"), "Ge", Param(1)), In(C("id"), <<Param(2), Lit(2)>>, FALSE))) EXCEPT
             !.offset = Param(3), !.limit = Param(4), !.order_by = <<By(C("id"), TRUE)>>],
          <<N(1), <<Int32, 1>>, N(0), N(1)>>),
     Legal([List(<<As(C("a"), "id"), As(C("id"), "")>>) EXCEPT
             !.order_by = <<By(C("id"), FALSE), By(Q("items", "id"), TRUE)>>, !.limit = Lit(2)]),
     Legal([List(<<As(C("b"), ""), As(C("a"), "x")>>) EXCEPT !.distinct = TRUE, !.order_by = <<By(C("x"), TRUE)>>]),
     Legal([List(<<As(C("b"), "")>>) EXCEPT !.order_by = <<By(C("a"), FALSE), By(C("id"), TRUE)>>, !.offset = Lit(1)]),
     Legal(Joined("INNER", FALSE, Parser!NoCondition)), Legal(Joined("LEFT", TRUE, Parser!NoCondition)),
     Legal(Joined("RIGHT", TRUE, NullTest(Q("i", "id"), FALSE))),
     Legal([Joined("FULL", FALSE, Or(Is(Q("w", "b"), "Eq", Str(0)), NullTest(Q("w", "id"), FALSE))) EXCEPT
             !.order_by = <<By(C("who"), TRUE)>>, !.limit = Lit(2)]),
     Legal([Base EXCEPT !.from = TableAs("owners", "items"), !.filter = Is(Q("items", "u"), "Eq", Str(1))]),
     Legal(Grouped), Legal([Grouped EXCEPT !.having = And(Is(Fn("count", "*"), "Ge", Lit(1)), Is(Fn("max", "id"), "Gt", Lit(1))),
                                           !.order_by = <<By(C("b2"), TRUE)>>]),
     Legal([Grouped EXCEPT !.order_by = <<By(Fn("avg", "a"), FALSE), By(Q("items", "b"), FALSE)>>, !.limit = Lit(1)]),
     With([List(<<As(Fn("min", "b"), ""), As(Fn("count", "o"), ""), As(Fn("avg", "a"), "")>>) EXCEPT
             !.filter = Is(C("id"), "Gt", Param(1)), !.having = Is(Fn("avg", "a"), "Ne", <<"float", 6>>)], <<N(2)>>)}

IllegalSelects ==
    {Illegal(Where(Or(Or(A1, B0), Not(Or(A1, Id1))))),
     Illegal(Where(Is(C("c"), "Eq", Lit(1)))), Illegal([Base EXCEPT !.from = Table1("nobody")]),
     Illegal([Where(Is(Q("items", "a"), "Eq", Lit(1))) EXCEPT !.from = TableAs("items", "i")]),
     Illegal(Where(Is(C("a"), "Eq", Lit(3)))), Illegal(Where(Is(C("a"), "Eq", Str(1)))),
     Illegal(Where(Is(C("b"), "Eq", Parser!NullLiteral))), Illegal(Where(Is(Fn("sum", "a"), "Eq", Lit(1)))),
     Command(Where(Is(C("b"), "Eq", Param(1))), <<Null>>, FALSE, <<>>),
     Command(Where(Is(C("b"), "Eq", Param(1))), <<T(0), T(1)>>, FALSE, <<>>),
     Command(Base, <<>>, FALSE, S(";") \o K("COMMIT")), Command(Base, <<>>, FALSE, K("LIMIT") \o S("-") \o <<Lit(1)>>),
     Command([Base EXCEPT !.limit = Lit(1)], <<>>, FALSE, K("LIMIT") \o <<Lit(1)>>), Illegal([Base EXCEPT !.limit = Lit(5)]),
     Illegal([Joined("INNER", FALSE, Parser!NoCondition) EXCEPT !.items = <<As(C("b"), "")>>]),
     Illegal([Joined("INNER", FALSE, Parser!NoCondition) EXCEPT !.distinct = TRUE]),
     Illegal([Joined("LEFT", FALSE, Parser!NoCondition) EXCEPT !.joins[1].left = Q("i", "b")]),
     Illegal([Joined("LEFT", FALSE, Parser!NoCondition) EXCEPT !.joins[1].table = TableAs("items", "j")]),
     Illegal([List(<<As(C("b"), "")>>) EXCEPT !.distinct = TRUE, !.order_by = <<By(C("a"), FALSE)>>]),
     Illegal([Grouped EXCEPT !.items = <<As(C("a"), "")>>]), Illegal([Grouped EXCEPT !.items = <<>>]),
     Illegal([Grouped EXCEPT !.having = LikeTest(C("b"), Str(1), FALSE)]), Illegal(List(<<As(Fn("sum", "b"), "")>>))}

Insert(t, columns, values) == [kind |-> "insert", table |-> t, columns |-> columns, values |-> values]
Update(t, c, v, f) == [kind |-> "update", table |-> t, assignments |-> <<[column |-> c, value |-> v]>>, filter |-> f]
Delete(t, f, cascade) == [kind |-> "delete", table |-> t, filter |-> f, cascade |-> cascade]
IdIs(n) == Is(C("id"), "Eq", Lit(n))

Writes ==
    {With(Insert("items", <<"o", "id", "a">>, <<Param(1), Lit(4), Param(2)>>), <<N(2), N(1)>>),
     Legal(Update("items", "b", Parser!NullLiteral, Or(IdIs(2), And(Is(C("o"), "Eq", Lit(1)), A1)))),
     Legal(Update("owners", "id", Lit(3), IdIs(1))),
     Legal(Delete("owners", Is(Q("owners", "id"), "Eq", Lit(2)), FALSE)), Legal(Delete("owners", IdIs(1), TRUE))}

IllegalWrites ==
    {Illegal(Delete("items", Parser!NoCondition, FALSE)), Illegal(Update("items", "a", Lit(1), Parser!NoCondition)),
     Illegal(Insert("items", <<"id", "b">>, <<Lit(5), Str(0)>>)), Illegal(Update("items", "id", Parser!NullLiteral, A1)),
     Illegal(Insert("items", <<"id", "a", "a">>, <<Lit(5), Lit(0), Lit(1)>>)),
     Illegal(Insert("owners", <<"id", "u">>, <<Lit(5), Str(0)>>))}

Transactions == {Legal([kind |-> k]) : k \in {"begin", "commit", "rollback"}}

MCStatements == Selects \union IllegalSelects \union Writes \union IllegalWrites \union Transactions
=============================================================================
