------------------------------ MODULE MCQueries ------------------------------
(***************************************************************************)
(* Model-checking instance of the query engine: items with a composite     *)
(* index and a reference to their owner, with joins and aggregates over    *)
(* both tables.                                                            *)
(***************************************************************************)
EXTENDS JoinEngine, Aggregates, TLC

Def(type, nullable, key, fk) ==
    [type |-> type, nullable |-> nullable, primary_key |-> key, unique |-> key, fk |-> fk]

MCColumns ==
    [items |-> [id |-> Def(Uint64, FALSE, TRUE, ""), a |-> Def(Int32, TRUE, FALSE, ""),
                b |-> Def(Text, TRUE, FALSE, ""), o |-> Def(Uint64, TRUE, FALSE, "owners"),
                r |-> Def(Uint64, TRUE, FALSE, "owners")],
     owners |-> [id |-> Def(Uint64, FALSE, TRUE, ""), b |-> Def(Text, TRUE, FALSE, "")]]

MCIndexes ==
    [items |-> <<<<"id">>, <<"a">>, <<"b", "a">>>>, owners |-> <<<<"id">>>>]

U(n) == <<Uint64, n>>
I(n) == <<Int32, n>>
T(n) == <<Text, n>>

\* An item has an owner o and a reader r, both of them owners.
Item(id, a, b, o, r) == [id |-> U(id), a |-> a, b |-> b, o |-> o, r |-> r]
Owner(id, b) == [id |-> U(id), b |-> b]

Owners == 1 :> Owner(1, T(0)) @@ 2 :> Owner(2, Null) @@ 4 :> Owner(3, T(1))

MCContents ==
    {[items |-> i, owners |-> Owners] : i \in
        {1 :> Item(1, I(0), T(0), U(1), U(2)) @@ 2 :> Item(2, I(1), T(1), U(2), U(1)) @@ 3 :> Item(3, Null, T(1), Null, U(3)),
         1 :> Item(2, I(1), Null, Null, Null) @@ 3 :> Item(1, I(1), T(1), U(1), U(3)) @@ 4 :> Item(3, I(0), T(1), U(1), Null),
         2 :> Item(1, Null, Null, U(2), U(2))}}

Refs == {U(n) : n \in 1 .. 4} \union {Null}
WithId(n) == {Item(n, a, b, o, r) : a \in {I(0), I(1), I(2), Null}, b \in {T(0), T(1), Null}, o \in Refs, r \in Refs}
Everything == WithId(1) \union WithId(2) \union WithId(3) \union WithId(4)
OwnerWithId(n) == {Owner(n, b) : b \in {T(0), T(1), Null}}

\* Owners are renamed, removed and added again under the references to them.
MCInserts == {InsertOp("items", Item(4, I(1), T(0), U(2), U(4))), InsertOp("items", Item(1, I(2), T(1), Null, U(1))),
              InsertOp("owners", Owner(1, T(1)))}
MCUpdates == {UpdateOp("items", WithId(1), [a |-> I(1)]), UpdateOp("items", WithId(1), [id |-> U(4), b |-> T(1)]),
              UpdateOp("items", Everything, [a |-> Null, b |-> T(0)]), UpdateOp("items", WithId(4), [a |-> I(0)]),
              UpdateOp("owners", OwnerWithId(1), [id |-> U(4)]), UpdateOp("owners", OwnerWithId(2), [id |-> U(1), b |-> T(1)])}
MCDeletes == {DeleteOp("items", WithId(1), "Restrict"), DeleteOp("items", WithId(4), "Restrict"),
              DeleteOp("owners", OwnerWithId(1), "Restrict")}

Predicates ==
    {Pred(op, "a", I(1)) : op \in {"Eq", "Ne", "Gt", "Ge", "Lt", "Le"}}
    \union {Pred("Ge", "a", I(0)), Pred("In", "a", {I(0), I(1)}), Pred("In", "a", {I(1)}), Pred("In", "a", {I(0), I(1), Null}), 
            Pred("NotNull", "a", Null), Pred("IsNull", "a", Null),
            Pred("Eq", "b", T(1)), Pred("NotNull", "b", Null), Pred("Lt", "b", T(1)), Pred("In", "b", {T(0), T(1)}),
            Pred("Eq", "id", U(1)), Pred("Gt", "id", U(1)), Pred("Eq", "o", U(1)), Pred("IsNull", "o", Null),
            Pred("Like", "b", [valid |-> TRUE, matches |-> {1}])}

Small == {Pred("Eq", "a", I(1)), Pred("Ge", "a", I(1)), Pred("NotNull", "b", Null), Pred("Eq", "b", T(1)), Pred("Eq", "id", U(1)),
          Pred("Lt", "a", I(1)), Pred("IsNull", "o", Null), 
          Pred("Like", "b", [valid |-> TRUE, matches |-> {1}]), Pred("Like", "a", [valid |-> TRUE, matches |-> {1}])}

Q(f) == [columns |-> All, distinct_by |-> <<>>, eager |-> {}, filter |-> f, order_by |-> <<>>, limit |-> NoLimit, offset |-> 0]

MCFilters ==
    Predicates \union {And(f, g) : f, g \in Small} \union {Or(f, g) : f, g \in Small}
      \union {And(And(f, g), Pred("Le", "a", I(1))) : f \in Small, g \in Predicates}
      \union {And(Pred("NotNull", "a", Null), Or(f, g)) : f, g \in Small}
      \union {Not(f) : f \in Small}

\* Pages, orders and DISTINCT, with columns that an index covers or not.
Paged ==
    {[columns |-> c, distinct_by |-> d, eager |-> {}, filter |-> f, order_by |-> o, limit |-> p[1], offset |-> p[2]] :
        c \in {All, {"a", "b"}}, d \in {<<>>, <<"b">>, <<"b", "a">>},
        f \in {NoFilter, Pred("Ge", "a", I(1)), Pred("NotNull", "b", Null),
               And(Pred("Eq", "b", T(1)), Pred("Like", "b", [valid |-> TRUE, matches |-> {1}]))},
        o \in {<<>>, <<<<"a", "asc">>>>, <<<<"b", "desc">>, <<"a", "asc">>>>},
        p \in {<<NoLimit, 1>>, <<0, 0>>, <<1, 0>>, <<2, 1>>}}

\* Relations of all rows, of few, of a page, of rows that do not show the reference; no relation.
Eager ==
    {[Q(f) EXCEPT !.eager = {"owners"}, !.limit = p[1], !.order_by = p[2], !.columns = c] :
        f \in {NoFilter, Pred("Eq", "a", I(1)), Pred("IsNull", "o", Null), Pred("Eq", "id", U(1))},
        p \in {<<NoLimit, <<>>>>, <<1, <<>>>>, <<1, <<<<"a", "desc">>>>>>}, c \in {All, {"a", "b"}}}
      \union {[Q(NoFilter) EXCEPT !.eager = {"items"}]}

MCQueriesSet == {<<"items", q>> : q \in {Q(f) : f \in MCFilters} \union Paged \union Eager}

\* An order by a column that is not selected.
UnselectedOrder ==
    {<<"items", [Q(NoFilter) EXCEPT !.columns = {"b", "o"}, !.order_by = <<<<"a", "asc">>>>, !.limit = 1]>>}

Clause(table, type, left, right) == [table |-> table, type |-> type, left |-> left, right |-> right]

JoinFilters ==
    {NoFilter, Pred("Eq", <<"items", "a">>, I(1)), Pred("IsNull", <<"owners", "b">>, Null),
     Pred("Ne", <<"", "a">>, I(0)), Pred("Eq", <<"", "b">>, T(0)),
     Or(Pred("Like", <<"owners", "b">>, [valid |-> TRUE, matches |-> {0}]), Pred("IsNull", <<"items", "a">>, Null)),
     Pred("Like", <<"items", "a">>, [valid |-> TRUE, matches |-> {0}])}

J(from, joins) ==
    {[from |-> from, joins |-> joins, filter |-> f, order_by |-> p[1], limit |-> p[2], offset |-> p[3], columns |-> All] :
        f \in JoinFilters, p \in {<<<<>>, NoLimit, 0>>, <<<<<<<<"", "a">>, "desc">>>>, 2, 1>>,
                               <<<<<<<<"items", "b">>, "desc">>, <<<<"owners", "id">>, "asc">>>>, NoLimit, 1>>}}

JoinTypes == {"inner", "left", "right", "full"}

MCJoinQueries ==
    UNION {J("items", <<Clause("owners", k, <<"", "o">>, "id")>>) : k \in JoinTypes}
      \union UNION {J("owners", <<Clause("items", k, <<"owners", "id">>, "o")>>) : k \in JoinTypes}
      \union UNION {J("owners", <<Clause("items", k[1], <<"", "id">>, "o"), Clause("items", k[2], <<"items", "a">>, "id")>>) :
                        k \in {<<"left", "inner">>, <<"inner", "full">>, <<"full", "right">>}}

MCOutput == <<"agg0", "agg1", "agg2">>

MCAggregates ==
    {<<<<"count", "">>, <<"count", "a">>>>, <<<<"sum", "a">>, <<"avg", "a">>>>,
     <<<<"min", "a">>, <<"max", "b">>, <<"avg", "id">>>>, <<<<"sum", "b">>>>}

MCAggregateQueries ==
    {[table |-> "items", filter |-> f, distinct_by |-> <<>>, group_by |-> g, aggs |-> a, having |-> h,
      order_by |-> p[1], limit |-> p[2], offset |-> p[3]] :
        f \in {NoFilter, Pred("Ge", "a", I(0))}, g \in {<<>>, <<"b">>, <<"o", "b">>}, a \in MCAggregates,
        h \in {NoFilter, Pred("Gt", "agg0", <<Uint64, 1>>), Pred("NotNull", "b", Null)},
        p \in {<<<<>>, NoLimit, 0>>, <<<<<<"agg0", "desc">>, <<"b", "asc">>>>, 1, 1>>}}
=============================================================================
