----------------------------- MODULE SqlMeaning -----------------------------
(***************************************************************************)
(* What a statement means, by its text alone: the combinations of rows     *)
(* that FROM, JOIN and WHERE keep, the groups and functions by definition, *)
(* the columns of the select list, and the order and the page of them.     *)
(* execute is compared with it on every reachable database.                *)
(***************************************************************************)
EXTENDS SqlEngine

\* The rows of db, with the operations ops for the owner of the transaction.
Seen(caller, db, ops) ==
    [t \in Table |-> IF caller = "Open" THEN VisibleRows(t, RowsIn(db, t), ops) ELSE RowsIn(db, t)]

\* What the answered call was, and the rows its caller saw before it.
Answered(kinds) == last # Idle /\ last.command.statement.kind \in kinds
View == Seen(last.caller, last.stored, last.staged)
ViewIsClean ==
    Joins(last.stored, IF last.caller = "Open" THEN last.staged ELSE NoTransaction)!KeysAreUnique

-----------------------------------------------------------------------------
(* Combinations: a row of every table in scope, with its qualifier         *)

Side(ref, row) == [qualifier |-> ref.qualifier, row |-> row]

NullsOf(t) == [c \in DOMAIN Columns[t] |-> Null]

ValueOf(combination, ref) ==
    LET side == CHOOSE i \in DOMAIN combination :
                    /\ ref.table \in {"", combination[i].qualifier}
                    /\ ref.column \in DOMAIN combination[i].row
    IN  combination[side].row[ref.column]

Meets(combination, clause) ==
    /\ ValueOf(combination, clause.left) # Null
    /\ ValueOf(combination, clause.left) = ValueOf(combination, clause.right)

JoinedWith(left, before, clause, right) ==
    LET Put(c, row) == Append(c, Side(clause.table, row))
        pairs == {p \in left \X right : Meets(Put(p[1], p[2]), clause)}
        padding == [i \in DOMAIN before |-> Side(before[i], NullsOf(before[i].name))]
    IN  {Put(p[1], p[2]) : p \in pairs}
        \union (IF clause.kind \in {"LEFT", "FULL"}
                THEN {Put(c, NullsOf(clause.table.name)) : c \in left \ {p[1] : p \in pairs}} ELSE {})
        \union (IF clause.kind \in {"RIGHT", "FULL"}
                THEN {Put(padding, r) : r \in right \ {p[2] : p \in pairs}} ELSE {})

Tables(s) == <<s.from>> \o [i \in DOMAIN s.joins |-> s.joins[i].table]

Combinations(s, view) ==
    FoldLeft(LAMBDA left, i : JoinedWith(left, SubSeq(Tables(s), 1, i), s.joins[i], view[s.joins[i].table.name]),
             {<<Side(s.from, r)>> : r \in view[s.from.name]}, [i \in DOMAIN s.joins |-> i])

-----------------------------------------------------------------------------
(* Conditions, over the values of their operands                           *)

RECURSIVE Operands(_)
Operands(c) ==
    CASE c.op = "none" -> {}
      [] c.op \in {"And", "Or"} -> Operands(c.l) \union Operands(c.r)
      [] c.op = "Not" -> Operands(c.l)
      [] OTHER -> {c.operand}

\* A literal or a parameter as a value of v's type.
Like(v, expr, params) == Planner!coerce(Planner!input(expr, params), v[1])

RECURSIVE IsTrue(_, _, _)
IsTrue(c, val, params) ==
    CASE c.op = "none" -> TRUE
      [] c.op = "And" -> IsTrue(c.l, val, params) /\ IsTrue(c.r, val, params)
      [] c.op = "Or" -> IsTrue(c.l, val, params) \/ IsTrue(c.r, val, params)
      [] c.op = "Not" -> ~IsTrue(c.l, val, params)
      [] c.op = "IsNull" -> (val[c.operand] = Null) # c.negated
      [] c.op = "In" -> (\E i \in DOMAIN c.value :
                            val[c.operand] = Like(val[c.operand], c.value[i], params)) # c.negated
      [] c.op = "Like" -> (/\ val[c.operand] # Null
                           /\ val[c.operand][2] \in Patterns[Planner!input(c.value, params)[2]].matches) # c.negated
      [] OTHER -> Compare(c.op, val[c.operand], Like(val[c.operand], c.value, params))

Kept(s, params, view) ==
    {c \in Combinations(s, view) : IsTrue(s.filter, [o \in Operands(s.filter) |-> ValueOf(c, o)], params)}

-----------------------------------------------------------------------------
(* Groups and aggregate functions                                          *)

Values(group, o) == {c \in group : ValueOf(c, o) # Null}
Sum(group, o) == FoldSet(LAMBDA c, n : n + Groups(stored, NoTransaction)!value_to_decimal(ValueOf(c, o)), 0, Values(group, o))
Extreme(group, o, Beats(_, _)) ==
    CHOOSE v \in {ValueOf(c, o) : c \in Values(group, o)} : \A d \in Values(group, o) : ~Beats(ValueOf(d, o), v)

\* An operand of a group: a function of its rows, or a column they share.
OfGroup(group, o) ==
    CASE o.fn = "" -> ValueOf(CHOOSE c \in group : TRUE, o)
      [] o.fn = "count" -> <<Uint64, Cardinality(IF o.column = "*" THEN group ELSE Values(group, o))>>
      [] Values(group, o) = {} -> Null
      [] o.fn = "sum" -> <<Decimal, Sum(group, o)>>
      [] o.fn = "avg" -> <<Decimal, Sum(group, o) \div Cardinality(Values(group, o))>>
      [] o.fn = "min" -> Extreme(group, o, Less)
      [] o.fn = "max" -> Extreme(group, o, LAMBDA a, b : Less(b, a))

GroupKey(s, c) == [i \in DOMAIN s.group_by |-> ValueOf(c, s.group_by[i])]

GroupsOfRows(s, kept) ==
    IF s.group_by = <<>> THEN {kept}
    ELSE {{c \in kept : GroupKey(s, c) = key} : key \in {GroupKey(s, c) : c \in kept}}

KeptGroups(s, params, kept) ==
    {g \in GroupsOfRows(s, kept) : IsTrue(s.having, [o \in Operands(s.having) |-> OfGroup(g, o)], params)}

-----------------------------------------------------------------------------
(* The select list, the order and the page                                 *)

HasFunctions(s) ==
    \/ s.group_by # <<>> \/ s.having.op # "none"
    \/ \E i \in DOMAIN s.items : s.items[i].operand.fn # ""
    \/ \E i \in DOMAIN s.order_by : s.order_by[i].operand.fn # ""

NameOf(item) ==
    CASE item.alias # "" -> item.alias
      [] item.operand.fn # "" -> <<item.operand.fn, IF item.operand.column = "*" THEN "" ELSE item.operand.column>>
      [] OTHER -> item.operand.column

\* The name of an item in ORDER BY means the item.
SortedBy(s, i) ==
    LET o == s.order_by[i].operand
        named == {j \in DOMAIN s.items : s.items[j].alias # "" /\ o = [fn |-> "", table |-> "", column |-> s.items[j].alias]}
    IN  IF named = {} THEN o ELSE s.items[First(named)].operand

Star(c) == IF Len(c) = 1 THEN c[1].row ELSE [i \in DOMAIN c |-> c[i].row]

\* A row of the result, with what it is sorted by and what it was made from.
RowUnit(s, c) ==
    [out |-> IF s.items = <<>> THEN Star(c)
             ELSE [i \in DOMAIN s.items |-> <<NameOf(s.items[i]), ValueOf(c, s.items[i].operand)>>],
     keys |-> [i \in DOMAIN s.order_by |-> ValueOf(c, SortedBy(s, i))],
     of |-> IF s.distinct THEN <<>> ELSE c]

GroupUnit(s, g) ==
    [out |-> [i \in DOMAIN s.items |-> <<NameOf(s.items[i]), OfGroup(g, s.items[i].operand)>>],
     keys |-> [i \in DOMAIN s.order_by |-> OfGroup(g, SortedBy(s, i))], of |-> g]

Units(s, params, kept) ==
    IF HasFunctions(s) THEN {GroupUnit(s, g) : g \in KeptGroups(s, params, kept)}
    ELSE {RowUnit(s, c) : c \in kept}

Precedes(s, a, b) ==
    \E k \in DOMAIN s.order_by :
        /\ IF s.order_by[k].descending THEN Less(b[k], a[k]) ELSE Less(a[k], b[k])
        /\ \A j \in 1 .. k - 1 : a[j] = b[j]

Count(expr, params, none) == IF expr[1] = "none" THEN none ELSE Planner!input(expr, params)[2]

\* A unit may be in place n when fewer than n must come before it, and n or
\* more units need not come after it.
MayBeAt(s, units, u, n) ==
    /\ Cardinality({w \in units : Precedes(s, w.keys, u.keys)}) < n
    /\ n <= Cardinality({w \in units : ~Precedes(s, u.keys, w.keys)})

AnswersWith(rows, s, units, offset, limit) ==
    /\ Len(rows) = LET left == IF Cardinality(units) <= offset THEN 0 ELSE Cardinality(units) - offset
                   IN  IF limit < left THEN limit ELSE left
    /\ \A i \in DOMAIN rows : \E u \in units : u.out = rows[i] /\ MayBeAt(s, units, u, offset + i)
    /\ \A u \in units : Cardinality({i \in DOMAIN rows : rows[i] = u.out})
                            <= Cardinality({w \in units : w.out = u.out})

\* A legal SELECT, and no other, returns the rows its text describes, to a
\* caller in a transaction with what it staged: names, aliases and
\* placeholders mean what they say, operators bind as documented, both ways
\* round of a join condition join the same rows, and the page is a page of
\* some sorted order.
SelectsMeanWhatTheySay ==
    Answered({"select"}) /\ ViewIsClean =>
        LET s == last.command.statement
            params == last.command.params
        IN  /\ last.outcome.ok <=> last.command.legal /\ last.caller # "Closed"
            /\ last.outcome.ok => \A units \in {Units(s, params, Kept(s, params, View))} :
                  AnswersWith(last.outcome.answer, s, units, Count(s.offset, params, 0),
                              Count(s.limit, params, Cardinality(units)))

-----------------------------------------------------------------------------
(* Writes                                                                  *)

\* The rows of a table that a WHERE condition is true of.
Named(s, params, rows) ==
    {r \in rows : IsTrue(s.filter, [o \in Operands(s.filter) |-> r[o.column]], params)}

Assigned(s, t, c, expr, params) == Planner!coerce(Planner!input(expr, params), Columns[t][c].type)

Inserted(s, params) ==
    [c \in DOMAIN Columns[s.table] |->
        IF \E i \in DOMAIN s.columns : s.columns[i] = c
        THEN Assigned(s, s.table, c, s.values[CHOOSE i \in DOMAIN s.columns : s.columns[i] = c], params) ELSE Null]

Overwritten(s, params, row) ==
    [c \in DOMAIN row |->
        IF \E i \in DOMAIN s.assignments : s.assignments[i].column = c
        THEN LET i == CHOOSE j \in DOMAIN s.assignments : s.assignments[j].column = c
             IN  Assigned(s, s.table, c, s.assignments[i].value, params)
        ELSE row[c]]

\* The references to a row whose key changes follow it, and the rows that
\* reference a deleted one go with it under CASCADE.
Pointing(u, row, t, rows) == \E c \in DOMAIN row : Columns[u][c].fk = t /\ \E r \in rows : r.id = row[c]

Redirected(u, row, t, rows, s, params) ==
    [c \in DOMAIN row |-> IF Columns[u][c].fk = t /\ \E r \in rows : r.id = row[c]
                          THEN Overwritten(s, params, CHOOSE r \in rows : r.id = row[c]).id ELSE row[c]]

After(s, params, view, hit) ==
    [t \in Table |->
        CASE s.kind = "insert" -> IF t = s.table THEN view[t] \union {Inserted(s, params)} ELSE view[t]
          [] s.kind = "update" ->
               IF t = s.table THEN (view[t] \ hit) \union {Overwritten(s, params, r) : r \in hit}
               ELSE {Redirected(t, r, s.table, hit, s, params) : r \in view[t]}
          [] s.kind = "delete" ->
               IF t = s.table THEN view[t] \ hit
               ELSE IF s.cascade THEN {r \in view[t] : ~Pointing(t, r, s.table, hit)} ELSE view[t]]

\* Keys are unique and every reference has its row.
Consistent(view) ==
    \A t \in Table : \A r \in view[t] :
        /\ \A w \in view[t] : w.id = r.id => w = r
        /\ \A c \in DOMAIN r : Columns[t][c].fk # "" /\ r[c] # Null =>
              \E w \in view[Columns[t][c].fk] : w.id = r[c]

\* The rows a write counts: what it names, and what changed with it.
Affected(s, view, hit, after) ==
    IF s.kind = "insert" THEN 1
    ELSE Cardinality(hit) + FoldSet(LAMBDA t, n : n + Cardinality(view[t] \ after[t]), 0, Table \ {s.table})

Grows(s, view, after) == s.kind = "insert" => Cardinality(after[s.table]) > Cardinality(view[s.table])

\* The write removes rows, or changes keys, that other rows reference.
TouchesReferences(s, params, view, hit) ==
    LET moved == IF s.kind = "update" THEN {r \in hit : Overwritten(s, params, r).id # r.id} ELSE hit IN
    s.kind # "insert" /\ \E t \in Table : \E r \in view[t] : Pointing(t, r, s.table, moved)

\* The write succeeds just when it may, and then does and reports what it says.
Obeys(command, caller, outcome, view, hit, after) ==
    /\ outcome.ok <=> command.legal /\ Consistent(after) /\ Grows(command.statement, view, after)
    /\ outcome.ok => /\ outcome.answer = <<Affected(command.statement, view, hit, after)>>
                     /\ after = Seen(caller, stored, staged)

\* The rows a legal write names and the tables after it.
Hit(s, params, legal) == IF s.kind = "insert" \/ ~legal THEN {} ELSE Named(s, params, View[s.table])
Expected(s, params, legal, hit) == IF legal THEN After(s, params, View, hit) ELSE View

WrittenBy(callers) == Answered({"insert", "update", "delete"}) /\ ViewIsClean /\ last.caller \in callers


\* The same of every write of a transaction, as far as it concerns the view
\* of it.  The engine violates it: a RESTRICT delete of a referenced row is
\* staged, and neither a new key nor CASCADE reaches the rows that reference.
StagedReferencesFollow ==
    LET s == last.command.statement
        params == last.command.params
        legal == last.command.legal
    IN  WrittenBy({"Open"}) /\ Consistent(View) => \A hit \in {Hit(s, params, legal)} :
            LET after == Expected(s, params, legal, hit) IN
            last.outcome.ok => Consistent(after) /\ after = Seen(last.caller, stored, staged)
=============================================================================
