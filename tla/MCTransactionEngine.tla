------------------------ MODULE MCTransactionEngine ------------------------
(***************************************************************************)
(* Model-checking instances of TransactionEngine: users who reference each *)
(* other and the posts that reference them, and users alone.               *)
(***************************************************************************)
EXTENDS TransactionEngine, TLC

CONSTANTS users, posts, x1, x2

Ids == {1, 2, 3}
Vals == {"a", "b"}
AllRows == [id : Ids, ref : Ids \union {Null}, val : Vals]
WithId(i) == {row \in AllRows : row.id = i}

NewRow(i, ref, val) == [id |-> i, ref |-> ref, val |-> val]

Symmetry == Permutations({x1, x2})

NoSanitizer(t, row) == row

\* A sanitizer that maps the spelling b to a.
LowerCase(t, row) == [row EXCEPT !.val = "a"]

-----------------------------------------------------------------------------
\* Users with a unique name and an optional manager, posts that reference
\* their author.  A user is renamed whom others reference, and one who
\* references another; a cascade selects rows that it reaches again.

PostsTarget ==
    posts :> [table |-> users, column |-> "id"] @@ users :> [table |-> users, column |-> "id"]

PostsInserts ==
    {InsertOp(users, NewRow(1, Null, "a")), InsertOp(users, NewRow(2, 1, "b")),
     InsertOp(posts, NewRow(1, 1, "a"))}

PostsUpdates ==
    {UpdateOp(users, WithId(1), [id |-> 3]), UpdateOp(users, WithId(2), [id |-> 1]),
     UpdateOp(posts, AllRows, [ref |-> 2])}

PostsDeletes ==
    {DeleteOp(users, WithId(1), "Restrict"), DeleteOp(users, WithId(1), "Cascade"),
     DeleteOp(users, AllRows, "Cascade")}

\* With these, two users can reference each other.
CyclicUpdates == {UpdateOp(users, WithId(1), [ref |-> 2])}

-----------------------------------------------------------------------------
\* Users alone: two transactions and single operations on the same rows.

UsersTarget == users :> None

UsersInserts ==
    {InsertOp(users, NewRow(1, Null, "a")), InsertOp(users, NewRow(1, Null, "b"))}

UsersUpdates ==
    {UpdateOp(users, WithId(1), [id |-> 2, val |-> "b"])}

UsersDeletes == {DeleteOp(users, AllRows, "Restrict")}
=============================================================================
