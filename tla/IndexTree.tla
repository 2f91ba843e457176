----------------------------- MODULE IndexTree -----------------------------
(***************************************************************************)
(* The page-backed B+ tree of one index: entries (key, record address) in  *)
(* leaves that are chained both ways, separators in internal nodes.  Nodes *)
(* split by encoded size on the way up from the leaf; deletion never       *)
(* merges, so emptied leaves stay in the chain.  The same key may occur    *)
(* many times and then spans several leaves, on both sides of a separator  *)
(* equal to it.                                                            *)
(*                                                                         *)
(* An operation runs inside an atomic section: when it fails the journal   *)
(* restores every node it wrote (module JournaledMemory).                  *)
(***************************************************************************)
EXTENDS Integers, Sequences, FiniteSets, SequencesExt

CONSTANTS
    Keys,             \* keys, ordered as integers
    Pointers,         \* record addresses, ordered as integers
    KeySize,          \* encoded size of each key
    LeafCapacity,     \* room for entries in a leaf
    InternalCapacity, \* room for entries in an internal node
    MaxPages          \* bound: the pages the tree may claim

ASSUME IndexAssumption ==
    /\ Keys \subseteq Int
    /\ Pointers \subseteq Int
    /\ KeySize \in [Keys -> Nat \ {0}]
    /\ LeafCapacity \in Nat
    /\ InternalCapacity \in Nat
    /\ MaxPages \in Nat \ {0}

VARIABLES
    nodes,   \* page -> node
    root,    \* the root page recorded in the index ledger
    live,    \* history: the entries inserted and not deleted
    result   \* what the last operation returned

vars == <<nodes, root, live, result>>

NO_PAGE == 0

LeafNode(entries, prev, next, parent) ==
    [leaf |-> TRUE, entries |-> entries, prev |-> prev, next |-> next, parent |-> parent]

InternalNode(entries, rightmost, parent) ==
    [leaf |-> FALSE, entries |-> entries, rightmost |-> rightmost, parent |-> parent]

\* The nodes with `node` written to a page.
Put(ns, page, node) ==
    [p \in DOMAIN ns \cup {page} |-> IF p = page THEN node ELSE ns[p]]

\* The nodes with other entries in a leaf.
PutEntries(ns, p, entries) ==
    Put(ns, p, LeafNode(entries, ns[p].prev, ns[p].next, ns[p].parent))

Leaves(ns) == {p \in DOMAIN ns : ns[p].leaf}

-----------------------------------------------------------------------------
(* Reading a node *)

\* How many leading entries satisfy the predicate.
partition_point(entries, P(_)) ==
    LET i == SelectInSeq(entries, LAMBDA e : ~P(e)) IN IF i = 0 THEN Len(entries) ELSE i - 1

\* Keys equal to a separator route right.
find_child(node, key) ==
    LET i == partition_point(node.entries, LAMBDA e : e.key <= key)
    IN IF i < Len(node.entries) THEN node.entries[i + 1].child ELSE node.rightmost

\* The pages from the root to the leaf `key` routes to.
read_path(ns, from, key) ==
    LET F[p \in DOMAIN ns] ==
            IF ns[p].leaf THEN <<p>> ELSE <<p>> \o F[find_child(ns[p], key)]
    IN F[from]

\* The nearest leaf that is not empty, from `p` backwards.
NonEmptyFrom(ns, p) ==
    LET F[q \in Leaves(ns) \cup {NO_PAGE}] ==
            IF q = NO_PAGE \/ ns[q].entries # <<>> THEN q ELSE F[ns[q].prev]
    IN F[p]

\* Mutant: an empty leaf ends the search for earlier duplicates.
StartAtEmptyLeaf(ns, from, key) ==
    LET F[p \in Leaves(ns)] ==
            IF ns[p].entries # <<>> /\ ns[p].entries[1].key < key THEN p
            ELSE LET q == ns[p].prev
                 IN IF q # NO_PAGE /\ ns[q].entries # <<>> /\ Last(ns[q].entries).key >= key
                    THEN F[q] ELSE p
    IN F[Last(read_path(ns, from, key))]

\* The leftmost leaf that may hold `key`: duplicates continue into earlier
\* leaves, and emptied leaves in between are stepped over.
find_search_start_page(ns, from, key) ==
    LET F[p \in Leaves(ns)] ==
            IF ns[p].entries # <<>> /\ ns[p].entries[1].key < key THEN p
            ELSE LET q == NonEmptyFrom(ns, ns[p].prev)
                 IN IF q # NO_PAGE /\ Last(ns[q].entries).key >= key THEN F[q] ELSE p
    IN F[Last(read_path(ns, from, key))]

-----------------------------------------------------------------------------
(* Lookups *)

\* The entries of a leaf before the first that is not below `key`.
Below(entries, key) == partition_point(entries, LAMBDA e : e.key < key)

\* How many entries equal `key` from there on.
EqualRun(entries, key) ==
    partition_point(SubSeq(entries, Below(entries, key) + 1, Len(entries)), LAMBDA e : e.key = key)

\* Walks the leaves from the start page while entries equal `key`.
search(key) ==
    LET F[p \in Leaves(nodes)] ==
            LET entries == nodes[p].entries
                start   == Below(entries, key)
                end     == start + EqualRun(entries, key)
                found   == SubSeq(entries, start + 1, end)
            IN IF end < Len(entries) \/ nodes[p].next = NO_PAGE
               THEN found ELSE found \o F[nodes[p].next]
    IN F[find_search_start_page(nodes, root, key)]

\* The walker of a range scan: entries in [first, end), leaf after leaf.
range_scan(first, end) ==
    LET F[p \in Leaves(nodes)] ==
            LET entries == nodes[p].entries
                inside  == Below(entries, end)
                found   == SubSeq(entries, 1, inside)
            IN IF inside < Len(entries) \/ nodes[p].next = NO_PAGE
               THEN found ELSE found \o F[nodes[p].next]
        start == find_search_start_page(nodes, root, first)
    IN SubSeq(F[start], Below(nodes[start].entries, first) + 1, Len(F[start]))

\* Every node page reachable from the root, as a dropped table releases them.
index_tree_pages ==
    LET F[p \in DOMAIN nodes] ==
            IF nodes[p].leaf THEN <<p>>
            ELSE <<p>> \o FlattenSeq([i \in DOMAIN nodes[p].entries |-> F[nodes[p].entries[i].child]])
                       \o F[nodes[p].rightmost]
    IN F[root]

-----------------------------------------------------------------------------
(* Splitting *)

SizesOf(entries) == [i \in DOMAIN entries |-> KeySize[entries[i].key]]

Sum(sizes, m, n) ==
    LET upto[k \in 0 .. n] == IF k < m THEN 0 ELSE upto[k - 1] + sizes[k]
    IN upto[n]

would_overflow(node) ==
    Sum(SizesOf(node.entries), 1, Len(node.entries)) >
        (IF node.leaf THEN LeafCapacity ELSE InternalCapacity)

\* The first entry of the right half, or the promoted one; 0 when no split
\* keeps both halves non-empty and within a page.  The first of the best
\* balanced ones is taken.
byte_balanced_split_index(sizes, capacity, promote_median) ==
    LET n == Len(sizes)
        Left(i)  == Sum(sizes, 1, i - 1)
        Right(i) == Sum(sizes, IF promote_median THEN i + 1 ELSE i, n)
        Skew(i)  == IF Left(i) > Right(i) THEN Left(i) - Right(i) ELSE Right(i) - Left(i)
        Valid == {i \in 2 .. n : /\ promote_median => i < n
                                 /\ Left(i) <= capacity
                                 /\ Right(i) <= capacity}
        Best  == {i \in Valid : \A j \in Valid : Skew(i) <= Skew(j)}
    IN IF Valid = {} THEN 0 ELSE CHOOSE i \in Best : \A j \in Best : i <= j

\* A tree in the making: nodes, root and the error that stopped it.
Tree == [nodes |-> nodes, root |-> root, err |-> "ok"]

FreshPage(t) == Cardinality(DOMAIN t.nodes) + 1

\* The right half goes to a new leaf that is linked in behind the left one.
SplitLeaf(t, p, at) ==
    LET node  == t.nodes[p]
        right == FreshPage(t)
        linked == [q \in DOMAIN t.nodes |->
                      IF q = node.next THEN [t.nodes[q] EXCEPT !.prev = right] ELSE t.nodes[q]]
        left_half  == LeafNode(SubSeq(node.entries, 1, at - 1), node.prev, right, node.parent)
        right_half == LeafNode(SubSeq(node.entries, at, Len(node.entries)),
                               p, node.next, node.parent)
    IN [t EXCEPT !.nodes = Put(Put(linked, p, left_half), right, right_half)]

\* Mutant: the left half keeps the rightmost child of the whole node.
SplitInternalKeepRightmost(t, p, at) ==
    LET node  == t.nodes[p]
        right == FreshPage(t)
        left_half  == InternalNode(SubSeq(node.entries, 1, at - 1), node.rightmost, node.parent)
        right_half == InternalNode(SubSeq(node.entries, at + 1, Len(node.entries)),
                                   node.rightmost, node.parent)
    IN [t EXCEPT !.nodes = Put(Put(@, p, left_half), right, right_half)]

\* The median moves up; its child becomes the rightmost of the left half.
SplitInternal(t, p, at) ==
    LET node  == t.nodes[p]
        right == FreshPage(t)
        left_half  == InternalNode(SubSeq(node.entries, 1, at - 1), node.entries[at].child,
                                   node.parent)
        right_half == InternalNode(SubSeq(node.entries, at + 1, Len(node.entries)),
                                   node.rightmost, node.parent)
    IN [t EXCEPT !.nodes = Put(Put(@, p, left_half), right, right_half)]

\* The parent learns of the new right sibling.
promote_into_internal(node, key, left, right) ==
    LET i == SelectInSeq(node.entries, LAMBDA e : e.child = left)
        promoted == [key |-> key, child |-> left]
        relinked == [node.entries EXCEPT ![i] = [key |-> @.key, child |-> right]]
    IN IF node.rightmost = left
       THEN InternalNode(Append(node.entries, promoted), right, node.parent)
       ELSE InternalNode(InsertAt(relinked, i, promoted), node.rightmost, node.parent)

\* A split root gets a new root above it.
GrowRoot(t, key, left, right) ==
    LET new_root == FreshPage(t)
        below == [t.nodes EXCEPT ![left].parent = new_root]
        above == InternalNode(<<[key |-> key, child |-> left]>>, right, NO_PAGE)
    IN [t EXCEPT !.nodes = Put(below, new_root, above), !.root = new_root]

\* One level of the way up: nothing, or a split and its promotion.
SplitLevel(t, path, level) ==
    LET p    == path[level]
        node == t.nodes[p]
        at   == byte_balanced_split_index(SizesOf(node.entries),
                    IF node.leaf THEN LeafCapacity ELSE InternalCapacity, ~node.leaf)
        key   == node.entries[at].key
        right == FreshPage(t)
        split == IF node.leaf THEN SplitLeaf(t, p, at) ELSE SplitInternal(t, p, at)
        above == path[level - 1]
        claims == IF level = 1 THEN 2 ELSE 1
    IN IF t.err # "ok" \/ ~would_overflow(node) THEN t
       ELSE IF at = 0 THEN [t EXCEPT !.err = "KeyTooLarge"]
       ELSE IF Cardinality(DOMAIN t.nodes) + claims > MaxPages
       THEN [t EXCEPT !.err = "FailedToAllocatePage"]
       ELSE IF level = 1 THEN GrowRoot(split, key, p, right)
       ELSE [split EXCEPT !.nodes =
                Put(@, above, promote_into_internal(@[above], key, p, right))]

\* From the leaf of a path up to the root.
Climb(start, path) ==
    LET climbed[k \in 0 .. Len(path)] ==
            IF k = 0 THEN start ELSE SplitLevel(climbed[k - 1], path, Len(path) + 1 - k)
    IN climbed[Len(path)]

InsertEntry(t, key, pointer) ==
    LET path == read_path(t.nodes, t.root, key)
        at   == partition_point(t.nodes[Last(path)].entries,
                    LAMBDA e : e.key < key \/ (e.key = key /\ e.pointer < pointer))
        entry == [key |-> key, pointer |-> pointer]
        inserted == InsertAt(t.nodes[Last(path)].entries, at + 1, entry)
    IN IF t.err # "ok" THEN t
       ELSE Climb([t EXCEPT !.nodes = PutEntries(@, Last(path), inserted)], path)

\* The leaf of the entry, looked for from the start page on until a leaf
\* begins behind the key.
LeafHolding(t, entry) ==
    LET F[p \in Leaves(t.nodes)] ==
            LET next == t.nodes[p].next
            IN IF Contains(t.nodes[p].entries, entry) THEN p
               ELSE IF next = NO_PAGE THEN NO_PAGE
               ELSE IF t.nodes[next].entries # <<>> /\ t.nodes[next].entries[1].key > entry.key
               THEN NO_PAGE ELSE F[next]
    IN F[find_search_start_page(t.nodes, t.root, entry.key)]

DeleteEntry(t, key, pointer) ==
    LET entry == [key |-> key, pointer |-> pointer]
        p == LeafHolding(t, entry)
    IN IF p = NO_PAGE THEN [t EXCEPT !.err = "EntryNotFound"]
       ELSE [t EXCEPT !.nodes = PutEntries(@, p, RemoveFirst(@[p].entries, entry))]

-----------------------------------------------------------------------------
(* Operations *)

Init ==
    /\ nodes = [p \in {1} |-> LeafNode(<<>>, NO_PAGE, NO_PAGE, NO_PAGE)]
    /\ root = 1
    /\ live = {}
    /\ result = "ok"

\* The root is persisted in the index ledger when it changed.
Finish(t, entries) ==
    /\ result' = t.err
    /\ IF t.err = "ok"
       THEN nodes' = t.nodes /\ root' = t.root /\ live' = entries
       ELSE UNCHANGED <<nodes, root, live>>

\* A record is indexed once: its address is new under the key.
Insert ==
    \E key \in Keys, pointer \in Pointers :
        /\ <<key, pointer>> \notin live
        /\ Finish(InsertEntry(Tree, key, pointer), live \cup {<<key, pointer>>})

Delete ==
    \E entry \in live : Finish(DeleteEntry(Tree, entry[1], entry[2]), live \ {entry})

\* The record moved: same key, new address.
Update ==
    \E entry \in live, pointer \in Pointers :
        /\ <<entry[1], pointer>> \notin live
        /\ Finish(InsertEntry(DeleteEntry(Tree, entry[1], entry[2]), entry[1], pointer),
                  (live \ {entry}) \cup {<<entry[1], pointer>>})

Next == Insert \/ Delete \/ Update

Spec == Init /\ [][Next]_vars

-----------------------------------------------------------------------------
(* Properties *)

EntrySet == [key : Keys, pointer : Pointers]

\* Nodes are leaves or internal nodes over claimed pages.
TypeOK ==
    /\ root \in DOMAIN nodes
    /\ \A p \in DOMAIN nodes :
         IF nodes[p].leaf
         THEN /\ nodes[p].entries \in Seq(EntrySet)
              /\ {nodes[p].prev, nodes[p].next} \subseteq DOMAIN nodes \cup {NO_PAGE}
         ELSE /\ nodes[p].entries \in Seq([key : Keys, child : DOMAIN nodes])
              /\ nodes[p].rightmost \in DOMAIN nodes

Pairs(entries) == [i \in DOMAIN entries |-> <<entries[i].key, entries[i].pointer>>]

\* An exact lookup returns the records of its key, each once, whatever was
\* split and emptied before, also when duplicates span leaves on both sides
\* of a separator (IndexTree::search).
SearchIsExact ==
    \A key \in Keys :
        LET found == Pairs(search(key))
        IN /\ ToSet(found) = {e \in live : e[1] = key}
           /\ Len(found) = Cardinality(ToSet(found))

\* A range scan returns exactly the entries with a key in [first, end), each
\* once and in key order (IndexTree::range_scan, IndexTreeWalker).  An end behind
\* every key is a scan without an end.
RangeScanIsExact ==
    \A first \in Keys, end \in {key + 1 : key \in Keys} :
        LET found == Pairs(range_scan(first, end))
        IN /\ ToSet(found) = {e \in live : first <= e[1] /\ e[1] < end}
           /\ Len(found) = Cardinality(ToSet(found))
           /\ IsSorted(found, LAMBDA a, b : a[1] <= b[1])

LeavesInOrder ==
    LET F[p \in DOMAIN nodes] ==
            IF nodes[p].leaf THEN <<p>>
            ELSE FlattenSeq([i \in DOMAIN nodes[p].entries |-> F[nodes[p].entries[i].child]])
                   \o F[nodes[p].rightmost]
    IN F[root]

\* The chain of leaves is the tree read from left to right, forwards and
\* backwards, emptied leaves included (split_node).
ChainFollowsTree ==
    LET leaves == LeavesInOrder
    IN \A i \in DOMAIN leaves :
         /\ nodes[leaves[i]].next = (IF i = Len(leaves) THEN NO_PAGE ELSE leaves[i + 1])
         /\ nodes[leaves[i]].prev = (IF i = 1 THEN NO_PAGE ELSE leaves[i - 1])

\* An entry that was inserted is found by the deletion of its record
\* (IndexTree::delete): EntryNotFound would abort the caller's statement.
DeleteFindsEntry == result # "EntryNotFound"

\* A dropped table releases every page the index claimed, each once
\* (index_tree_pages, release_index_tree_pages).
ReleaseIsComplete ==
    /\ ToSet(index_tree_pages) = DOMAIN nodes
    /\ Len(index_tree_pages) = Cardinality(DOMAIN nodes)

\* A key is refused as too large only when "a single key cannot fit into a
\* node page" (MemoryError::KeyTooLarge).
KeyTooLargeMeansTooLarge ==
    (\A key \in Keys : KeySize[key] <= LeafCapacity /\ KeySize[key] <= InternalCapacity)
        => result # "KeyTooLarge"

\* The parent page in a node's header is its parent, and the missing link
\* marks the root (docs/technical/memory.md, internal and leaf node layout).
ParentLinksAreCurrent ==
    /\ \A p \in DOMAIN nodes : (nodes[p].parent = NO_PAGE) <=> (p = root)
    /\ \A p \in DOMAIN nodes : ~nodes[p].leaf =>
         \A i \in DOMAIN nodes[p].entries : nodes[nodes[p].entries[i].child].parent = p

\* A lookup finds the entries of its key and a range scan those of its range,
\* in order, over a leaf chain that is the order of the tree; a deletion finds
\* its entry.
LookupsAreExact == SearchIsExact /\ RangeScanIsExact /\ ChainFollowsTree /\ DeleteFindsEntry
=============================================================================
