----------------------------- MODULE NodeFormat -----------------------------
(***************************************************************************)
(* How a node of an index is stored, and its two readers: BTreeNode takes  *)
(* the whole node apart, NodeView decodes only the keys it compares.       *)
(***************************************************************************)
EXTENDS Wire

NODE_TYPE_INTERNAL == 0
NODE_TYPE_LEAF == 1
NO_PAGE_SENTINEL == Byte^4 - 1
INTERNAL_HEADER_SIZE == 11
LEAF_HEADER_SIZE == 15
RECORD_POINTER_SIZE == 6

\* A parent or a sibling may be missing.
LinkBytes(link) == to_le_bytes(IF link = None THEN NO_PAGE_SENTINEL ELSE link[1], 4)
LinkAt(c) == IF Number(c, 4) = NO_PAGE_SENTINEL THEN None ELSE Some(Number(c, 4))

Pointer(page, offset) == [page |-> page, offset |-> offset]

Leaf(parent, entries, prev, next) ==
    [leaf |-> TRUE, parent |-> parent, entries |-> entries, prev |-> prev, next |-> next]
Internal(parent, entries, rightmost) ==
    [leaf |-> FALSE, parent |-> parent, entries |-> entries, rightmost |-> rightmost]

HeaderSize(node) == IF node.leaf THEN LEAF_HEADER_SIZE ELSE INTERNAL_HEADER_SIZE
TailSize(node) == IF node.leaf THEN RECORD_POINTER_SIZE ELSE 4

EntrySize(node, i) == 2 + Len(encode_values(node.entries[i].key)) + TailSize(node)

EntryBytes(node, entry) ==
    LET key == encode_values(entry.key)
        tail == IF node.leaf THEN to_le_bytes(entry.to.page, 4) \o to_le_bytes(entry.to.offset, 2)
                ELSE to_le_bytes(entry.to, 4)
    IN  to_le_bytes(Len(key), 2) \o key \o tail

NodeBytes(node) ==
    <<IF node.leaf THEN NODE_TYPE_LEAF ELSE NODE_TYPE_INTERNAL>> \o LinkBytes(node.parent) \o
    to_le_bytes(Len(node.entries), 2) \o
    (IF node.leaf THEN LinkBytes(node.prev) \o LinkBytes(node.next) ELSE to_le_bytes(node.rightmost, 4)) \o
    FlattenSeq([i \in DOMAIN node.entries |-> EntryBytes(node, node.entries[i])])

\* serialize stops with KeyTooLarge at the first entry that passes the end
\* of the page, and fills the page with zeros otherwise.
Serializes(node) ==
    \A i \in DOMAIN node.entries :
      HeaderSize(node) + FoldLeft(LAMBDA a, b : a + b, 0, [j \in 1..i |-> EntrySize(node, j)]) <= PageSize

\* Mutant: the rest of the page is not filled.
SerializeUnpadded(node) == NodeBytes(node)

serialize(node) ==
    LET bytes == NodeBytes(node) IN [i \in 1..PageSize |-> IF i <= Len(bytes) THEN bytes[i] ELSE 0]

(***************************************************************************)
(* BTreeNode::deserialize.                                                 *)
(***************************************************************************)
deserialize(page) ==
    LET c == Cursor(page)
        leaf == Number(c, 1) = NODE_TYPE_LEAF
        EntryOf(d, key, tail) ==
          [v |-> [key |-> key.v,
                  to |-> IF leaf THEN Pointer(Number(tail, 4), Number(Skip(tail, 4), 2)) ELSE Number(tail, 4)],
           c |-> IF key.c.ok THEN Skip(tail, IF leaf THEN RECORD_POINTER_SIZE ELSE 4) ELSE Fail(d)]
        Entry(d) == EntryOf(d, decode_values(Cursor(Payload(d, 2))), PastPayload(d, 2))
        Node(parent, entries) ==
          [v |-> IF leaf THEN Leaf(parent, entries.v, LinkAt(Skip(c, 7)), LinkAt(Skip(c, 11)))
                 ELSE Internal(parent, entries.v, Number(Skip(c, 7), 4)),
           c |-> IF leaf \/ Number(c, 1) = NODE_TYPE_INTERNAL THEN entries.c ELSE Fail(c)]
    IN  Node(LinkAt(Skip(c, 1)),
             Repeat(Number(Skip(c, 5), 2), Skip(c, IF leaf THEN LEAF_HEADER_SIZE ELSE INTERNAL_HEADER_SIZE), Entry))

(***************************************************************************)
(* NodeView: where each key starts, found by the lengths alone.            *)
(***************************************************************************)
parse(page) ==
    LET c == Cursor(page)
        leaf == Number(c, 1) = NODE_TYPE_LEAF
        Entry(d) == [v |-> d.at + 2, c |-> Skip(PastPayload(d, 2), IF leaf THEN RECORD_POINTER_SIZE ELSE 4)]
        offsets == Repeat(Number(Skip(c, 5), 2), Skip(c, IF leaf THEN LEAF_HEADER_SIZE ELSE INTERNAL_HEADER_SIZE), Entry)
    IN  [leaf |-> leaf, key_offsets |-> offsets.v, ok |-> offsets.c.ok]

KeyCursor(page, view, i) == Skip(Cursor(page), view.key_offsets[i] - 2)
view_key(page, view, i) == decode_values(Cursor(Payload(KeyCursor(page, view, i), 2))).v

view_pointer(page, view, i) ==
    LET tail == PastPayload(KeyCursor(page, view, i), 2) IN Pointer(Number(tail, 4), Number(Skip(tail, 4), 2))

\* The halvings of a search among n entries: each step keeps the bounds low
\* and high, and what is between them at least halves.  before tells of each
\* entry whether it comes before the point.
partition_point(before) ==
    LET Halve(bounds, i) ==
          LET mid == bounds.low + (bounds.high - bounds.low) \div 2
          IN  IF bounds.low >= bounds.high THEN bounds
              ELSE IF before[mid + 1] THEN [bounds EXCEPT !.low = mid + 1]
              ELSE [bounds EXCEPT !.high = mid]
        n == Len(before)
    IN  FoldLeft(Halve, [low |-> 0, high |-> n], [i \in 1..n |-> i]).low

\* Keys compare column by column; a column here holds numbers of one type.
KeyAtMost(a, b) ==
    \/ a = b
    \/ \E i \in DOMAIN a : a[i].v[1] < b[i].v[1] /\ \A j \in 1..i - 1 : a[j] = b[j]

\* Mutant: a key equal to a separator goes to the child in front of it.
ChildBefore(page, view, key) ==
    LET index == partition_point([i \in DOMAIN view.key_offsets |->
                    view_key(page, view, i) # key /\ KeyAtMost(view_key(page, view, i), key)])
    IN  IF index < Len(view.key_offsets) THEN Number(PastPayload(KeyCursor(page, view, index + 1), 2), 4)
        ELSE Number(Skip(Cursor(page), 7), 4)

child_for(page, view, key) ==
    LET index == partition_point([i \in DOMAIN view.key_offsets |-> KeyAtMost(view_key(page, view, i), key)])
    IN  IF index < Len(view.key_offsets) THEN Number(PastPayload(KeyCursor(page, view, index + 1), 2), 4)
        ELSE Number(Skip(Cursor(page), 7), 4)

\* None for an empty leaf.
first_leaf_key(page) ==
    IF Number(Skip(Cursor(page), 5), 2) = 0 THEN None
    ELSE decode_values(Cursor(Payload(Skip(Cursor(page), LEAF_HEADER_SIZE), 2))).v
=============================================================================
