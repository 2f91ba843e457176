-------------------------------- MODULE Wire --------------------------------
(***************************************************************************)
(* The bytes the database stores: little-endian numbers, length-prefixed   *)
(* payloads, and the encodings of the values of a column and of an index   *)
(* key.                                                                    *)
(*                                                                         *)
(* A byte has Byte values instead of 256.  Every width is kept (one, two,  *)
(* four and eight bytes), so that the largest length of a one-byte field   *)
(* is Byte - 1, that of a two-byte field is Byte^2 - 1, and a page has     *)
(* Byte^2 bytes, exactly as 256^2 = 65536 in the code.  A name or a text   *)
(* is the sequence of its bytes.                                           *)
(***************************************************************************)
EXTENDS Integers, Sequences, SequencesExt

CONSTANT
    Byte,               \* the number of values of a byte
    DEFAULT_ALIGNMENT   \* what the footprint of a dynamic value is rounded up to

\* The flags of a column take four bits of one byte.
ASSUME WireAssumption ==
    /\ Byte \in Nat /\ Byte >= 16
    /\ DEFAULT_ALIGNMENT \in 1..Byte * Byte /\ (Byte * Byte) % DEFAULT_ALIGNMENT = 0

\* An optional value is a sequence of at most one.
None == <<>>
Some(x) == <<x>>

U8Max == Byte - 1
MSizeMax == Byte * Byte - 1
PageSize == Byte * Byte

AtMostMax(n, max) == IF n > max THEN max ELSE n
saturating_size(header, payload) == AtMostMax(header + payload, MSizeMax)

to_le_bytes(n, width) == [i \in 1..width |-> (n \div Byte^(i - 1)) % Byte]

from_le_bytes(bytes) ==
    LET low[i \in 0..Len(bytes)] == IF i = 0 THEN 0 ELSE low[i - 1] + bytes[i] * Byte^(i - 1)
    IN  low[Len(bytes)]

\* A length or a count in width bytes.  It saturates instead of wrapping.
u8_len(n) == to_le_bytes(AtMostMax(n, U8Max), 1)
length_prefix(n) == to_le_bytes(AtMostMax(n, MSizeMax), 2)

(***************************************************************************)
(* A cursor over stored bytes.  Every decoder checks that the bytes it is  *)
(* about to use are there and otherwise stops with TooShort: ok is then    *)
(* FALSE, and stays so.                                                    *)
(***************************************************************************)
Cursor(bytes) == [data |-> bytes, at |-> 0, ok |-> TRUE]
Skip(c, n) == [c EXCEPT !.at = @ + n, !.ok = @ /\ c.at + n <= Len(c.data)]
Fail(c) == [c EXCEPT !.ok = FALSE]
Take(c, n) == SubSeq(c.data, c.at + 1, c.at + n)
Number(c, width) == IF Skip(c, width).ok THEN from_le_bytes(Take(c, width)) ELSE 0

\* A payload behind its length: the payload, and the cursor behind it.
Payload(c, width) == Take(Skip(c, width), Number(c, width))
PastPayload(c, width) == Skip(Skip(c, width), Number(c, width))

\* n values read one after the other by One, which maps a cursor to a value
\* v and the cursor c behind it.  Every value takes a byte at least, so that
\* a count that exceeds the bytes ends in TooShort.
Repeat(n, c, One(_)) ==
    LET Read(read, i) == LET one == One(read.c) IN [c |-> one.c, v |-> Append(read.v, one.v)]
    IN  IF n > Len(c.data) THEN [c |-> Fail(c), v |-> <<>>]
        ELSE FoldLeft(Read, [c |-> c, v |-> <<>>], [i \in 1..n |-> i])

(***************************************************************************)
(* Values.  A fixed-size type is a tuple of numbers of fixed widths; Text, *)
(* Blob and Json are a payload behind a two-byte length; a custom value is *)
(* the tag of its type and its own encoding, both behind such a length.    *)
(* Json, and the integers of eight bytes, differ from the types here in    *)
(* width only and are left out: a byte of the instance counts 16 types.    *)
(* The fields of a date keep the range they have in the code, which takes  *)
(* two bytes for one when a byte has fewer values.                         *)
(***************************************************************************)
DateWidths(widths) == [i \in DOMAIN widths |-> IF Byte < 256 THEN 2 * widths[i] ELSE widths[i]]

Widths(type) ==
    CASE type = "Boolean" -> <<1>>
      [] type = "Date" -> DateWidths(<<2, 1, 1>>)
      [] type = "DateTime" -> DateWidths(<<2, 1, 1, 1, 1, 1, 4, 2>>)
      [] type = "Int8" -> <<1>>
      [] type = "Int16" -> <<2>>
      [] type = "Int32" -> <<4>>
      [] type = "Uint8" -> <<1>>
      [] type = "Uint16" -> <<2>>
      [] type = "Uint32" -> <<4>>
      [] type \in {"Decimal", "Uuid"} -> [i \in 1..16 |-> 1]

\* The last number of these is signed: the offset of a DateTime, an integer.
SignedTail == {"DateTime", "Int8", "Int16", "Int32"}

Fixed(type, numbers) == [type |-> type, v |-> numbers]
Dynamic(type, bytes) == [type |-> type, v |-> bytes]
Custom(tag, bytes) == [type |-> "Custom", tag |-> tag, v |-> bytes]
Null == [type |-> "Null", v |-> <<>>]

Discriminants ==
    <<"Blob", "Boolean", "Date", "DateTime", "Decimal", "Int8", "Int16", "Int32", "Null", "Text",
      "Uint8", "Uint16", "Uint32", "Uuid", "Custom">>
Discriminant(type) == CHOOSE d \in DOMAIN Discriminants : Discriminants[d] = type

encode_fixed(type, numbers) ==
    FlattenSeq([i \in DOMAIN numbers |-> to_le_bytes(numbers[i], Widths(type)[i])])

encode_dynamic(bytes) == length_prefix(Len(bytes)) \o bytes

encode_value(value) ==
    <<Discriminant(value.type)>> \o
    CASE value.type = "Null" -> <<>>
      [] value.type \in {"Blob", "Text"} -> encode_dynamic(value.v)
      [] value.type = "Custom" -> encode_dynamic(value.tag) \o encode_dynamic(value.v)
      [] OTHER -> encode_fixed(value.type, value.v)

FixedSize(type) == FoldLeft(LAMBDA n, w : n + w, 0, Widths(type))

value_size(value) ==
    saturating_size(1,
        CASE value.type = "Null" -> 0
          [] value.type \in {"Blob", "Text"} -> saturating_size(2, Len(value.v))
          [] value.type = "Custom" -> saturating_size(2, Len(value.tag) + 2 + Len(value.v))
          [] OTHER -> FixedSize(value.type))

decode_fixed(type, c) ==
    LET widths == Widths(type)
        Start(i) == FoldLeft(LAMBDA n, w : n + w, 0, SubSeq(widths, 1, i - 1))
        Unsigned(i) == Number(Skip(c, Start(i)), widths[i])
        Signed(n, w) == IF 2 * n < Byte^w THEN n ELSE n - Byte^w
        numbers == [i \in DOMAIN widths |->
                      IF type \in SignedTail /\ i = Len(widths) THEN Signed(Unsigned(i), widths[i])
                      ELSE IF type = "Boolean" THEN AtMostMax(Unsigned(i), 1)
                      ELSE Unsigned(i)]
    IN  [v |-> Fixed(type, numbers), c |-> Skip(c, FixedSize(type))]

decode_custom_value(c) ==
    [v |-> Custom(Payload(c, 2), Payload(PastPayload(c, 2), 2)), c |-> PastPayload(PastPayload(c, 2), 2)]

\* The value at the cursor.  What is left behind it is not looked at.
decode_value(c) ==
    LET Tagged(d, rest) ==
          IF ~rest.ok \/ d \notin DOMAIN Discriminants THEN [v |-> Null, c |-> Fail(c)]
          ELSE CASE Discriminants[d] = "Null" -> [v |-> Null, c |-> rest]
                 [] Discriminants[d] \in {"Blob", "Text"} ->
                      [v |-> Dynamic(Discriminants[d], Payload(rest, 2)), c |-> PastPayload(rest, 2)]
                 [] Discriminants[d] = "Custom" -> decode_custom_value(rest)
                 [] OTHER -> decode_fixed(Discriminants[d], rest)
    IN  Tagged(Number(c, 1), Skip(c, 1))

(***************************************************************************)
(* An index key: the values of the columns, each behind its length.        *)
(***************************************************************************)
MIN_ENCODED_VEC_ENTRY_SIZE == 4 + 1

encode_values(values) ==
    to_le_bytes(Len(values), 4) \o
    FlattenSeq([i \in DOMAIN values |->
                  LET bytes == encode_value(values[i]) IN to_le_bytes(Len(bytes), 4) \o bytes])

decode_values(c) ==
    LET OneOf(d, value) == [v |-> value.v, c |-> IF value.c.ok THEN PastPayload(d, 4) ELSE Fail(d)]
        One(d) == OneOf(d, decode_value(Cursor(Payload(d, 4))))
        Counted(count, head) ==
          IF ~head.ok \/ count > (Len(c.data) - head.at) \div MIN_ENCODED_VEC_ENTRY_SIZE
          THEN [v |-> <<>>, c |-> Fail(head)]
          ELSE Repeat(count, head, One)
    IN  Counted(Number(c, 4), Skip(c, 4))

(***************************************************************************)
(* A page.  write_at refuses a value whose padded bytes cross the end of   *)
(* the page; it writes the bytes and the padding and leaves the tail of    *)
(* the page as it was.  read_at hands the whole page to the decoder.       *)
(***************************************************************************)
align_up(n) == ((n + DEFAULT_ALIGNMENT - 1) \div DEFAULT_ALIGNMENT) * DEFAULT_ALIGNMENT

Blank == [i \in 1..PageSize |-> 0]
Fits(bytes) == align_up(Len(bytes)) <= PageSize

write_at(page, bytes) ==
    LET padded == align_up(Len(bytes))
    IN  [i \in 1..PageSize |-> IF i <= Len(bytes) THEN bytes[i] ELSE IF i <= padded THEN 0 ELSE page[i]]

read_at(page) == Cursor(page)
=============================================================================
