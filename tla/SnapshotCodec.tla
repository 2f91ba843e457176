--------------------------- MODULE SnapshotCodec ---------------------------
(***************************************************************************)
(* How records of a table are laid out, and how the two readers of the     *)
(* layout take them apart: the derived Encode of a compiled record, and    *)
(* the codec of a migration, which follows a stored snapshot.              *)
(*                                                                         *)
(* A record is a sequence of bytes, and a byte has Byte values.  Integers  *)
(* are little endian of one byte or two; a text is a length byte and that  *)
(* many bytes (the code uses two).  The remaining fixed types differ from  *)
(* these in width only.                                                    *)
(***************************************************************************)
EXTENDS Integers, Sequences, SequencesExt

CONSTANT Byte    \* the number of values of a byte

ASSUME ByteAssumption == Byte \in Nat /\ Byte > 1 /\ Byte % 2 = 0

Value(type, v) == [type |-> type, v |-> v]
Null == Value("Null", <<>>)

\* What a decoder returns on bytes it cannot take apart.
Malformed == Value("Malformed", <<>>)

Width(type) == IF type = "Uint8" THEN 1 ELSE 2

\* The numbers of an integer type.
Least(type) == IF type = "Int16" THEN 0 - (Byte * Byte) \div 2 ELSE 0
Greatest(type) ==
    CASE type = "Uint8" -> Byte - 1
      [] type = "Uint16" -> Byte * Byte - 1
      [] type = "Int16" -> (Byte * Byte) \div 2 - 1

encode_non_nullable(value) ==
    LET n == value.v[1] IN
    CASE value.type = "Uint8" -> <<n>>
      [] value.type \in {"Uint16", "Int16"} -> <<n % Byte, (n \div Byte) % Byte>>
      [] value.type = "Text" -> <<Len(value.v)>> \o value.v

\* The value of type at the head of bytes and the number of bytes it takes.
decode_non_nullable(type, bytes) ==
    LET size == IF type = "Text" THEN 1 + (IF bytes = <<>> THEN 0 ELSE bytes[1]) ELSE Width(type)
        unsigned == IF size = 1 THEN bytes[1] ELSE bytes[1] + Byte * bytes[2]
        number == IF unsigned > Greatest(type) THEN unsigned - Byte * Byte ELSE unsigned
    IN  IF Len(bytes) < size THEN [value |-> Malformed, used |-> 0]
        ELSE [value |-> Value(type, IF type = "Text" THEN SubSeq(bytes, 2, size) ELSE <<number>>),
              used |-> size]

\* One column.  The stored snapshot's codec knows the flags 0 and 1; the
\* derived decoder of a compiled record takes every other flag for 1.
decode_column(column, bytes, Flags) ==
    LET tail == decode_non_nullable(column.data_type, SubSeq(bytes, 2, Len(bytes)))
    IN  IF ~column.nullable THEN decode_non_nullable(column.data_type, bytes)
        ELSE IF bytes = <<>> \/ bytes[1] \notin Flags THEN [value |-> Malformed, used |-> 0]
        ELSE IF bytes[1] = 0 THEN [value |-> Null, used |-> 1]
        ELSE [value |-> tail.value, used |-> tail.used + 1]

\* A record is read column by column; what is left behind the last one is
\* ignored.  The result is a sequence of values, or <<Malformed>>.
DecodeColumns(bytes, columns, Flags) ==
    LET Read(read, column) ==
          LET one == decode_column(column, SubSeq(bytes, read.offset + 1, Len(bytes)), Flags)
          IN  IF read.values = <<Malformed>> \/ one.value = Malformed
              THEN [read EXCEPT !.values = <<Malformed>>]
              ELSE [values |-> Append(read.values, one.value), offset |-> read.offset + one.used]
    IN  FoldLeft(Read, [values |-> <<>>, offset |-> 0], columns).values

decode_record_by_snapshot(bytes, snapshot) == DecodeColumns(bytes, snapshot.columns, {0, 1})
decode_record(bytes, snapshot) == DecodeColumns(bytes, snapshot.columns, 0..Byte - 1)

EncodesAs(column, value) ==
    value.type = column.data_type \/ (value = Null /\ column.nullable)

encode_column(column, value) ==
    IF ~column.nullable THEN encode_non_nullable(value)
    ELSE IF value = Null THEN <<0>> ELSE <<1>> \o encode_non_nullable(value)

\* The codec refuses a value of another type and a null in a column without
\* a flag, and a row with another number of values.
Encodes(values, snapshot) ==
    /\ Len(values) = Len(snapshot.columns)
    /\ \A i \in DOMAIN values : EncodesAs(snapshot.columns[i], values[i])

encode_record_by_snapshot(values, snapshot) ==
    FlattenSeq([i \in DOMAIN values |-> encode_column(snapshot.columns[i], values[i])])

(***************************************************************************)
(* Widening.  The ranks of diff.rs and the conversions of widen.rs.        *)
(***************************************************************************)
Rank(type) == CASE type = "Uint8" -> 1 [] type \in {"Uint16", "Int16"} -> 2 [] OTHER -> 0
Signed(type) == type = "Int16"

is_widening(old, new) ==
    Rank(old) > 0 /\ Rank(new) > Rank(old) /\ (Signed(new) \/ ~Signed(old))

\* The number is kept: zero or sign extension.
widen_value(old, new, value) ==
    IF value = Null THEN Null
    ELSE IF value.type = old /\ is_widening(old, new) THEN Value(new, value.v)
    ELSE Malformed
=============================================================================
