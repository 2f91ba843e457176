------------------------ MODULE JournaledMemoryProofs ------------------------
(***************************************************************************)
(* Proofs about JournaledMemory, for every number and size of pages, every *)
(* set of records and every bound.  The ledgers are assumed to stay        *)
(* smaller than a page (MaxLinked <= PageCells - 2): without that the size *)
(* of a full page wraps to zero and the journal records nothing: on pages  *)
(* of three cells TLC refutes RollbackRestores.                            *)
(***************************************************************************)
EXTENDS JournaledMemory, SequenceTheorems, TLAPS

Memory == [Page -> [Offset -> Nat]]

\* UndoComplete of any journal and memory.
Undone(j, m, s) ==
    \A p \in Page, o \in Offset :
        /\ (\A i \in 1 .. Len(j) : ~Covers(j[i], p, o)) => m[p][o] = s[p][o]
        /\ \A i \in 1 .. Len(j) :
              /\ Covers(j[i], p, o)
              /\ \A k \in 1 .. i - 1 : ~Covers(j[k], p, o)
              => j[i].original_bytes[o - j[i].offset + 1] = s[p][o]

\* A ledger of at most cap pages below n, none of them reserved.
Ledger(m, p, cap, n) ==
    /\ m[p][0] <= cap
    /\ \A i \in 1 .. m[p][0] : m[p][i] \in RESERVED_PAGES .. n - 1

Ledgers(m, n) ==
    /\ Ledger(m, SCHEMA_PAGE, MaxLinked, n)
    /\ Ledger(m, UNCLAIMED_PAGES_PAGE, UNCLAIMED_PAGES_CAPACITY, n)

BlankFrom(m, n) == \A p \in Page : p >= n => \A o \in Offset : m[p][o] = 0

EntriesBelow(j, n) == \A i \in 1 .. Len(j) : j[i].page < n

\* The inductive invariant.
IInv ==
    /\ TypeOK
    /\ Undone(journal, mem, saved)
    /\ Idle => journal = <<>>
    /\ phase = "rollback" => depth = 0
    /\ EntriesBelow(journal, pages)
    /\ BlankFrom(saved, pages)
    /\ phase = "run" => Ledgers(mem, pages)
    /\ Ledgers(saved, pages)
    /\ claimed \subseteq RESERVED_PAGES .. pages - 1

-----------------------------------------------------------------------------
(* Bytes and ledgers                                                       *)

\* A size below one page is stored as it is.
LEMMA MSizeSmall ==
    ASSUME NEW n \in Nat, n < PageCells
    PROVE  MSize(n) = n
BY SizesAssumption, Z3 DEF MSize

\* A write changes a memory into a memory.
LEMMA WriteType ==
    ASSUME NEW m \in Memory, NEW p \in Page, NEW offset \in Nat, NEW buf \in Seq(Nat)
    PROVE  write_at_raw(m, p, offset, buf) \in Memory
<1> DEFINE cells == [o \in Offset |->
        IF offset <= o /\ o < offset + Len(buf) THEN buf[o - offset + 1] ELSE m[p][o]]
<1>1. ASSUME NEW o \in Offset
      PROVE  cells[o] \in Nat
  <2>1. CASE offset <= o /\ o < offset + Len(buf)
    <3>1. o - offset + 1 \in 1 .. Len(buf)
      BY <2>1, SizesAssumption DEF Offset
    <3>2. buf[o - offset + 1] \in Nat
      BY <3>1
    <3> QED
      BY <2>1, <3>2
  <2>2. CASE ~(offset <= o /\ o < offset + Len(buf))
    BY <2>2 DEF Memory
  <2> QED
    BY <2>1, <2>2
<1>2. cells \in [Offset -> Nat]
  BY <1>1
<1> QED
  BY <1>2 DEF write_at_raw, Memory

\* What a write leaves in each cell.
LEMMA WriteCell ==
    ASSUME NEW m \in Memory, NEW p \in Page, NEW offset \in Nat, NEW buf \in Seq(Nat),
           NEW q \in Page, NEW o \in Offset
    PROVE  write_at_raw(m, p, offset, buf)[q][o] =
               IF q = p /\ offset <= o /\ o < offset + Len(buf)
               THEN buf[o - offset + 1] ELSE m[q][o]
BY DEF write_at_raw, Memory

\* Only the page that is written changes.
LEMMA WriteElsewhere ==
    ASSUME NEW m \in Memory, NEW p \in Page, NEW offset \in Nat, NEW buf \in Seq(Nat),
           NEW q \in Page, q # p
    PROVE  write_at_raw(m, p, offset, buf)[q] = m[q]
BY DEF write_at_raw, Memory

\* A journal entry taken before a write that fits the page.
LEMMA RecordType ==
    ASSUME NEW m \in Memory, NEW p \in Page, NEW offset \in Offset, NEW len \in Nat,
           offset + len <= PageCells
    PROVE  /\ record(m, p, offset, len) \in JournalEntry
           /\ record(m, p, offset, len).page = p
           /\ record(m, p, offset, len).offset = offset
           /\ Len(record(m, p, offset, len).original_bytes) = len
           /\ \A k \in 1 .. len :
                 record(m, p, offset, len).original_bytes[k] = m[p][offset + k - 1]
<1> DEFINE b == read_at_raw(m, p, offset, len)
<1>1. \A k \in 1 .. len : offset + k - 1 \in Offset
  BY SizesAssumption DEF Offset
<1>2. \A k \in 1 .. len : m[p][offset + k - 1] \in Nat
  BY <1>1 DEF Memory
<1>3. b \in Seq(Nat) /\ Len(b) = len /\ \A k \in 1 .. len : b[k] = m[p][offset + k - 1]
  BY <1>2 DEF read_at_raw
<1> QED
  BY <1>3 DEF record, JournalEntry, Bytes

\* Encoding puts the length in front.
LEMMA EncodeCells ==
    ASSUME NEW list \in Seq(Nat)
    PROVE  /\ encode(list) \in Seq(Nat)
           /\ Len(encode(list)) = Len(list) + 1
           /\ encode(list)[1] = Len(list)
           /\ \A i \in 1 .. Len(list) : encode(list)[i + 1] = list[i]
BY DEF encode

\* Decoding a ledger that fits its page gives a list of page numbers.
LEMMA DecodeList ==
    ASSUME NEW m \in Memory, NEW p \in Page, NEW cap \in Nat, NEW n \in Nat,
           cap < PageCells, Ledger(m, p, cap, n)
    PROVE  /\ decode(m, p) \in Seq(Nat)
           /\ Len(decode(m, p)) = m[p][0]
           /\ Len(decode(m, p)) <= cap
           /\ \A i \in 1 .. Len(decode(m, p)) :
                 decode(m, p)[i] = m[p][i] /\ decode(m, p)[i] \in RESERVED_PAGES .. n - 1
<1>1. 0 \in Offset
  BY SizesAssumption DEF Offset
<1>2. m[p][0] \in Nat
  BY <1>1 DEF Memory
<1>3. \A i \in 1 .. m[p][0] : m[p][i] \in Nat
  BY DEF Ledger, RESERVED_PAGES
<1>4. decode(m, p) \in Seq(Nat) /\ Len(decode(m, p)) = m[p][0]
  BY <1>2, <1>3 DEF decode
<1> QED
  BY <1>2, <1>4 DEF decode, Ledger

\* Writing an encoded list back makes it the ledger.
LEMMA WriteLedger ==
    ASSUME NEW m \in Memory, NEW p \in Page, NEW cap \in Nat, NEW n \in Nat,
           NEW list \in Seq(Nat), Len(list) <= cap, cap < PageCells,
           \A i \in 1 .. Len(list) : list[i] \in RESERVED_PAGES .. n - 1
    PROVE  Ledger(write_at_raw(m, p, 0, encode(list)), p, cap, n)
<1> DEFINE w == write_at_raw(m, p, 0, encode(list))
<1>1. /\ encode(list) \in Seq(Nat)
      /\ Len(encode(list)) = Len(list) + 1
      /\ encode(list)[1] = Len(list)
      /\ \A i \in 1 .. Len(list) : encode(list)[i + 1] = list[i]
  BY EncodeCells
<1>2. Len(list) \in Nat
  OBVIOUS
<1>3. 0 \in Offset /\ \A i \in 1 .. Len(list) : i \in Offset
  BY <1>2, SizesAssumption DEF Offset
<1>4. w[p][0] = Len(list)
  <2>1. w[p][0] = encode(list)[0 - 0 + 1]
    BY <1>1, <1>2, <1>3, WriteCell
  <2> QED
    BY <1>1, <2>1
<1>5. ASSUME NEW i \in 1 .. Len(list)
      PROVE  w[p][i] = list[i]
  <2>1. i \in Offset /\ 0 <= i /\ i < 0 + Len(encode(list))
    BY <1>1, <1>2, <1>3
  <2>2. w[p][i] = encode(list)[i - 0 + 1]
    BY <1>1, <2>1, WriteCell
  <2> QED
    BY <1>1, <2>2, SMTT(30)
<1> QED
  BY <1>4, <1>5 DEF Ledger

\* A write to a page that is no ledger leaves both ledgers.
LEMMA LedgersKept ==
    ASSUME NEW m \in Memory, NEW p \in Page, NEW offset \in Nat, NEW buf \in Seq(Nat),
           NEW n \in Nat, p >= RESERVED_PAGES, Ledgers(m, n)
    PROVE  Ledgers(write_at_raw(m, p, offset, buf), n)
<1>1. SCHEMA_PAGE \in Page /\ UNCLAIMED_PAGES_PAGE \in Page
  BY SizesAssumption DEF SCHEMA_PAGE, UNCLAIMED_PAGES_PAGE, Page
<1>2. SCHEMA_PAGE # p /\ UNCLAIMED_PAGES_PAGE # p
  BY DEF SCHEMA_PAGE, UNCLAIMED_PAGES_PAGE, RESERVED_PAGES, Page
<1>3. /\ write_at_raw(m, p, offset, buf)[SCHEMA_PAGE] = m[SCHEMA_PAGE]
      /\ write_at_raw(m, p, offset, buf)[UNCLAIMED_PAGES_PAGE] = m[UNCLAIMED_PAGES_PAGE]
  BY <1>1, <1>2, WriteElsewhere
<1> QED
  BY <1>3 DEF Ledgers, Ledger

-----------------------------------------------------------------------------
(* The journal                                                             *)

\* A list without its last element.
LEMMA FrontOf ==
    ASSUME NEW S, NEW list \in Seq(S), list # <<>>
    PROVE  /\ Len(list) \in Nat /\ Len(list) >= 1
           /\ SubSeq(list, 1, Len(list) - 1) \in Seq(S)
           /\ Len(SubSeq(list, 1, Len(list) - 1)) = Len(list) - 1
           /\ \A i \in 1 .. Len(list) - 1 : SubSeq(list, 1, Len(list) - 1)[i] = list[i]
<1>1. Len(list) \in Nat /\ Len(list) >= 1
  OBVIOUS
<1>2. PICK n \in Nat : n = Len(list) - 1
  BY <1>1
<1>3. \A i \in 1 .. n : list[i] \in S
  BY <1>1, <1>2
<1>4. /\ SubSeq(list, 1, n) \in Seq(S)
      /\ Len(SubSeq(list, 1, n)) = IF 1 <= n THEN n - 1 + 1 ELSE 0
      /\ \A i \in 1 .. n - 1 + 1 : SubSeq(list, 1, n)[i] = list[1 + i - 1]
  BY <1>3, SubSeqProperties
<1>5. /\ Len(SubSeq(list, 1, n)) = n
      /\ \A i \in 1 .. n : SubSeq(list, 1, n)[i] = list[i]
  BY <1>4
<1> QED
  BY <1>1, <1>2, <1>4, <1>5

\* Recording the bytes under a write, then writing, keeps the undo complete.
LEMMA AppendKeeps ==
    ASSUME NEW j \in Seq(JournalEntry), NEW m \in Memory, NEW s \in Memory,
           NEW p \in Page, NEW offset \in Offset, NEW buf \in Seq(Nat),
           offset + Len(buf) <= PageCells, Undone(j, m, s)
    PROVE  Undone(Append(j, record(m, p, offset, Len(buf))),
                  write_at_raw(m, p, offset, buf), s)
<1> DEFINE e == record(m, p, offset, Len(buf))
           w == write_at_raw(m, p, offset, buf)
           jj == Append(j, e)
<1>1. /\ e \in JournalEntry /\ e.page = p /\ e.offset = offset
      /\ Len(e.original_bytes) = Len(buf)
      /\ \A k \in 1 .. Len(buf) : e.original_bytes[k] = m[p][offset + k - 1]
  BY RecordType
<1>2. /\ Len(jj) = Len(j) + 1 /\ jj[Len(j) + 1] = e
      /\ \A i \in 1 .. Len(j) : jj[i] = j[i]
      /\ Len(j) \in Nat
  BY <1>1
<1>3. offset \in Nat /\ Len(buf) \in Nat
  BY SizesAssumption DEF Offset
<1> HIDE DEF e, jj
<1> SUFFICES ASSUME NEW q \in Page, NEW o \in Offset
             PROVE  /\ (\A i \in 1 .. Len(jj) : ~Covers(jj[i], q, o)) => w[q][o] = s[q][o]
                    /\ \A i \in 1 .. Len(jj) :
                          /\ Covers(jj[i], q, o)
                          /\ \A k \in 1 .. i - 1 : ~Covers(jj[k], q, o)
                          => jj[i].original_bytes[o - jj[i].offset + 1] = s[q][o]
  BY DEF Undone, e, jj
<1>4. o \in Nat
  BY SizesAssumption DEF Offset
<1>5. Covers(e, q, o) <=> (q = p /\ offset <= o /\ o < offset + Len(buf))
  BY <1>1 DEF Covers
<1>6. ~Covers(e, q, o) => w[q][o] = m[q][o]
  BY <1>3, <1>5, WriteCell
<1>7. Covers(e, q, o) => e.original_bytes[o - e.offset + 1] = m[q][o]
  <2> SUFFICES ASSUME Covers(e, q, o)
               PROVE  e.original_bytes[o - e.offset + 1] = m[q][o]
    OBVIOUS
  <2>1. o - offset + 1 \in 1 .. Len(buf) /\ offset + (o - offset + 1) - 1 = o
    BY <1>3, <1>4, <1>5
  <2> QED
    BY <1>1, <1>5, <2>1
<1>8. (\A i \in 1 .. Len(j) : ~Covers(j[i], q, o)) => m[q][o] = s[q][o]
  BY DEF Undone
<1>9. \A i \in 1 .. Len(j) :
         /\ Covers(j[i], q, o)
         /\ \A k \in 1 .. i - 1 : ~Covers(j[k], q, o)
         => j[i].original_bytes[o - j[i].offset + 1] = s[q][o]
  BY DEF Undone
<1>10. (\A i \in 1 .. Len(jj) : ~Covers(jj[i], q, o)) => w[q][o] = s[q][o]
  <2> SUFFICES ASSUME \A i \in 1 .. Len(jj) : ~Covers(jj[i], q, o)
               PROVE  w[q][o] = s[q][o]
    OBVIOUS
  <2>1. ~Covers(e, q, o)
    BY <1>2
  <2>2. \A i \in 1 .. Len(j) : ~Covers(j[i], q, o)
    BY <1>2
  <2> QED
    BY <2>1, <2>2, <1>6, <1>8
<1>11. ASSUME NEW i \in 1 .. Len(jj), Covers(jj[i], q, o),
              \A k \in 1 .. i - 1 : ~Covers(jj[k], q, o)
       PROVE  jj[i].original_bytes[o - jj[i].offset + 1] = s[q][o]
  <2>1. CASE i \in 1 .. Len(j)
    <3>1. \A k \in 1 .. i - 1 : k \in 1 .. Len(j) /\ jj[k] = j[k]
      BY <1>2, <2>1
    <3>2. \A k \in 1 .. i - 1 : ~Covers(j[k], q, o)
      BY <3>1, <1>11
    <3> QED
      BY <1>2, <2>1, <3>2, <1>9, <1>11
  <2>2. CASE i = Len(j) + 1
    <3>1. \A k \in 1 .. Len(j) : ~Covers(j[k], q, o)
      BY <1>2, <2>2, <1>11, SMTT(30)
    <3> QED
      BY <1>2, <2>2, <3>1, <1>7, <1>8, <1>11
  <2> QED
    BY <1>2, <2>1, <2>2
<1> QED
  BY <1>10, <1>11

\* Writing the newest entry back and dropping it keeps the rest complete.
LEMMA DropKeeps ==
    ASSUME NEW j \in Seq(JournalEntry), j # <<>>, NEW m \in Memory, NEW s \in Memory,
           Undone(j, m, s)
    PROVE  Undone(SubSeq(j, 1, Len(j) - 1),
                  write_at_raw(m, j[Len(j)].page, j[Len(j)].offset,
                               j[Len(j)].original_bytes), s)
<1> DEFINE e == j[Len(j)]
           w == write_at_raw(m, e.page, e.offset, e.original_bytes)
           jj == SubSeq(j, 1, Len(j) - 1)
<1>1. /\ Len(j) \in Nat /\ Len(j) >= 1
      /\ Len(jj) = Len(j) - 1
      /\ \A i \in 1 .. Len(j) - 1 : jj[i] = j[i]
  BY FrontOf
<1>2. e \in JournalEntry
  BY <1>1
<1>3. /\ e.page \in Page /\ e.offset \in Nat /\ e.original_bytes \in Seq(Nat)
      /\ Len(e.original_bytes) \in Nat
  BY <1>2, SizesAssumption DEF JournalEntry, Bytes, Offset
<1> HIDE DEF e, jj
<1> SUFFICES ASSUME NEW q \in Page, NEW o \in Offset
             PROVE  /\ (\A i \in 1 .. Len(jj) : ~Covers(jj[i], q, o)) => w[q][o] = s[q][o]
                    /\ \A i \in 1 .. Len(jj) :
                          /\ Covers(jj[i], q, o)
                          /\ \A k \in 1 .. i - 1 : ~Covers(jj[k], q, o)
                          => jj[i].original_bytes[o - jj[i].offset + 1] = s[q][o]
  BY DEF Undone, e, jj
<1>4. w[q][o] = IF Covers(e, q, o) THEN e.original_bytes[o - e.offset + 1] ELSE m[q][o]
  <2>1. w[q][o] = IF q = e.page /\ e.offset <= o /\ o < e.offset + Len(e.original_bytes)
                  THEN e.original_bytes[o - e.offset + 1] ELSE m[q][o]
    BY <1>3, WriteCell, ZenonT(40)
  <2> QED
    BY <2>1 DEF Covers
<1>5. (\A i \in 1 .. Len(j) : ~Covers(j[i], q, o)) => m[q][o] = s[q][o]
  BY DEF Undone
<1>6. \A i \in 1 .. Len(j) :
         /\ Covers(j[i], q, o)
         /\ \A k \in 1 .. i - 1 : ~Covers(j[k], q, o)
         => j[i].original_bytes[o - j[i].offset + 1] = s[q][o]
  BY DEF Undone
<1>7. ASSUME \A i \in 1 .. Len(jj) : ~Covers(jj[i], q, o)
      PROVE  w[q][o] = s[q][o]
  <2>1. \A i \in 1 .. Len(j) - 1 : ~Covers(j[i], q, o)
    BY <1>1, <1>7
  <2>2. CASE Covers(e, q, o)
    <3>1. Len(j) \in 1 .. Len(j) /\ Covers(j[Len(j)], q, o)
      BY <1>1, <2>2 DEF e
    <3>2. j[Len(j)].original_bytes[o - j[Len(j)].offset + 1] = s[q][o]
      BY <1>6, <2>1, <3>1
    <3> QED
      BY <1>4, <2>2, <3>2 DEF e
  <2>3. CASE ~Covers(e, q, o)
    <3>1. \A i \in 1 .. Len(j) : ~Covers(j[i], q, o)
      BY <1>1, <2>1, <2>3 DEF e
    <3> QED
      BY <1>4, <1>5, <2>3, <3>1
  <2> QED
    BY <2>2, <2>3
<1>8. ASSUME NEW i \in 1 .. Len(jj), Covers(jj[i], q, o),
             \A k \in 1 .. i - 1 : ~Covers(jj[k], q, o)
      PROVE  jj[i].original_bytes[o - jj[i].offset + 1] = s[q][o]
  <2>1. i \in 1 .. Len(j) /\ jj[i] = j[i]
    BY <1>1
  <2>2. \A k \in 1 .. i - 1 : jj[k] = j[k]
    BY <1>1
  <2>3. \A k \in 1 .. i - 1 : ~Covers(j[k], q, o)
    BY <2>2, <1>8
  <2> QED
    BY <1>6, <1>8, <2>1, <2>3
<1> QED
  BY <1>7, <1>8

\* With nothing left to undo the memory is the one the block began with.
LEMMA NothingLeft ==
    ASSUME NEW m \in Memory, NEW s \in Memory, Undone(<<>>, m, s)
    PROVE  m = s
<1>1. \A p \in Page, o \in Offset : m[p][o] = s[p][o]
  BY DEF Undone
<1>2. \A p \in Page : m[p] \in [Offset -> Nat] /\ s[p] \in [Offset -> Nat]
  BY DEF Memory
<1>3. \A p \in Page : m[p] = s[p]
  BY <1>1, <1>2
<1> QED
  BY <1>3 DEF Memory

\* A list with one more element.
LEMMA AppendTo ==
    ASSUME NEW S, NEW list \in Seq(S), NEW e \in S
    PROVE  /\ Append(list, e) \in Seq(S)
           /\ Len(list) \in Nat
           /\ Len(Append(list, e)) = Len(list) + 1
           /\ \A i \in 1 .. Len(list) : Append(list, e)[i] = list[i]
           /\ Append(list, e)[Len(list) + 1] = e
OBVIOUS

\* A list with one element taken out.
LEMMA WithoutOne ==
    ASSUME NEW list \in Seq(Nat), NEW i \in 1 .. Len(list)
    PROVE  /\ Without(list, i) \in Seq(Nat)
           /\ Len(Without(list, i)) = Len(list) - 1
           /\ \A k \in 1 .. Len(list) - 1 : \E h \in 1 .. Len(list) : Without(list, i)[k] = list[h]
<1> DEFINE w == [k \in 1 .. Len(list) - 1 |-> IF k < i THEN list[k] ELSE list[k + 1]]
<1>1. Len(list) \in Nat /\ Len(list) - 1 \in Nat
  OBVIOUS
<1>2. \A k \in 1 .. Len(list) - 1 : k \in 1 .. Len(list) /\ k + 1 \in 1 .. Len(list)
  BY <1>1
<1>3. \A k \in 1 .. Len(list) - 1 : w[k] = IF k < i THEN list[k] ELSE list[k + 1]
  OBVIOUS
<1>4. \A k \in 1 .. Len(list) - 1 : w[k] \in Nat
  BY <1>2, <1>3
<1>5. w \in Seq(Nat) /\ Len(w) = Len(list) - 1
  BY <1>1, <1>4
<1>6. \A k \in 1 .. Len(list) - 1 : \E h \in 1 .. Len(list) : w[k] = list[h]
  BY <1>2, <1>3
<1> QED
  BY <1>5, <1>6 DEF Without

\* The entry of a write below n keeps the journal below n.
LEMMA BelowAppend ==
    ASSUME NEW j \in Seq(JournalEntry), NEW e \in JournalEntry, NEW n \in Nat,
           EntriesBelow(j, n), e.page < n
    PROVE  EntriesBelow(Append(j, e), n)
<1>1. /\ Len(j) \in Nat /\ Len(Append(j, e)) = Len(j) + 1
      /\ \A i \in 1 .. Len(j) : Append(j, e)[i] = j[i]
      /\ Append(j, e)[Len(j) + 1] = e
  BY AppendTo
<1>2. ASSUME NEW i \in 1 .. Len(Append(j, e))
      PROVE  Append(j, e)[i].page < n
  <2>1. CASE i \in 1 .. Len(j)
    BY <1>1, <2>1 DEF EntriesBelow
  <2>2. CASE i = Len(j) + 1
    BY <1>1, <2>2
  <2> QED
    BY <1>1, <2>1, <2>2
<1> QED
  BY <1>2 DEF EntriesBelow

-----------------------------------------------------------------------------
(* One step                                                                *)

\* The registry and the table ledgers stay smaller than a page.
LedgersFitPages == MaxLinked <= UNCLAIMED_PAGES_CAPACITY

\* The part of IInv that a journaled write establishes.
Journaled(j, m, n) ==
    /\ j \in Seq(JournalEntry)
    /\ m \in Memory
    /\ Undone(j, m, saved)
    /\ EntriesBelow(j, n)

\* JournaledWriter::write_at of less than a page, on an existing page.
LEMMA JournaledWrite ==
    ASSUME NEW j, NEW m, NEW n \in Nat, saved \in Memory, Journaled(j, m, n),
           NEW p \in Page, p < n, NEW offset \in Offset, NEW buf \in Seq(Nat),
           offset + Len(buf) <= PageCells
    PROVE  Journaled(Append(j, record(m, p, offset, Len(buf))),
                     write_at_raw(m, p, offset, buf), n)
<1>1. Len(buf) \in Nat /\ offset \in Nat
  BY SizesAssumption DEF Offset
<1>2. /\ record(m, p, offset, Len(buf)) \in JournalEntry
      /\ record(m, p, offset, Len(buf)).page = p
  BY <1>1, RecordType DEF Journaled
<1>3. Append(j, record(m, p, offset, Len(buf))) \in Seq(JournalEntry)
  BY <1>2, AppendTo DEF Journaled
<1>4. write_at_raw(m, p, offset, buf) \in Memory
  BY <1>1, WriteType DEF Journaled
<1>5. Undone(Append(j, record(m, p, offset, Len(buf))), write_at_raw(m, p, offset, buf), saved)
  BY AppendKeeps DEF Journaled
<1>6. EntriesBelow(Append(j, record(m, p, offset, Len(buf))), n)
  BY <1>2, BelowAppend DEF Journaled
<1> QED
  BY <1>3, <1>4, <1>5, <1>6 DEF Journaled

\* Facts about constants and types that every step uses.
LEMMA Basics ==
    ASSUME LedgersFitPages, TypeOK
    PROVE  /\ SCHEMA_PAGE \in Page /\ UNCLAIMED_PAGES_PAGE \in Page
           /\ SCHEMA_PAGE # UNCLAIMED_PAGES_PAGE
           /\ SCHEMA_PAGE < pages /\ UNCLAIMED_PAGES_PAGE < pages
           /\ 0 \in Offset
           /\ pages \in Nat /\ pages >= RESERVED_PAGES
           /\ UNCLAIMED_PAGES_CAPACITY \in Nat /\ UNCLAIMED_PAGES_CAPACITY < PageCells
           /\ UNCLAIMED_PAGES_CAPACITY + 1 < PageCells
           /\ MaxLinked \in Nat /\ MaxLinked + 1 < PageCells
           /\ mem \in Memory /\ saved \in Memory
<1>1. mem \in Memory /\ saved \in Memory
  BY DEF TypeOK, Memory
<1>2. pages \in Nat /\ pages >= RESERVED_PAGES
  BY SizesAssumption DEF TypeOK, RESERVED_PAGES
<1>3. /\ SCHEMA_PAGE \in Page /\ UNCLAIMED_PAGES_PAGE \in Page
      /\ SCHEMA_PAGE # UNCLAIMED_PAGES_PAGE
      /\ SCHEMA_PAGE < pages /\ UNCLAIMED_PAGES_PAGE < pages
  BY <1>2, SizesAssumption DEF SCHEMA_PAGE, UNCLAIMED_PAGES_PAGE, RESERVED_PAGES, Page
<1>4. /\ 0 \in Offset
      /\ UNCLAIMED_PAGES_CAPACITY \in Nat /\ UNCLAIMED_PAGES_CAPACITY < PageCells
      /\ UNCLAIMED_PAGES_CAPACITY + 1 < PageCells
      /\ MaxLinked \in Nat /\ MaxLinked + 1 < PageCells
  BY SizesAssumption DEF Offset, UNCLAIMED_PAGES_CAPACITY, LedgersFitPages
<1> QED
  BY <1>1, <1>2, <1>3, <1>4

\* The two ledgers of the current memory.
LEMMA CurrentLedgers ==
    ASSUME LedgersFitPages, TypeOK, Ledgers(mem, pages)
    PROVE  /\ Linked \in Seq(Nat) /\ Len(Linked) \in Nat /\ Len(Linked) <= MaxLinked
           /\ \A i \in 1 .. Len(Linked) : Linked[i] \in RESERVED_PAGES .. pages - 1
           /\ Unclaimed \in Seq(Nat) /\ Len(Unclaimed) \in Nat
           /\ Len(Unclaimed) <= UNCLAIMED_PAGES_CAPACITY
           /\ \A i \in 1 .. Len(Unclaimed) : Unclaimed[i] \in RESERVED_PAGES .. pages - 1
<1>1. /\ Linked \in Seq(Nat) /\ Len(Linked) <= MaxLinked
      /\ \A i \in 1 .. Len(Linked) : Linked[i] \in RESERVED_PAGES .. pages - 1
  <2>1. MaxLinked < PageCells
    BY Basics, SizesAssumption
  <2> QED
    BY <2>1, Basics, DecodeList DEF Linked, Ledgers
<1>2. /\ Unclaimed \in Seq(Nat) /\ Len(Unclaimed) <= UNCLAIMED_PAGES_CAPACITY
      /\ \A i \in 1 .. Len(Unclaimed) : Unclaimed[i] \in RESERVED_PAGES .. pages - 1
  BY Basics, DecodeList DEF Unclaimed, Ledgers
<1> QED
  BY <1>1, <1>2

\* Elements of a ledger are pages of the memory.
LEMMA ListedPages ==
    ASSUME LedgersFitPages, TypeOK, Ledgers(mem, pages), NEW p \in Elems(Linked)
    PROVE  p \in Page /\ p \in RESERVED_PAGES .. pages - 1
<1>1. PICK i \in 1 .. Len(Linked) : p = Linked[i]
  BY CurrentLedgers DEF Elems
<1>2. p \in RESERVED_PAGES .. pages - 1
  BY <1>1, CurrentLedgers
<1> QED
  BY <1>2, SizesAssumption DEF TypeOK, Page, RESERVED_PAGES

\* Writing one ledger back leaves both ledgers well formed.
LEMMA LedgersWritten ==
    ASSUME LedgersFitPages, TypeOK, NEW m \in Memory, Ledgers(m, pages), NEW list \in Seq(Nat),
           \A i \in 1 .. Len(list) : list[i] \in RESERVED_PAGES .. pages - 1
    PROVE  /\ Len(list) <= MaxLinked =>
                 Ledgers(write_at_raw(m, SCHEMA_PAGE, 0, encode(list)), pages)
           /\ Len(list) <= UNCLAIMED_PAGES_CAPACITY =>
                 Ledgers(write_at_raw(m, UNCLAIMED_PAGES_PAGE, 0, encode(list)), pages)
<1>1. encode(list) \in Seq(Nat)
  BY EncodeCells
<1>2. ASSUME Len(list) <= MaxLinked
      PROVE  Ledgers(write_at_raw(m, SCHEMA_PAGE, 0, encode(list)), pages)
  <2>1. MaxLinked < PageCells
    BY Basics, SizesAssumption
  <2>2. Ledger(write_at_raw(m, SCHEMA_PAGE, 0, encode(list)), SCHEMA_PAGE, MaxLinked, pages)
    BY <1>2, <2>1, Basics, WriteLedger
  <2>3. write_at_raw(m, SCHEMA_PAGE, 0, encode(list))[UNCLAIMED_PAGES_PAGE]
            = m[UNCLAIMED_PAGES_PAGE]
    <3>1. /\ SCHEMA_PAGE \in Page /\ UNCLAIMED_PAGES_PAGE \in Page
          /\ UNCLAIMED_PAGES_PAGE # SCHEMA_PAGE /\ 0 \in Nat
      BY Basics
    <3> QED
      BY <1>1, <3>1, WriteElsewhere
  <2> QED
    BY <2>2, <2>3 DEF Ledgers, Ledger
<1>3. ASSUME Len(list) <= UNCLAIMED_PAGES_CAPACITY
      PROVE  Ledgers(write_at_raw(m, UNCLAIMED_PAGES_PAGE, 0, encode(list)), pages)
  <2>1. Ledger(write_at_raw(m, UNCLAIMED_PAGES_PAGE, 0, encode(list)),
               UNCLAIMED_PAGES_PAGE, UNCLAIMED_PAGES_CAPACITY, pages)
    BY <1>3, Basics, WriteLedger
  <2>2. write_at_raw(m, UNCLAIMED_PAGES_PAGE, 0, encode(list))[SCHEMA_PAGE] = m[SCHEMA_PAGE]
    BY <1>1, Basics, WriteElsewhere
  <2> QED
    BY <2>1, <2>2 DEF Ledgers, Ledger
<1> QED
  BY <1>2, <1>3

\* What an operation inside a block has to establish.
LEMMA BlockStep ==
    ASSUME IInv, Active, UNCHANGED <<pages, depth, phase, saved>>,
           Journaled(journal', mem', pages), Ledgers(mem', pages),
           claimed' \subseteq RESERVED_PAGES .. pages - 1, released' \in SUBSET Page
    PROVE  IInv'
<1>1. claimed' \in SUBSET Page
  BY SizesAssumption DEF IInv, TypeOK, Page, RESERVED_PAGES
<1>2. TypeOK'
  BY <1>1 DEF IInv, TypeOK, Journaled, Memory
<1>3. ~Idle'
  BY DEF Active, Idle
<1> QED
  BY <1>2, <1>3 DEF IInv, Active, Journaled, Undone, BlankFrom, Ledgers, Ledger, EntriesBelow

\* The shape of a journaled write of less than a page, inside a block.
LEMMA WriteAt ==
    ASSUME IInv, NEW p \in Page, p < pages, NEW offset \in Offset, NEW buf \in Seq(Nat),
           Len(buf) < PageCells, write_at(p, offset, buf)
    PROVE  /\ mem' = write_at_raw(mem, p, offset, buf)
           /\ Journaled(journal', mem', pages)
<1>1. MSize(Len(buf)) = Len(buf)
  BY MSizeSmall
<1>2. /\ journal' = Append(journal, record(mem, p, offset, Len(buf)))
      /\ mem' = write_at_raw(mem, p, offset, buf)
      /\ offset + Len(buf) <= PageCells
  BY <1>1 DEF write_at
<1>3. Journaled(journal, mem, pages) /\ saved \in Memory /\ pages \in Nat
  BY SizesAssumption DEF IInv, TypeOK, Journaled, Memory, RESERVED_PAGES
<1> QED
  BY <1>2, <1>3, JournaledWrite

\* Writing a ledger of at most cap entries, cap + 1 < PageCells.
LEMMA WriteAtLedger ==
    ASSUME IInv, NEW p \in Page, p < pages, NEW list \in Seq(Nat),
           Len(list) + 1 < PageCells, write_at(p, 0, encode(list))
    PROVE  /\ mem' = write_at_raw(mem, p, 0, encode(list))
           /\ Journaled(journal', mem', pages)
<1>1. /\ encode(list) \in Seq(Nat)
      /\ Len(encode(list)) = Len(list) + 1
  BY EncodeCells
<1>2. 0 \in Offset
  BY SizesAssumption DEF Offset
<1> QED
  BY <1>1, <1>2, WriteAt

\* The page of a journal entry.
LEMMA EntryPage ==
    ASSUME TypeOK, EntriesBelow(journal, pages), NEW i \in 1 .. Len(journal)
    PROVE  journal[i].page \in Int /\ journal[i].page < pages
<1>1. journal[i].page < pages
  BY DEF EntriesBelow
<1>2. journal[i] \in JournalEntry
  BY DEF TypeOK
<1>3. journal[i].page \in Int
  BY <1>2 DEF JournalEntry, Page
<1> QED
  BY <1>1, <1>3

\* The initial state satisfies the invariant.
LEMMA InitIInv ==
    ASSUME LedgersFitPages, Init
    PROVE  IInv
<1>1. TypeOK
  BY SizesAssumption DEF Init, TypeOK, RESERVED_PAGES, Page, Offset
<1>2. \A p \in Page, o \in Offset : mem[p][o] = 0 /\ saved[p][o] = 0
  BY DEF Init
<1>3. Undone(journal, mem, saved)
  BY <1>2 DEF Init, Undone
<1>4. EntriesBelow(journal, pages)
  BY DEF Init, EntriesBelow
<1>5. Ledgers(mem, pages)
  BY <1>1, <1>2, Basics DEF Ledgers, Ledger
<1>6. BlankFrom(saved, pages)
  BY <1>2 DEF BlankFrom
<1>7. saved = mem /\ claimed = {} /\ phase = "run" /\ depth = 0 /\ journal = <<>>
  BY DEF Init
<1> QED
  BY <1>1, <1>3, <1>4, <1>5, <1>6, <1>7 DEF IInv

\* Every step keeps the invariant.
LEMMA NextIInv ==
    ASSUME LedgersFitPages, IInv, [Next]_vars
    PROVE  IInv'
<1> USE DEF Active, Idle
<1>0. /\ TypeOK /\ mem \in Memory /\ saved \in Memory /\ pages \in Nat
      /\ (phase = "run" => Ledgers(mem, pages)) /\ Ledgers(saved, pages)
      /\ Undone(journal, mem, saved) /\ EntriesBelow(journal, pages)
      /\ claimed \subseteq RESERVED_PAGES .. pages - 1
  BY Basics DEF IInv
<1>1. CASE BeginAtomic
  <2>1. TypeOK'
    BY <1>1, SizesAssumption DEF BeginAtomic, IInv, TypeOK
  <2>2. journal' = journal /\ depth' = 1 /\ phase = "run"
    BY <1>1 DEF BeginAtomic, IInv
  <2> QED
    BY <1>1, <2>1, <2>2
    DEF BeginAtomic, IInv, Undone, EntriesBelow, BlankFrom, Ledgers, Ledger
<1>2. CASE BeginNested
  <2>1. TypeOK'
    BY <1>2, SizesAssumption DEF BeginNested, IInv, TypeOK
  <2>2. depth' # 0
    BY <1>2, SizesAssumption DEF BeginNested, IInv, TypeOK
  <2> QED
    BY <1>2, <2>1, <2>2
    DEF BeginNested, IInv, Undone, EntriesBelow, BlankFrom, Ledgers, Ledger
<1>3. CASE EndNested
  <2>1. TypeOK'
    BY <1>3, SizesAssumption DEF EndNested, IInv, TypeOK
  <2>2. depth' # 0
    BY <1>3, SizesAssumption DEF EndNested, IInv, TypeOK
  <2> QED
    BY <1>3, <2>1, <2>2
    DEF EndNested, IInv, Undone, EntriesBelow, BlankFrom, Ledgers, Ledger
<1>4. CASE EndAtomic
  <2>1. TypeOK'
    BY <1>4, SizesAssumption DEF EndAtomic, IInv, TypeOK
  <2>2. journal' = <<>> /\ saved' = mem' /\ mem' = mem /\ pages' = pages /\ phase = "run"
    BY <1>4 DEF EndAtomic
  <2>3. Undone(journal', mem', saved')
    BY <2>2 DEF Undone
  <2>4. EntriesBelow(journal', pages')
    BY <2>2 DEF EntriesBelow
  <2>5. ASSUME NEW p \in Page, p >= pages, NEW o \in Offset
        PROVE  mem[p][o] = 0
    <3>1. \A i \in 1 .. Len(journal) : ~Covers(journal[i], p, o)
      <4> SUFFICES ASSUME NEW i \in 1 .. Len(journal)
                   PROVE  journal[i].page # p
        BY DEF Covers
      <4>1. journal[i].page < pages /\ journal[i].page \in Int
        BY <1>0, EntryPage
      <4>2. p \in Int
        BY DEF Page
      <4> QED
        BY <1>0, <4>1, <4>2, <2>5
    <3>2. mem[p][o] = saved[p][o]
      BY <1>0, <3>1 DEF Undone
    <3> QED
      BY <2>5, <3>2 DEF IInv, BlankFrom
  <2>6. BlankFrom(saved', pages')
    BY <2>2, <2>5 DEF BlankFrom
  <2>7. Ledgers(mem', pages') /\ Ledgers(saved', pages')
    BY <1>0, <2>2 DEF Ledgers, Ledger
  <2>8. claimed' \subseteq RESERVED_PAGES .. pages' - 1
    BY <1>0, <1>4 DEF EndAtomic
  <2> QED
    BY <1>4, <2>1, <2>2, <2>3, <2>4, <2>6, <2>7, <2>8 DEF IInv, EndAtomic
<1>5. CASE Fail
  <2>1. TypeOK'
    BY <1>5, SizesAssumption DEF Fail, IInv, TypeOK
  <2> QED
    BY <1>5, <2>1 DEF Fail, IInv, Undone, EntriesBelow, BlankFrom, Ledgers, Ledger
<1>6. CASE RollbackEntry
  <2> DEFINE e == journal[Len(journal)]
  <2>1. journal \in Seq(JournalEntry) /\ journal # <<>>
    BY <1>0, <1>6 DEF RollbackEntry, TypeOK
  <2>2. /\ Len(journal) \in Nat /\ Len(journal) >= 1
        /\ journal' \in Seq(JournalEntry)
        /\ Len(journal') = Len(journal) - 1
        /\ \A i \in 1 .. Len(journal) - 1 : journal'[i] = journal[i]
    BY <1>6, <2>1, FrontOf DEF RollbackEntry
  <2>3. e \in JournalEntry
    BY <2>1, <2>2
  <2>4. e.page \in Page /\ e.offset \in Nat /\ e.original_bytes \in Seq(Nat)
    BY <2>3, SizesAssumption DEF JournalEntry, Bytes, Offset
  <2>5. mem' \in Memory
    BY <1>0, <1>6, <2>4, WriteType DEF RollbackEntry
  <2>6. Undone(journal', mem', saved)
    BY <1>0, <1>6, <2>1, DropKeeps DEF RollbackEntry
  <2>7. EntriesBelow(journal', pages)
    BY <1>0, <2>2 DEF EntriesBelow
  <2>8. UNCHANGED <<pages, depth, phase, claimed, released, saved>> /\ phase = "rollback"
    BY <1>6 DEF RollbackEntry
  <2>9. TypeOK'
    BY <1>0, <2>2, <2>5, <2>8 DEF TypeOK, Memory
  <2>10. BlankFrom(saved', pages') /\ Ledgers(saved', pages') /\ Undone(journal', mem', saved')
         /\ EntriesBelow(journal', pages') /\ phase' = "rollback" /\ depth' = 0
    BY <2>6, <2>7, <2>8 DEF IInv, BlankFrom, Ledgers, Ledger, Undone, EntriesBelow
  <2> QED
    BY <1>0, <2>8, <2>9, <2>10 DEF IInv
<1>7. CASE RollbackDone
  <2>1. journal = <<>> /\ UNCHANGED <<pages, mem, journal, depth, claimed, released, saved>>
        /\ phase' = "run"
    BY <1>7 DEF RollbackDone
  <2>2. mem = saved
    BY <1>0, <2>1, NothingLeft
  <2>3. TypeOK'
    BY <1>0, <2>1 DEF TypeOK
  <2> QED
    BY <2>1, <2>2, <2>3
    DEF IInv, Undone, EntriesBelow, BlankFrom, Ledgers, Ledger
<1>8. CASE ClaimUnclaimed
  <2> DEFINE n == Len(Unclaimed)
             front == SubSeq(Unclaimed, 1, n - 1)
  <2>1. /\ Active /\ Unclaimed # <<>>
        /\ write_at(UNCLAIMED_PAGES_PAGE, 0, encode(front))
        /\ claimed' = claimed \union {Unclaimed[n]}
        /\ UNCHANGED <<pages, depth, phase, released, saved>>
    BY <1>8 DEF ClaimUnclaimed
  <2>2. Ledgers(mem, pages)
    BY <1>0, <2>1
  <2>3. /\ Unclaimed \in Seq(Nat) /\ n \in Nat /\ n <= UNCLAIMED_PAGES_CAPACITY
        /\ \A i \in 1 .. n : Unclaimed[i] \in RESERVED_PAGES .. pages - 1
    BY <1>0, <2>2, CurrentLedgers
  <2>4. /\ n >= 1 /\ front \in Seq(Nat) /\ Len(front) = n - 1
        /\ \A i \in 1 .. n - 1 : front[i] = Unclaimed[i]
    BY <2>1, <2>3, FrontOf
  <2>5. Len(front) <= UNCLAIMED_PAGES_CAPACITY /\ Len(front) + 1 < PageCells
    BY <1>0, <2>3, <2>4, Basics, SizesAssumption
  <2>6. \A i \in 1 .. Len(front) : front[i] \in RESERVED_PAGES .. pages - 1
    BY <2>3, <2>4
  <2>7. /\ mem' = write_at_raw(mem, UNCLAIMED_PAGES_PAGE, 0, encode(front))
        /\ Journaled(journal', mem', pages)
    BY <1>0, <2>1, <2>4, <2>5, Basics, WriteAtLedger
  <2>8. Ledgers(mem', pages)
    BY <1>0, <2>2, <2>4, <2>5, <2>6, <2>7, LedgersWritten
  <2>9. claimed' \subseteq RESERVED_PAGES .. pages - 1
    <3>1. Unclaimed[n] \in RESERVED_PAGES .. pages - 1
      BY <2>3, <2>4
    <3> QED
      BY <1>0, <2>1, <3>1
  <2>10. released' \in SUBSET Page
    BY <1>0, <2>1 DEF TypeOK
  <2> QED
    BY <2>1, <2>7, <2>8, <2>9, <2>10, BlockStep
<1>9. CASE ClaimGrown
  <2>1. /\ Active /\ pages < MaxPages /\ pages' = pages + 1
        /\ mem' = write_at_raw(mem, pages, 0, Zeros(PageCells))
        /\ claimed' = claimed \union {pages}
        /\ UNCHANGED <<journal, depth, phase, released, saved>>
    BY <1>9 DEF ClaimGrown
  <2>2. pages \in Page /\ pages >= RESERVED_PAGES
    BY <1>0, <2>1, SizesAssumption, Basics DEF Page
  <2>3. Zeros(PageCells) \in Seq(Nat) /\ Len(Zeros(PageCells)) = PageCells
        /\ \A k \in 1 .. PageCells : Zeros(PageCells)[k] = 0
    BY SizesAssumption DEF Zeros
  <2>4. mem' \in Memory
    BY <1>0, <2>1, <2>2, <2>3, WriteType
  <2>5. Ledgers(mem', pages)
    BY <1>0, <2>1, <2>2, <2>3, LedgersKept
  <2>6. Ledgers(mem', pages') /\ Ledgers(saved', pages')
    BY <1>0, <2>1, <2>5 DEF Ledgers, Ledger
  <2>7. \A o \in Offset : mem'[pages][o] = 0 /\ saved[pages][o] = 0
    <3> SUFFICES ASSUME NEW o \in Offset
                 PROVE  mem'[pages][o] = 0 /\ saved[pages][o] = 0
      OBVIOUS
    <3>1. saved[pages][o] = 0
      BY <1>0, <2>2 DEF IInv, BlankFrom
    <3>2. o \in Nat /\ 0 <= o /\ o < 0 + PageCells /\ o - 0 + 1 \in 1 .. PageCells
      BY SizesAssumption DEF Offset
    <3>3. mem'[pages][o] = Zeros(PageCells)[o - 0 + 1]
      BY <1>0, <2>1, <2>2, <2>3, <3>2, WriteCell
    <3> QED
      BY <2>3, <3>1, <3>2, <3>3
  <2>8. \A p \in Page : p # pages => mem'[p] = mem[p]
    <3> SUFFICES ASSUME NEW p \in Page, p # pages
                 PROVE  write_at_raw(mem, pages, 0, Zeros(PageCells))[p] = mem[p]
      BY <2>1
    <3>1. mem \in Memory /\ pages \in Page /\ 0 \in Nat /\ Zeros(PageCells) \in Seq(Nat)
      BY <1>0, <2>2, <2>3
    <3> QED
      BY <3>1, WriteElsewhere
  <2>9. ASSUME NEW i \in 1 .. Len(journal), NEW o \in Offset
        PROVE  ~Covers(journal[i], pages, o)
    <3>1. journal[i].page < pages /\ journal[i].page \in Int
      BY <1>0, EntryPage
    <3> QED
      BY <1>0, <3>1 DEF Covers
  <2>10. Undone(journal', mem', saved')
    <3>1. Undone(journal, mem', saved)
      <4> SUFFICES ASSUME NEW p \in Page, NEW o \in Offset
                   PROVE  /\ (\A i \in 1 .. Len(journal) : ~Covers(journal[i], p, o))
                                => mem'[p][o] = saved[p][o]
                          /\ \A i \in 1 .. Len(journal) :
                                /\ Covers(journal[i], p, o)
                                /\ \A k \in 1 .. i - 1 : ~Covers(journal[k], p, o)
                                => journal[i].original_bytes[o - journal[i].offset + 1]
                                      = saved[p][o]
        BY DEF Undone
      <4>1. CASE p = pages
        BY <2>7, <2>9, <4>1
      <4>2. CASE p # pages
        BY <1>0, <2>8, <4>2 DEF Undone
      <4> QED
        BY <4>1, <4>2
    <3> QED
      BY <2>1, <3>1
  <2>11. EntriesBelow(journal', pages')
    <3>1. \A i \in 1 .. Len(journal) : journal[i].page < pages + 1
      <4> SUFFICES ASSUME NEW i \in 1 .. Len(journal)
                   PROVE  journal[i].page < pages + 1
        OBVIOUS
      <4>1. journal[i].page < pages /\ journal[i].page \in Int
        BY <1>0, EntryPage
      <4> QED
        BY <1>0, <4>1
    <3> QED
      BY <2>1, <3>1 DEF EntriesBelow
  <2>12. BlankFrom(saved', pages')
    <3>1. \A p \in Page : p >= pages + 1 => p >= pages
      BY <1>0 DEF Page
    <3> QED
      BY <1>0, <2>1, <3>1 DEF IInv, BlankFrom
  <2>13. claimed' \subseteq RESERVED_PAGES .. pages' - 1
    BY <1>0, <2>1, <2>2 DEF RESERVED_PAGES
  <2>14. TypeOK'
    <3>1. claimed' \in SUBSET Page
      BY <1>0, <2>1, <2>2 DEF TypeOK
    <3>2. pages' \in RESERVED_PAGES .. MaxPages
      BY <1>0, <2>1, SizesAssumption DEF TypeOK, RESERVED_PAGES
    <3> QED
      BY <1>0, <2>1, <2>4, <3>1, <3>2 DEF TypeOK, Memory
  <2> QED
    BY <1>0, <2>1, <2>6, <2>10, <2>11, <2>12, <2>13, <2>14 DEF IInv
<1>10. ASSUME NEW p \in Page, LinkPage(p)
       PROVE  IInv'
  <2>1. /\ Active /\ p \in claimed /\ Len(Linked) < MaxLinked
        /\ write_at(SCHEMA_PAGE, 0, encode(Append(Linked, p)))
        /\ claimed' = claimed \ {p}
        /\ UNCHANGED <<pages, depth, phase, released, saved>>
    BY <1>10 DEF LinkPage
  <2>2. Ledgers(mem, pages)
    BY <1>0, <2>1
  <2>3. /\ Linked \in Seq(Nat) /\ Len(Linked) \in Nat
        /\ \A i \in 1 .. Len(Linked) : Linked[i] \in RESERVED_PAGES .. pages - 1
    BY <1>0, <2>2, CurrentLedgers
  <2>4. p \in Nat /\ p \in RESERVED_PAGES .. pages - 1
    BY <1>0, <2>1 DEF RESERVED_PAGES
  <2>5. /\ Append(Linked, p) \in Seq(Nat)
        /\ Len(Append(Linked, p)) = Len(Linked) + 1
        /\ \A i \in 1 .. Len(Linked) : Append(Linked, p)[i] = Linked[i]
        /\ Append(Linked, p)[Len(Linked) + 1] = p
    BY <2>3, <2>4, AppendTo
  <2>6. Len(Append(Linked, p)) <= MaxLinked /\ Len(Append(Linked, p)) + 1 < PageCells
    BY <1>0, <2>1, <2>3, <2>5, Basics, SizesAssumption
  <2>7. \A i \in 1 .. Len(Append(Linked, p)) :
           Append(Linked, p)[i] \in RESERVED_PAGES .. pages - 1
    <3> SUFFICES ASSUME NEW i \in 1 .. Len(Linked) + 1
                 PROVE  Append(Linked, p)[i] \in RESERVED_PAGES .. pages - 1
      BY <2>5
    <3>1. i \in 1 .. Len(Linked) \/ i = Len(Linked) + 1
      BY <2>3
    <3> QED
      BY <2>3, <2>4, <2>5, <3>1
  <2>8. /\ mem' = write_at_raw(mem, SCHEMA_PAGE, 0, encode(Append(Linked, p)))
        /\ Journaled(journal', mem', pages)
    BY <1>0, <2>1, <2>5, <2>6, Basics, WriteAtLedger
  <2>9. Ledgers(mem', pages)
    BY <1>0, <2>2, <2>5, <2>6, <2>7, <2>8, LedgersWritten
  <2>10. claimed' \subseteq RESERVED_PAGES .. pages - 1 /\ released' \in SUBSET Page
    BY <1>0, <2>1 DEF TypeOK
  <2> QED
    BY <2>1, <2>8, <2>9, <2>10, BlockStep
<1>11. ASSUME NEW p \in Page, UnclaimPage(p)
       PROVE  IInv'
  <2> DEFINE zeroed == write_at_raw(mem, p, 0, Zeros(PageCells))
             list == Append(decode(zeroed, UNCLAIMED_PAGES_PAGE), p)
             ledger == encode(list)
             first == Append(journal, record(mem, p, 0, PageCells))
  <2>1. /\ Active /\ p \in Elems(Linked) \ released
        /\ Len(Unclaimed) < UNCLAIMED_PAGES_CAPACITY
        /\ journal' = Append(first, record(zeroed, UNCLAIMED_PAGES_PAGE, 0, MSize(Len(ledger))))
        /\ mem' = write_at_raw(zeroed, UNCLAIMED_PAGES_PAGE, 0, ledger)
        /\ released' = released \union {p}
        /\ UNCHANGED <<pages, depth, phase, claimed, saved>>
    BY <1>11 DEF UnclaimPage
  <2>2. Ledgers(mem, pages)
    BY <1>0, <2>1
  <2>3. p \in RESERVED_PAGES .. pages - 1
    BY <1>0, <2>1, <2>2, ListedPages
  <2>4. p < pages /\ p >= RESERVED_PAGES /\ p # UNCLAIMED_PAGES_PAGE /\ p \in Nat
    BY <1>0, <2>3 DEF RESERVED_PAGES, UNCLAIMED_PAGES_PAGE
  <2>5. Zeros(PageCells) \in Seq(Nat) /\ Len(Zeros(PageCells)) = PageCells
    BY SizesAssumption DEF Zeros
  <2>6. Journaled(journal, mem, pages)
    BY <1>0 DEF Journaled, TypeOK
  <2>7. Journaled(first, zeroed, pages)
    <3>1. 0 \in Offset /\ 0 + Len(Zeros(PageCells)) <= PageCells
      BY <2>5, SizesAssumption DEF Offset
    <3>2. Journaled(Append(journal, record(mem, p, 0, Len(Zeros(PageCells)))), zeroed, pages)
      BY <1>0, <2>4, <2>5, <2>6, <3>1, JournaledWrite
    <3> QED
      BY <2>5, <3>2
  <2>8. zeroed \in Memory
    BY <2>7 DEF Journaled
  <2>9. Ledgers(zeroed, pages)
    BY <1>0, <2>2, <2>4, <2>5, LedgersKept
  <2>10. zeroed[UNCLAIMED_PAGES_PAGE] = mem[UNCLAIMED_PAGES_PAGE]
    <3>1. UNCLAIMED_PAGES_PAGE \in Page /\ UNCLAIMED_PAGES_PAGE # p /\ 0 \in Nat
      BY <1>0, <2>4, Basics
    <3> QED
      BY <1>0, <2>5, <3>1, WriteElsewhere
  <2>11. decode(zeroed, UNCLAIMED_PAGES_PAGE) = Unclaimed
    BY <2>10 DEF decode, Unclaimed
  <2>12. /\ Unclaimed \in Seq(Nat) /\ Len(Unclaimed) \in Nat
         /\ \A i \in 1 .. Len(Unclaimed) : Unclaimed[i] \in RESERVED_PAGES .. pages - 1
    BY <1>0, <2>2, CurrentLedgers
  <2>13. /\ list \in Seq(Nat) /\ Len(list) = Len(Unclaimed) + 1
         /\ \A i \in 1 .. Len(Unclaimed) : list[i] = Unclaimed[i]
         /\ list[Len(Unclaimed) + 1] = p
    BY <2>4, <2>11, <2>12, AppendTo
  <2>14. Len(list) <= UNCLAIMED_PAGES_CAPACITY /\ Len(list) + 1 < PageCells
    BY <1>0, <2>1, <2>12, <2>13, Basics, SizesAssumption
  <2>15. \A i \in 1 .. Len(list) : list[i] \in RESERVED_PAGES .. pages - 1
    <3> SUFFICES ASSUME NEW i \in 1 .. Len(Unclaimed) + 1
                 PROVE  list[i] \in RESERVED_PAGES .. pages - 1
      BY <2>13
    <3>1. i \in 1 .. Len(Unclaimed) \/ i = Len(Unclaimed) + 1
      BY <2>12
    <3> QED
      BY <2>3, <2>12, <2>13, <3>1
  <2> HIDE DEF zeroed, list, first
  <2>16. ledger \in Seq(Nat) /\ Len(ledger) = Len(list) + 1
    BY <2>13, EncodeCells
  <2>17. MSize(Len(ledger)) = Len(ledger) /\ 0 + Len(ledger) <= PageCells
    BY <2>14, <2>16, MSizeSmall, SizesAssumption
  <2>18. Journaled(journal', mem', pages)
    <3>1. /\ UNCLAIMED_PAGES_PAGE \in Page /\ UNCLAIMED_PAGES_PAGE < pages
          /\ 0 \in Offset /\ saved \in Memory /\ pages \in Nat
      BY <1>0, Basics
    <3>2. Journaled(Append(first, record(zeroed, UNCLAIMED_PAGES_PAGE, 0, Len(ledger))),
                    write_at_raw(zeroed, UNCLAIMED_PAGES_PAGE, 0, ledger), pages)
      BY <2>7, <2>16, <2>17, <3>1, JournaledWrite
    <3> QED
      BY <2>1, <2>17, <3>2
  <2>19. Ledgers(mem', pages)
    BY <1>0, <2>1, <2>8, <2>9, <2>13, <2>14, <2>15, LedgersWritten
  <2>20. claimed' \subseteq RESERVED_PAGES .. pages - 1 /\ released' \in SUBSET Page
    BY <1>0, <2>1 DEF TypeOK
  <2> QED
    BY <2>1, <2>18, <2>19, <2>20, BlockStep
<1>12. ASSUME NEW i \in Offset, UnlinkPage(i)
       PROVE  IInv'
  <2>1. /\ Active /\ i \in 1 .. Len(Linked)
        /\ write_at(SCHEMA_PAGE, 0, encode(Without(Linked, i)))
        /\ released' = released \ {Linked[i]}
        /\ UNCHANGED <<pages, depth, phase, claimed, saved>>
    BY <1>12 DEF UnlinkPage
  <2>2. Ledgers(mem, pages)
    BY <1>0, <2>1
  <2>3. /\ Linked \in Seq(Nat) /\ Len(Linked) \in Nat /\ Len(Linked) <= MaxLinked
        /\ \A k \in 1 .. Len(Linked) : Linked[k] \in RESERVED_PAGES .. pages - 1
    BY <1>0, <2>2, CurrentLedgers
  <2>4. /\ Without(Linked, i) \in Seq(Nat)
        /\ Len(Without(Linked, i)) = Len(Linked) - 1
        /\ \A k \in 1 .. Len(Linked) - 1 :
              \E h \in 1 .. Len(Linked) : Without(Linked, i)[k] = Linked[h]
    BY <2>1, <2>3, WithoutOne
  <2>5. \A k \in 1 .. Len(Without(Linked, i)) :
           Without(Linked, i)[k] \in RESERVED_PAGES .. pages - 1
    BY <2>3, <2>4
  <2>6. Len(Without(Linked, i)) <= MaxLinked /\ Len(Without(Linked, i)) + 1 < PageCells
    BY <1>0, <2>3, <2>4, Basics, SizesAssumption
  <2>7. /\ mem' = write_at_raw(mem, SCHEMA_PAGE, 0, encode(Without(Linked, i)))
        /\ Journaled(journal', mem', pages)
    BY <1>0, <2>1, <2>4, <2>6, Basics, WriteAtLedger
  <2>8. Ledgers(mem', pages)
    BY <1>0, <2>2, <2>4, <2>5, <2>6, <2>7, LedgersWritten
  <2>9. claimed' \subseteq RESERVED_PAGES .. pages - 1 /\ released' \in SUBSET Page
    BY <1>0, <2>1 DEF TypeOK
  <2> QED
    BY <2>1, <2>7, <2>8, <2>9, BlockStep
<1>13. ASSUME NEW p \in Page, NEW o \in Slots, NEW buf \in Records, WriteRecord(p, o, buf)
       PROVE  IInv'
  <2>1. /\ Active /\ p \in (Elems(Linked) \ released) \union claimed
        /\ write_at(p, o, buf)
        /\ UNCHANGED <<pages, depth, phase, claimed, released, saved>>
    BY <1>13 DEF WriteRecord
  <2>2. Ledgers(mem, pages)
    BY <1>0, <2>1
  <2>3. p \in RESERVED_PAGES .. pages - 1
    BY <1>0, <2>1, <2>2, ListedPages
  <2>4. p < pages /\ p >= RESERVED_PAGES
    BY <1>0, <2>3 DEF RESERVED_PAGES
  <2>5. o \in Offset /\ o \in Nat /\ buf \in Seq(Nat) /\ Len(buf) < PageCells
    BY RecordsAssumption, SizesAssumption DEF Offset
  <2>6. mem' = write_at_raw(mem, p, o, buf) /\ Journaled(journal', mem', pages)
    BY <2>1, <2>4, <2>5, WriteAt
  <2>7. Ledgers(mem', pages)
    BY <1>0, <2>2, <2>4, <2>5, <2>6, LedgersKept
  <2>8. claimed' \subseteq RESERVED_PAGES .. pages - 1 /\ released' \in SUBSET Page
    BY <1>0, <2>1 DEF TypeOK
  <2> QED
    BY <2>1, <2>6, <2>7, <2>8, BlockStep
<1>14. ASSUME NEW p \in Page, NEW o \in Slots, NEW buf \in Records, WriteUnjournaled(p, o, buf)
       PROVE  IInv'
  <2>1. /\ Idle /\ p \in Elems(Linked)
        /\ mem' = write_at_raw(mem, p, o, buf)
        /\ saved' = mem'
        /\ UNCHANGED <<pages, journal, depth, phase, claimed, released>>
    BY <1>14 DEF WriteUnjournaled
  <2>2. Ledgers(mem, pages) /\ journal = <<>>
    BY <1>0, <2>1 DEF IInv
  <2>3. p \in RESERVED_PAGES .. pages - 1
    BY <1>0, <2>1, <2>2, ListedPages
  <2>4. p < pages /\ p >= RESERVED_PAGES
    BY <1>0, <2>3 DEF RESERVED_PAGES
  <2>5. o \in Nat /\ buf \in Seq(Nat)
    BY RecordsAssumption, SizesAssumption
  <2>6. mem' \in Memory
    BY <1>0, <2>1, <2>5, WriteType
  <2>7. Ledgers(mem', pages') /\ Ledgers(saved', pages')
    <3>1. Ledgers(mem', pages)
      BY <1>0, <2>1, <2>2, <2>4, <2>5, LedgersKept
    <3> QED
      BY <2>1, <3>1 DEF Ledgers, Ledger
  <2>8. mem = saved
    BY <1>0, <2>2, NothingLeft
  <2>9. BlankFrom(saved', pages')
    <3>1. \A q \in Page : q >= pages => q # p
      BY <1>0, <2>4 DEF Page
    <3>2. \A q \in Page : q # p => mem'[q] = mem[q]
      BY <1>0, <2>1, <2>5, WriteElsewhere
    <3>3. BlankFrom(mem, pages)
      BY <2>8 DEF IInv
    <3> QED
      BY <2>1, <3>1, <3>2, <3>3 DEF BlankFrom
  <2>10. Undone(journal', mem', saved')
    BY <2>1, <2>2 DEF Undone
  <2>11. EntriesBelow(journal', pages')
    BY <1>0, <2>1 DEF EntriesBelow
  <2>12. TypeOK'
    BY <1>0, <2>1, <2>6 DEF TypeOK, Memory
  <2> QED
    BY <1>0, <2>1, <2>2, <2>7, <2>9, <2>10, <2>11, <2>12 DEF IInv
<1>15. CASE UNCHANGED vars
  BY <1>15 DEF vars, IInv, TypeOK, Undone, EntriesBelow, BlankFrom, Ledgers, Ledger
<1> QED
  BY <1>1, <1>2, <1>3, <1>4, <1>5, <1>6, <1>7, <1>8, <1>9, <1>10, <1>11, <1>12, <1>13,
     <1>14, <1>15 DEF Next

-----------------------------------------------------------------------------
(* Theorems                                                                *)

\* The inductive invariant holds in every reachable state.
THEOREM Invariance ==
    ASSUME LedgersFitPages
    PROVE  Spec => []IInv
<1>1. Init => IInv
  BY InitIInv
<1>2. IInv /\ [Next]_vars => IInv'
  BY NextIInv
<1> QED
  BY <1>1, <1>2, PTL DEF Spec

\* Every value stays in its type, whatever the operations write: page numbers
\* popped from the ledger of unclaimed pages are pages of the memory.
THEOREM TypeCorrect ==
    ASSUME LedgersFitPages
    PROVE  Spec => []TypeOK
<1>1. IInv => TypeOK
  BY DEF IInv
<1> QED
  BY <1>1, Invariance, PTL

\* JournaledWriter and Journal: at every point of a block, and of its
\* rollback, the journal holds what is needed to undo the block.
THEOREM UndoIsComplete ==
    ASSUME LedgersFitPages
    PROVE  Spec => []UndoComplete
<1>1. IInv => UndoComplete
  BY DEF IInv, UndoComplete, Undone
<1> QED
  BY <1>1, Invariance, PTL

\* Journal::rollback ends with every byte as it was before the failed block.
THEOREM RollbackIsExact ==
    ASSUME LedgersFitPages
    PROVE  Spec => RollbackRestores
<1>1. IInv /\ [Next]_vars => [phase = "rollback" /\ phase' = "run" => mem' = saved]_vars
  <2> SUFFICES ASSUME IInv, Next, phase = "rollback", phase' = "run"
               PROVE  mem' = saved
    BY DEF vars
  <2>1. RollbackDone
    BY DEF Next, BeginAtomic, BeginNested, EndNested, EndAtomic, Fail, RollbackEntry,
       ClaimUnclaimed, ClaimGrown, LinkPage, UnclaimPage, UnlinkPage, WriteRecord,
       WriteUnjournaled, Idle, Active
  <2>2. journal = <<>> /\ mem' = mem
    BY <2>1 DEF RollbackDone
  <2>3. mem \in Memory /\ saved \in Memory /\ Undone(<<>>, mem, saved)
    BY <2>2 DEF IInv, TypeOK, Memory
  <2> QED
    BY <2>2, <2>3, NothingLeft
<1> QED
  BY <1>1, Invariance, PTL DEF Spec, RollbackRestores

\* The journal implements AtomicMemory: between two operations readers see
\* whole blocks only, and a failed block leaves no trace.
THEOREM JournalImplementsAtomicMemory ==
    ASSUME LedgersFitPages
    PROVE  Spec => ImplementsAtomicMemory
<1>1. Init => Promise!Init
  BY DEF Init, Promise!Init, Idle
<1>2. IInv /\ [Next]_vars => [Promise!Next]_(Promise!vars)
  <2> SUFFICES ASSUME IInv, [Next]_vars
               PROVE  [Promise!Next]_(Promise!vars)
    OBVIOUS
  <2>0. Idle => mem = saved
    BY NothingLeft DEF IInv, TypeOK, Memory
  <2>1. CASE BeginAtomic
    BY <2>0, <2>1 DEF BeginAtomic, Promise!Next, Promise!Begin, Promise!vars, Idle
  <2>2. CASE EndAtomic
    BY <2>2 DEF EndAtomic, Promise!Next, Promise!Commit, Idle, Active
  <2>3. CASE Fail
    BY <2>3 DEF Fail, Promise!Next, Promise!Fail, Idle, Active
  <2>4. CASE RollbackDone
    <3>1. depth = 0 /\ depth' = 0 /\ phase = "rollback" /\ phase' = "run"
      BY <2>4 DEF RollbackDone, IInv
    <3>2. mem' = saved
      BY <2>4, NothingLeft DEF RollbackDone, IInv, TypeOK, Memory
    <3> QED
      BY <3>1, <3>2 DEF Promise!Next, Promise!Abort, Idle
  <2>5. ASSUME NEW p \in Page, NEW o \in Slots, NEW buf \in Records, WriteUnjournaled(p, o, buf)
        PROVE  Promise!Next
    BY <2>5 DEF WriteUnjournaled, Promise!Next, Promise!Store, Idle
  <2>6. CASE UNCHANGED <<phase, saved>> /\ ~Idle /\ ~Idle'
    BY <2>6 DEF Promise!vars
  <2>7. CASE BeginNested
    BY <2>6, <2>7, SizesAssumption DEF BeginNested, IInv, TypeOK, Idle, Active
  <2>8. CASE EndNested
    BY <2>6, <2>8, SizesAssumption DEF EndNested, IInv, TypeOK, Idle, Active
  <2>9. CASE RollbackEntry
    BY <2>6, <2>9 DEF RollbackEntry, Idle
  <2>10. CASE ClaimUnclaimed \/ ClaimGrown
    BY <2>6, <2>10 DEF ClaimUnclaimed, ClaimGrown, Idle, Active
  <2>11. CASE \E p \in Page : LinkPage(p) \/ UnclaimPage(p)
    BY <2>6, <2>11 DEF LinkPage, UnclaimPage, Idle, Active
  <2>12. CASE \E i \in Offset : UnlinkPage(i)
    BY <2>6, <2>12 DEF UnlinkPage, Idle, Active
  <2>13. CASE \E p \in Page, o \in Slots, buf \in Records : WriteRecord(p, o, buf)
    BY <2>6, <2>13 DEF WriteRecord, Idle, Active
  <2>14. CASE UNCHANGED vars
    BY <2>14 DEF vars, Promise!vars, Idle
  <2> QED
    BY <2>1, <2>2, <2>3, <2>4, <2>5, <2>7, <2>8, <2>9, <2>10, <2>11, <2>12, <2>13, <2>14
    DEF Next
<1> QED
  BY <1>1, <1>2, Invariance, PTL DEF Spec, ImplementsAtomicMemory, Promise!Spec
=============================================================================
