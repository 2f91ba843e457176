------------------------ MODULE TableRegistryProofs ------------------------
(***************************************************************************)
(* Proofs about TableRegistry, for every page size, alignment, pool of     *)
(* pages and capacity of the free-segment tables.                          *)
(*                                                                         *)
(* Everything a table hands out is a whole number of slots of Alignment    *)
(* cells, with one exception: the segment of a page that became free as a  *)
(* whole has a size that saturated at the largest MSize.  The invariant    *)
(* therefore speaks of the slots a segment reaches, not of its cells.      *)
(***************************************************************************)
EXTENDS TableRegistry, SequenceLemmas

-----------------------------------------------------------------------------
(* Slots                                                                   *)

Slot(n) == n % Alignment = 0

AlignUp(n) == align_up(n, Alignment)

LEMMA Division ==
    ASSUME NEW n \in Nat
    PROVE  /\ n \div Alignment \in Nat /\ n % Alignment \in Nat /\ n % Alignment < Alignment
           /\ n = Alignment * (n \div Alignment) + (n % Alignment)
<1>1. Alignment \in Nat \ {0}
  BY LayoutAssumption
<1> QED
  BY <1>1

LEMMA SlotMultiple ==
    ASSUME NEW n \in Nat
    PROVE  /\ Slot(n) => \E k \in Nat : n = Alignment * k
           /\ \A k \in Nat : n = Alignment * k => Slot(n)
<1>1. Alignment \in Nat \ {0}
  BY LayoutAssumption
<1>2. Slot(n) => n = Alignment * (n \div Alignment)
  BY <1>1, Division DEF Slot
<1>3. ASSUME NEW k \in Nat, n = Alignment * k
      PROVE  Slot(n)
  BY <1>1, <1>3 DEF Slot
<1> QED
  BY <1>2, <1>3, Division

LEMMA SlotSum ==
    ASSUME NEW m \in Nat, NEW n \in Nat, Slot(m), Slot(n)
    PROVE  Slot(m + n) /\ (n <= m => Slot(m - n))
<1>1. Alignment \in Nat \ {0}
  BY LayoutAssumption
<1>2. PICK j \in Nat : m = Alignment * j
  BY SlotMultiple
<1>3. PICK k \in Nat : n = Alignment * k
  BY SlotMultiple
<1>4. Slot(m + n)
  <2>1. m + n = Alignment * (j + k) /\ j + k \in Nat /\ m + n \in Nat
    BY <1>1, <1>2, <1>3
  <2> QED
    BY <2>1, SlotMultiple
<1>5. ASSUME n <= m
      PROVE  Slot(m - n)
  <2>1. k <= j
    BY <1>1, <1>2, <1>3, <1>5
  <2>2. m - n = Alignment * (j - k) /\ j - k \in Nat /\ m - n \in Nat
    BY <1>1, <1>2, <1>3, <1>5, <2>1
  <2> QED
    BY <2>2, SlotMultiple
<1> QED
  BY <1>4, <1>5

\* Slots are at least Alignment apart.
LEMMA SlotGap ==
    ASSUME NEW m \in Nat, NEW n \in Nat, Slot(m), Slot(n), m < n
    PROVE  m + Alignment <= n
<1>1. Alignment \in Nat \ {0}
  BY LayoutAssumption
<1>2. PICK j \in Nat : m = Alignment * j
  BY SlotMultiple
<1>3. PICK k \in Nat : n = Alignment * k
  BY SlotMultiple
<1>4. j + 1 <= k
  <2> SUFFICES ASSUME k <= j PROVE FALSE
    BY <1>2, <1>3
  <2> QED
    BY <1>1, <1>2, <1>3
<1>5. Alignment * (j + 1) <= Alignment * k
  BY <1>1, <1>4
<1> QED
  BY <1>1, <1>2, <1>3, <1>5

LEMMA SlotAlignment == Slot(Alignment) /\ Slot(0)
<1>1. Alignment \in Nat \ {0}
  BY LayoutAssumption
<1>2. Alignment = Alignment * 1 /\ 0 = Alignment * 0 /\ Alignment \in Nat
  BY <1>1
<1> QED
  BY <1>2, SlotMultiple

\* align_up finds the first slot from a number on.
LEMMA AlignUpLeast ==
    ASSUME NEW n \in Nat
    PROVE  /\ AlignUp(n) \in Nat /\ Slot(AlignUp(n)) /\ n <= AlignUp(n)
           /\ AlignUp(n) < n + Alignment
           /\ \A m \in Nat : Slot(m) /\ n <= m => AlignUp(n) <= m
<1>1. Alignment \in Nat \ {0}
  BY LayoutAssumption
<1> DEFINE q == (n + Alignment - 1) \div Alignment
<1>2. n + Alignment - 1 \in Nat
  BY <1>1
<1>3. /\ q \in Nat /\ (n + Alignment - 1) % Alignment \in Nat
      /\ (n + Alignment - 1) % Alignment < Alignment
      /\ n + Alignment - 1 = Alignment * q + ((n + Alignment - 1) % Alignment)
  BY <1>2, Division
<1>4. AlignUp(n) = Alignment * q
  BY <1>1, <1>3 DEF AlignUp, align_up
<1> HIDE DEF q
<1>5. AlignUp(n) \in Nat /\ n <= AlignUp(n) /\ AlignUp(n) < n + Alignment
  <2>1. Alignment * q \in Nat
    BY <1>1, <1>3
  <2> QED
    BY <1>1, <1>3, <1>4, <2>1
<1>6. Slot(AlignUp(n))
  BY <1>3, <1>4, <1>5, SlotMultiple
<1>7. ASSUME NEW m \in Nat, Slot(m), n <= m, m < AlignUp(n)
      PROVE  FALSE
  <2>1. m + Alignment <= AlignUp(n)
    BY <1>5, <1>6, <1>7, SlotGap
  <2> QED
    BY <1>1, <1>5, <1>7, <2>1
<1> QED
  BY <1>5, <1>6, <1>7

LEMMA AlignUpFacts ==
    ASSUME NEW m \in Nat, NEW n \in Nat
    PROVE  /\ Slot(n) => AlignUp(n) = n
           /\ m <= n => AlignUp(m) <= AlignUp(n)
           /\ Slot(m) => AlignUp(m + n) = m + AlignUp(n)
           /\ Slot(m) /\ m <= n => AlignUp(n - m) = AlignUp(n) - m
<1>1. Alignment \in Nat \ {0}
  BY LayoutAssumption
<1>2. Slot(n) => AlignUp(n) = n
  BY AlignUpLeast
<1>3. m <= n => AlignUp(m) <= AlignUp(n)
  <2>1. /\ AlignUp(n) \in Nat /\ Slot(AlignUp(n)) /\ n <= AlignUp(n)
        /\ AlignUp(m) \in Nat
    BY AlignUpLeast
  <2>2. m <= n => m <= AlignUp(n)
    BY <2>1
  <2> QED
    BY <2>1, <2>2, AlignUpLeast
<1>4. ASSUME NEW k \in Nat, Slot(m)
      PROVE  AlignUp(m + k) = m + AlignUp(k)
  <2>1. /\ AlignUp(k) \in Nat /\ Slot(AlignUp(k)) /\ k <= AlignUp(k) /\ AlignUp(k) < k + Alignment
    BY AlignUpLeast
  <2>2. /\ m + k \in Nat /\ AlignUp(m + k) \in Nat /\ Slot(AlignUp(m + k)) /\ m + k <= AlignUp(m + k)
        /\ AlignUp(m + k) < m + k + Alignment
    BY AlignUpLeast
  <2>3. Slot(m + AlignUp(k)) /\ m + AlignUp(k) \in Nat
    BY <1>4, <2>1, SlotSum
  <2>4. ~(AlignUp(m + k) < m + AlignUp(k))
    <3> SUFFICES ASSUME AlignUp(m + k) < m + AlignUp(k) PROVE FALSE
      OBVIOUS
    <3>1. AlignUp(m + k) + Alignment <= m + AlignUp(k)
      BY <2>2, <2>3, SlotGap
    <3> QED
      BY <1>1, <2>1, <2>2, <3>1
  <2>5. ~(m + AlignUp(k) < AlignUp(m + k))
    <3> SUFFICES ASSUME m + AlignUp(k) < AlignUp(m + k) PROVE FALSE
      OBVIOUS
    <3>1. m + AlignUp(k) + Alignment <= AlignUp(m + k)
      BY <2>2, <2>3, SlotGap
    <3> QED
      BY <1>1, <2>1, <2>2, <3>1
  <2> QED
    BY <2>1, <2>2, <2>4, <2>5
<1>5. ASSUME Slot(m), m <= n
      PROVE  AlignUp(n - m) = AlignUp(n) - m
  <2>1. n - m \in Nat /\ m + (n - m) = n
    BY <1>5
  <2>2. AlignUp(m + (n - m)) = m + AlignUp(n - m)
    BY <1>4, <1>5, <2>1
  <2> QED
    BY <2>1, <2>2, AlignUpLeast
<1> QED
  BY <1>2, <1>3, <1>4, <1>5

-----------------------------------------------------------------------------
(* Segments                                                                *)

\* A segment reaches the slots that its cells touch.
End(r) == r.offset + AlignUp(r.size)

In(r, p, o) == r.page = p /\ r.offset <= o /\ o < End(r)

Apart(a, b) == a.page # b.page \/ End(a) <= b.offset \/ End(b) <= a.offset

\* Only a page that is free as a whole has lost its last cell to the limit
\* of a size.
GoodSegment(r) ==
    /\ r \in FreeSegment /\ Slot(r.offset) /\ r.size > 0 /\ End(r) <= PageSize
    /\ Slot(r.size) \/ r.offset + r.size = PageSize - 1

\* What a segment may be compared with.
Extended(x) == x.offset \in Nat /\ End(x) \in Nat /\ x.offset < End(x)

LEMMA SegmentFields ==
    ASSUME NEW r, GoodSegment(r)
    PROVE  /\ r.page \in PageIds /\ r.offset \in Nat /\ r.size \in Nat /\ r.size <= PageSize - 1
           /\ AlignUp(r.size) \in Nat /\ r.size <= AlignUp(r.size) /\ Slot(AlignUp(r.size))
           /\ End(r) \in Nat /\ r.offset + r.size <= End(r) /\ Extended(r)
           /\ Slot(r.size) => End(r) = r.offset + r.size
           /\ ~Slot(r.size) => End(r) = PageSize
<1>1. PageSize \in Nat \ {0} /\ Alignment \in Nat \ {0}
  BY LayoutAssumption
<1>2. /\ r.page \in PageIds /\ r.offset \in Nat /\ r.size \in Nat /\ r.size <= PageSize - 1
      /\ r.size > 0 /\ End(r) <= PageSize
      /\ Slot(r.size) \/ r.offset + r.size = PageSize - 1
  BY <1>1 DEF GoodSegment, FreeSegment, Cells, MSizeMax
<1>3. AlignUp(r.size) \in Nat /\ r.size <= AlignUp(r.size) /\ Slot(AlignUp(r.size))
  BY <1>2, AlignUpLeast
<1>4. Slot(r.size) => AlignUp(r.size) = r.size
  BY <1>2, AlignUpFacts
<1>5. ~Slot(r.size) => AlignUp(r.size) # r.size
  BY <1>3
<1> QED
  BY <1>1, <1>2, <1>3, <1>4, <1>5 DEF End, Extended

\* Neighbours as the code finds them touch.
LEMMA Neighbours ==
    ASSUME NEW a, NEW b, GoodSegment(a), GoodSegment(b), a.page = b.page, Apart(a, b),
           saturating_add(a.offset, a.size) = b.offset
    PROVE  Slot(a.size) /\ End(a) = b.offset /\ a.offset + a.size = b.offset
<1>1. PageSize \in Nat \ {0}
  BY LayoutAssumption
<1>2. End(a) <= PageSize /\ End(b) <= PageSize /\ (Slot(a.size) \/ a.offset + a.size = PageSize - 1)
  BY DEF GoodSegment
<1>3. End(a) <= b.offset \/ End(b) <= a.offset
  BY DEF Apart
<1>4. b.offset = IF a.offset + a.size > PageSize - 1 THEN PageSize - 1 ELSE a.offset + a.size
  BY DEF saturating_add, MSizeMax
<1> QED
  BY <1>1, <1>2, <1>3, <1>4, SegmentFields DEF Extended

\* Two neighbours become one segment.
LEMMA Merged ==
    ASSUME NEW a, NEW b, GoodSegment(a), GoodSegment(b), a.page = b.page, Apart(a, b),
           saturating_add(a.offset, a.size) = b.offset,
           NEW m \in FreeSegment, m.page = a.page, m.offset = a.offset,
           m.size = saturating_add(a.size, b.size)
    PROVE  /\ GoodSegment(m) /\ End(m) <= End(b)
           /\ \A x : Extended(x) /\ Apart(a, x) /\ Apart(b, x) => Apart(m, x)
           /\ \A p, o : o \in Cells /\ (In(a, p, o) \/ In(b, p, o))
                           => In(m, p, o) \/ o = PageSize - 1
<1>1. PageSize \in Nat \ {0}
  BY LayoutAssumption
<1>2. Slot(a.size) /\ End(a) = b.offset /\ a.offset + a.size = b.offset
  BY Neighbours
<1>3. /\ a.offset \in Nat /\ a.size \in Nat /\ a.size > 0 /\ b.offset \in Nat /\ b.size \in Nat
      /\ b.size > 0 /\ AlignUp(b.size) \in Nat /\ b.size <= AlignUp(b.size)
      /\ b.offset + b.size <= End(b) /\ End(b) <= PageSize /\ End(b) \in Nat
      /\ Slot(a.offset) /\ End(b) = b.offset + AlignUp(b.size)
  BY SegmentFields DEF GoodSegment, End
<1>4. m.size = IF a.size + b.size > PageSize - 1 THEN PageSize - 1 ELSE a.size + b.size
  BY DEF saturating_add, MSizeMax
<1>5. /\ GoodSegment(m) /\ End(m) <= End(b) /\ End(m) \in Nat
      /\ End(m) = End(b) \/ (End(b) = PageSize /\ End(m) >= PageSize - 1)
  <2>1. CASE a.size + b.size <= PageSize - 1
    <3>1. m.size = a.size + b.size
      BY <1>1, <1>3, <1>4, <2>1
    <3>2. AlignUp(m.size) = a.size + AlignUp(b.size)
      BY <1>2, <1>3, <3>1, AlignUpFacts
    <3>3. End(m) = End(b)
      BY <1>2, <1>3, <3>2 DEF End
    <3>4. Slot(b.size) => Slot(m.size)
      BY <1>2, <1>3, <3>1, SlotSum
    <3>5. ~Slot(b.size) => m.offset + m.size = PageSize - 1
      BY <1>2, <1>3, <3>1 DEF GoodSegment
    <3> QED
      BY <1>1, <1>3, <3>1, <3>3, <3>4, <3>5 DEF GoodSegment
  <2>2. CASE a.size + b.size > PageSize - 1
    <3>1. m.size = PageSize - 1 /\ a.offset = 0 /\ a.size + b.size = PageSize /\ End(b) = PageSize
      BY <1>1, <1>2, <1>3, <1>4, <2>2
    <3>2. Slot(b.size)
      BY <1>1, <1>2, <1>3, <3>1 DEF GoodSegment
    <3>3. Slot(PageSize)
      BY <1>2, <1>3, <3>1, <3>2, SlotSum
    <3>4. PageSize - 1 \in Nat /\ PageSize \in Nat
      BY <1>1
    <3>5. /\ AlignUp(PageSize - 1) <= AlignUp(PageSize) /\ AlignUp(PageSize) = PageSize
          /\ AlignUp(PageSize - 1) \in Nat /\ PageSize - 1 <= AlignUp(PageSize - 1)
      <4>1. AlignUp(PageSize) = PageSize
        BY <3>3, <3>4, AlignUpFacts
      <4>2. ASSUME NEW n \in Nat, n = PageSize - 1
            PROVE  AlignUp(n) <= AlignUp(PageSize) /\ AlignUp(n) \in Nat /\ n <= AlignUp(n)
        <5>1. n <= PageSize
          BY <3>4, <4>2
        <5> QED
          BY <3>4, <5>1, AlignUpFacts, AlignUpLeast
      <4> QED
        BY <3>4, <4>1, <4>2
    <3>6. End(m) = AlignUp(PageSize - 1)
      BY <3>1, <3>5 DEF End
    <3> QED
      BY <1>1, <1>3, <3>1, <3>5, <3>6 DEF GoodSegment
  <2> QED
    BY <1>1, <1>3, <2>1, <2>2
<1>6. ASSUME NEW x, Extended(x), Apart(a, x), Apart(b, x)
      PROVE  Apart(m, x)
  BY <1>2, <1>3, <1>5, <1>6 DEF Apart, Extended
<1>7. ASSUME NEW p, NEW o \in Cells, In(a, p, o) \/ In(b, p, o)
      PROVE  In(m, p, o) \/ o = PageSize - 1
  BY <1>1, <1>2, <1>3, <1>5, <1>7 DEF In, Cells
<1> QED
  BY <1>5, <1>6, <1>7

-----------------------------------------------------------------------------
(* Lists of segments                                                       *)

\* What SelectInSeq finds.
LEMMA FirstOf ==
    ASSUME NEW n \in Nat, NEW I \in SUBSET (1..n), NEW k, k = IF I # {} THEN Min(I) ELSE 0
    PROVE  /\ k # 0 => k \in I /\ \A j \in I : k <= j
           /\ k = 0 => I = {}
           /\ k \in Nat
<1>1. I \in SUBSET Nat
  OBVIOUS
<1>2. I # {} => Min(I) \in I /\ \A j \in I : Min(I) <= j
  BY <1>1, MinIsLeast
<1>3. \A j \in I : j \in Nat /\ j # 0
  OBVIOUS
<1>4. CASE I = {}
  BY <1>4
<1>5. CASE I # {}
  <2>1. k = Min(I)
    BY <1>5
  <2>2. k \in I /\ \A j \in I : k <= j
    BY <1>2, <1>5, <2>1
  <2> QED
    BY <1>3, <2>2
<1> QED
  BY <1>4, <1>5

\* swap_remove keeps the other elements, the last one in the gap.
LEMMA SwapRemoved ==
    ASSUME NEW S, NEW seq \in Seq(S), NEW i \in DOMAIN seq
    PROVE  /\ swap_remove(seq, i) \in Seq(S)
           /\ Len(swap_remove(seq, i)) = Len(seq) - 1
           /\ \A k \in 1..Len(seq) - 1 :
                 swap_remove(seq, i)[k] = seq[IF k = i THEN Len(seq) ELSE k]
<1>1. /\ Front(seq) \in Seq(S) /\ Len(Front(seq)) = Len(seq) - 1
      /\ \A k \in 1..Len(seq) - 1 : Front(seq)[k] = seq[k]
      /\ Last(seq) = seq[Len(seq)] /\ Last(seq) \in S
  <2>1. Len(seq) \in Nat /\ Len(seq) > 0 /\ Len(seq) \in DOMAIN seq
    OBVIOUS
  <2>2. Last(seq) = seq[Len(seq)] /\ Last(seq) \in S
    BY <2>1 DEF Last
  <2>3. SubSeq(seq, 1, Len(seq) - 1) \in Seq(S) /\ Len(SubSeq(seq, 1, Len(seq) - 1)) = Len(seq) - 1
    BY <2>1, SMTT(30)
  <2>4. \A k \in 1..Len(seq) - 1 : SubSeq(seq, 1, Len(seq) - 1)[k] = seq[k]
    BY <2>1
  <2> QED
    BY <2>2, <2>3, <2>4 DEF Front
<1>2. CASE i = Len(seq)
  BY <1>1, <1>2 DEF swap_remove
<1>3. CASE i # Len(seq)
  BY <1>1, <1>3 DEF swap_remove
<1> QED
  BY <1>2, <1>3

\* The segments of one table.
Good(records) ==
    /\ records \in Seq(FreeSegment)
    /\ \A i \in DOMAIN records : GoodSegment(records[i])
    /\ \A i, j \in DOMAIN records : i # j => Apart(records[i], records[j])

Clear(records, x) == \A i \in DOMAIN records : Apart(records[i], x)

InSome(records, p, o) == \E i \in DOMAIN records : In(records[i], p, o)

LEMMA ApartSelf ==
    ASSUME NEW r, GoodSegment(r)
    PROVE  ~Apart(r, r)
BY SegmentFields DEF Apart, Extended

LEMMA ApartSymmetric == \A a, b : Apart(a, b) <=> Apart(b, a)
BY DEF Apart

\* Where remove finds a segment.
LEMMA Found ==
    ASSUME NEW records \in Seq(FreeSegment), NEW i \in DOMAIN records
    PROVE  LET pos == SelectInSeq(records, LAMBDA r : r = records[i])
           IN  pos \in DOMAIN records /\ pos # 0 /\ records[pos] = records[i]
<1> DEFINE I == {k \in 1..Len(records) : records[k] = records[i]}
           pos == SelectInSeq(records, LAMBDA r : r = records[i])
<1>1. pos = IF I # {} THEN Min(I) ELSE 0
  BY DEF SelectInSeq
<1>2. i \in I /\ I \in SUBSET (1..Len(records)) /\ Len(records) \in Nat
  OBVIOUS
<1>3. pos \in I
  <2> HIDE DEF I, pos
  <2> QED
    BY <1>1, <1>2, FirstOf
<1> QED
  BY <1>3

\* A whole segment is taken.
LEMMA RemovedWhole ==
    ASSUME NEW records \in Seq(FreeSegment), NEW i \in DOMAIN records,
           NEW used \in Nat, used >= records[i].size
    PROVE  LET left == remove(records, records[i], used)
           IN  /\ left \in Seq(FreeSegment) /\ Len(left) = Len(records) - 1
               /\ Good(records) =>
                    /\ Good(left)
                    /\ \A k \in DOMAIN left :
                          \E j \in DOMAIN records :
                              left[k] = records[j] /\ Apart(records[j], records[i])
                    /\ \A j \in DOMAIN records :
                          records[j] = records[i] \/ \E k \in DOMAIN left : left[k] = records[j]
<1> DEFINE pos == SelectInSeq(records, LAMBDA r : r = records[i])
           left == remove(records, records[i], used)
           swapped == swap_remove(records, pos)
<1>1. pos \in DOMAIN records /\ pos # 0 /\ records[pos] = records[i]
  BY Found
<1>2. records[i].size \in Nat
  <2>1. records[i] \in FreeSegment
    OBVIOUS
  <2> QED
    BY <2>1, LayoutAssumption DEF FreeSegment, MSizeMax
<1>3. left = swapped \o <<>>
  <2>1. ~(used < records[i].size)
    BY <1>2
  <2> QED
    BY <1>1, <2>1, Zenon DEF remove
<1> HIDE DEF pos
<1>4. /\ swapped \in Seq(FreeSegment) /\ Len(swapped) = Len(records) - 1
      /\ \A k \in 1..Len(records) - 1 :
            swapped[k] = records[IF k = pos THEN Len(records) ELSE k]
  BY <1>1, SwapRemoved
<1> HIDE DEF swapped, left
<1>5. left = swapped
  BY <1>3, <1>4
<1>6. left \in Seq(FreeSegment) /\ Len(left) = Len(records) - 1 /\ DOMAIN left = 1..Len(records) - 1
  BY <1>4, <1>5
<1>7. ASSUME NEW k \in DOMAIN left
      PROVE  \E j \in DOMAIN records : j # pos /\ left[k] = records[j]
                                       /\ j = IF k = pos THEN Len(records) ELSE k
  BY <1>1, <1>4, <1>5, <1>6
<1>8. ASSUME NEW j \in DOMAIN records, j # pos
      PROVE  \E k \in DOMAIN left : left[k] = records[j]
  <2>1. CASE j = Len(records)
    <3>1. pos \in DOMAIN left /\ left[pos] = records[Len(records)]
      BY <1>1, <1>4, <1>5, <1>6, <1>8, <2>1
    <3> QED
      BY <2>1, <3>1
  <2>2. CASE j # Len(records)
    <3>1. j \in DOMAIN left /\ left[j] = records[j]
      BY <1>1, <1>4, <1>5, <1>6, <1>8, <2>2
    <3> QED
      BY <3>1
  <2> QED
    BY <2>1, <2>2
<1>9. ASSUME Good(records)
      PROVE  Good(left)
  <2>1. \A k \in DOMAIN left : GoodSegment(left[k])
    BY <1>7, <1>9 DEF Good
  <2>2. ASSUME NEW k \in DOMAIN left, NEW l \in DOMAIN left, k # l
        PROVE  Apart(left[k], left[l])
    <3>1. PICK j \in DOMAIN records : left[k] = records[j] /\ j = IF k = pos THEN Len(records) ELSE k
      BY <1>7
    <3>2. PICK h \in DOMAIN records : left[l] = records[h] /\ h = IF l = pos THEN Len(records) ELSE l
      BY <1>7
    <3>3. j # h
      BY <1>6, <2>2, <3>1, <3>2
    <3> QED
      BY <1>9, <3>1, <3>2, <3>3 DEF Good
  <2> QED
    BY <1>6, <2>1, <2>2 DEF Good
<1>10. ASSUME Good(records), NEW k \in DOMAIN left
       PROVE  \E j \in DOMAIN records : left[k] = records[j] /\ Apart(records[j], records[i])
  <2>1. PICK j \in DOMAIN records : j # pos /\ left[k] = records[j]
    BY <1>7
  <2>2. Apart(records[j], records[pos])
    BY <1>1, <1>10, <2>1 DEF Good
  <2> QED
    BY <1>1, <2>1, <2>2
<1> QED
  BY <1>1, <1>6, <1>8, <1>9, <1>10 DEF left

-----------------------------------------------------------------------------
(* Merging                                                                 *)

Args == Seq(FreeSegment) \X FreeSegment

Before(a) == AdjacentBefore(a[1], a[2])
After(a) == AdjacentAfter(a[1], a[2])

Merges(a) == Before(a) # 0 \/ After(a) # 0

Partner(a) == IF Before(a) # 0 THEN a[1][Before(a)] ELSE a[1][After(a)]

\* The table without the partner, and the segment merged with it.
Rest(a) ==
    <<remove(a[1], Partner(a), Partner(a).size),
      [a[2] EXCEPT !.offset = IF Before(a) # 0 THEN Partner(a).offset ELSE a[2].offset,
                   !.size = saturating_add(Partner(a).size, @)]>>

LEMMA PartnerFound ==
    ASSUME NEW a \in Args, Merges(a)
    PROVE  /\ \E i \in DOMAIN a[1] : Partner(a) = a[1][i]
           /\ Partner(a).page = a[2].page
           /\ Before(a) # 0 => saturating_add(Partner(a).offset, Partner(a).size) = a[2].offset
           /\ Before(a) = 0 => saturating_add(a[2].offset, a[2].size) = Partner(a).offset
<1> DEFINE records == a[1]
           segment == a[2]
           B == {i \in 1..Len(records) :
                   /\ records[i].page = segment.page
                   /\ saturating_add(records[i].offset, records[i].size) = segment.offset}
           A == {i \in 1..Len(records) :
                   /\ records[i].page = segment.page
                   /\ records[i].offset = saturating_add(segment.offset, segment.size)}
<1>1. /\ Before(a) = IF B # {} THEN Min(B) ELSE 0
      /\ After(a) = IF A # {} THEN Min(A) ELSE 0
  BY DEF Before, After, AdjacentBefore, AdjacentAfter, SelectInSeq
<1>2. records \in Seq(FreeSegment) /\ Len(records) \in Nat /\ DOMAIN records = 1..Len(records)
  BY DEF Args
<1>3. B \in SUBSET (1..Len(records)) /\ A \in SUBSET (1..Len(records))
  OBVIOUS
<1>4. (Before(a) # 0 => Before(a) \in B) /\ (After(a) # 0 => After(a) \in A)
  <2> HIDE DEF A, B, records
  <2> QED
    BY <1>1, <1>2, <1>3, FirstOf
<1>5. CASE Before(a) # 0
  BY <1>2, <1>4, <1>5 DEF Partner
<1>6. CASE Before(a) = 0
  BY <1>2, <1>4, <1>6 DEF Partner, Merges
<1> QED
  BY <1>5, <1>6

LEMMA RestSmaller ==
    ASSUME NEW a \in Args, Merges(a)
    PROVE  /\ Rest(a) \in Args /\ Len(Rest(a)[1]) = Len(a[1]) - 1 /\ Len(a[1]) \in Nat
           /\ Rest(a)[2].page = a[2].page
           /\ Rest(a)[2].offset = IF Before(a) # 0 THEN Partner(a).offset ELSE a[2].offset
           /\ Rest(a)[2].size = saturating_add(Partner(a).size, a[2].size)
<1>1. PageSize \in Nat \ {0}
  BY LayoutAssumption
<1>2. PICK i \in DOMAIN a[1] : Partner(a) = a[1][i]
  BY PartnerFound
<1>3. a[1] \in Seq(FreeSegment) /\ a[2] \in FreeSegment /\ Partner(a) \in FreeSegment
  BY <1>2 DEF Args
<1>4. /\ Partner(a).offset \in Cells /\ Partner(a).size \in 0..PageSize - 1
      /\ a[2].page \in PageIds /\ a[2].offset \in Cells /\ a[2].size \in 0..PageSize - 1
  BY <1>3 DEF FreeSegment, MSizeMax
<1>5. LET left == remove(a[1], a[1][i], a[1][i].size)
      IN  left \in Seq(FreeSegment) /\ Len(left) = Len(a[1]) - 1
  <2>1. a[1][i].size \in Nat /\ a[1][i].size >= a[1][i].size
    BY <1>1, <1>2, <1>4
  <2> QED
    BY <1>3, <2>1, RemovedWhole
<1>6. saturating_add(Partner(a).size, a[2].size) \in 0..PageSize - 1
  BY <1>1, <1>4 DEF saturating_add, MSizeMax
<1>7. /\ Rest(a)[1] = remove(a[1], a[1][i], a[1][i].size)
      /\ Rest(a)[2] \in FreeSegment
      /\ Rest(a)[2].page = a[2].page
      /\ Rest(a)[2].offset = IF Before(a) # 0 THEN Partner(a).offset ELSE a[2].offset
      /\ Rest(a)[2].size = saturating_add(Partner(a).size, a[2].size)
  BY <1>2, <1>3, <1>4, <1>6 DEF Rest, FreeSegment, MSizeMax
<1>8. Rest(a) = <<Rest(a)[1], Rest(a)[2]>>
  BY DEF Rest
<1> QED
  BY <1>3, <1>5, <1>7, <1>8 DEF Args

\* f is what TableWith would be on tables of at most n segments.
Partial(f, n) ==
    f = [a \in {b \in Args : Len(b[1]) <= n} |->
            IF Merges(a) THEN f[Rest(a)] ELSE Append(a[1], a[2])]

LEMMA PartialGrows ==
    ASSUME NEW n \in Nat, NEW f, Partial(f, n)
    PROVE  \E g : Partial(g, n + 1)
<1> DEFINE g == [a \in {b \in Args : Len(b[1]) <= n + 1} |->
                    IF Merges(a) THEN f[Rest(a)] ELSE Append(a[1], a[2])]
<1>1. \A a \in Args : Len(a[1]) \in Nat
  BY DEF Args
<1>2. ASSUME NEW a \in Args, Len(a[1]) <= n
      PROVE  g[a] = f[a]
  <2>1. Len(a[1]) <= n + 1
    BY <1>1, <1>2
  <2>2. f[a] = IF Merges(a) THEN f[Rest(a)] ELSE Append(a[1], a[2])
    BY <1>2 DEF Partial
  <2> QED
    BY <2>1, <2>2
<1>3. ASSUME NEW a \in Args, Len(a[1]) <= n + 1, Merges(a)
      PROVE  f[Rest(a)] = g[Rest(a)]
  <2>1. Rest(a) \in Args /\ Len(Rest(a)[1]) <= n
    BY <1>1, <1>3, RestSmaller
  <2> QED
    BY <1>2, <2>1
<1>4. Partial(g, n + 1)
  BY <1>3 DEF Partial
<1> QED
  BY <1>4

LEMMA PartialDefined == \A n \in Nat : \E f : Partial(f, n)
<1> DEFINE Missing == {n \in Nat : ~\E f : Partial(f, n)}
<1> SUFFICES ASSUME Missing # {} PROVE FALSE
  OBVIOUS
<1>1. PICK n \in Missing : \A m \in Missing : n <= m
  BY LeastNatural
<1>2. \E f : Partial(f, 0)
  <2> DEFINE f == [a \in {b \in Args : Len(b[1]) <= 0} |-> Append(a[1], a[2])]
  <2>1. ASSUME NEW a \in Args, Len(a[1]) <= 0
        PROVE  ~Merges(a)
    <3> SUFFICES ASSUME Merges(a) PROVE FALSE
      OBVIOUS
    <3>1. Rest(a)[1] \in Seq(FreeSegment) /\ Len(Rest(a)[1]) = Len(a[1]) - 1 /\ Len(a[1]) \in Nat
      BY RestSmaller DEF Args
    <3> QED
      BY <2>1, <3>1
  <2>2. Partial(f, 0)
    BY <2>1 DEF Partial
  <2> QED
    BY <2>2
<1>3. n - 1 \in Nat /\ n - 1 \notin Missing /\ n = (n - 1) + 1
  BY <1>1, <1>2
<1> QED
  BY <1>3, PartialGrows

LEMMA PartialUnique ==
    ASSUME NEW m \in Nat, NEW n \in Nat, NEW f, NEW g, Partial(f, m), Partial(g, n),
           NEW a \in Args, Len(a[1]) <= m, Len(a[1]) <= n
    PROVE  f[a] = g[a]
<1> DEFINE Wrong == {k \in Nat : k <= m /\ k <= n
                                  /\ \E b \in Args : Len(b[1]) = k /\ f[b] # g[b]}
<1>1. \A b \in Args : Len(b[1]) \in Nat
  BY DEF Args
<1>2. Wrong = {}
  <2> SUFFICES ASSUME Wrong # {} PROVE FALSE
    OBVIOUS
  <2>1. PICK k \in Wrong : \A l \in Wrong : k <= l
    BY LeastNatural
  <2>2. PICK b \in Args : Len(b[1]) = k /\ f[b] # g[b]
    OBVIOUS
  <2>3. /\ f[b] = IF Merges(b) THEN f[Rest(b)] ELSE Append(b[1], b[2])
        /\ g[b] = IF Merges(b) THEN g[Rest(b)] ELSE Append(b[1], b[2])
    BY <2>2 DEF Partial
  <2>4. Merges(b) /\ f[Rest(b)] # g[Rest(b)]
    BY <2>2, <2>3
  <2>5. Rest(b) \in Args /\ Len(Rest(b)[1]) = k - 1 /\ Len(Rest(b)[1]) \in Nat
    BY <1>1, <2>2, <2>4, RestSmaller
  <2>6. k - 1 \in Wrong
    BY <2>1, <2>4, <2>5
  <2> QED
    BY <2>1, <2>6
<1> QED
  BY <1>1, <1>2

\* The body of TableWith, with f in its place.
TableBody(f, arg) ==
    LET records == arg[1]
        segment == arg[2]
        before  == AdjacentBefore(records, segment)
        after   == AdjacentAfter(records, segment)
        Merge(i, offset) ==
            f[<<remove(records, records[i], records[i].size),
                [segment EXCEPT !.offset = offset,
                                !.size = saturating_add(records[i].size, @)]>>]
    IN CASE before # 0 -> Merge(before, records[before].offset)
         [] before = 0 /\ after # 0 -> Merge(after, segment.offset)
         [] OTHER -> Append(records, segment)

LEMMA BodyMerges ==
    ASSUME NEW f, NEW a
    PROVE  TableBody(f, a) = IF Merges(a) THEN f[Rest(a)] ELSE Append(a[1], a[2])
<1>1. CASE Before(a) # 0
  BY <1>1 DEF TableBody, Merges, Rest, Partner, Before, After
<1>2. CASE Before(a) = 0 /\ After(a) # 0
  BY <1>2 DEF TableBody, Merges, Rest, Partner, Before, After
<1>3. CASE Before(a) = 0 /\ After(a) = 0
  BY <1>3 DEF TableBody, Merges, Before, After
<1> QED
  BY <1>1, <1>2, <1>3

\* One call of TableWith.
LEMMA TableWithUnfolded ==
    ASSUME NEW a \in Args
    PROVE  TableWith[a] = IF Merges(a) THEN TableWith[Rest(a)] ELSE Append(a[1], a[2])
<1> DEFINE Upto(b) == CHOOSE f : Partial(f, Len(b[1]))
           F == [b \in Args |-> Upto(b)[b]]
           G == CHOOSE f : f = [b \in Args |-> TableBody(f, b)]
<1>1. ASSUME NEW b \in Args
      PROVE  Len(b[1]) \in Nat /\ Partial(Upto(b), Len(b[1]))
  <2>1. Len(b[1]) \in Nat
    BY DEF Args
  <2>2. \E f : Partial(f, Len(b[1]))
    BY <2>1, PartialDefined
  <2> QED
    BY <2>1, <2>2
<1> HIDE DEF Upto
<1>2. ASSUME NEW b \in Args
      PROVE  F[b] = IF Merges(b) THEN F[Rest(b)] ELSE Append(b[1], b[2])
  <2>1. Upto(b)[b] = IF Merges(b) THEN Upto(b)[Rest(b)] ELSE Append(b[1], b[2])
    <3>1. Len(b[1]) <= Len(b[1]) /\ Partial(Upto(b), Len(b[1]))
      BY <1>1
    <3> QED
      BY <3>1 DEF Partial
  <2>2. ASSUME Merges(b)
        PROVE  Upto(b)[Rest(b)] = Upto(Rest(b))[Rest(b)] /\ Rest(b) \in Args
    <3>1. Rest(b) \in Args /\ Len(Rest(b)[1]) <= Len(b[1])
      BY <1>1, <2>2, RestSmaller
    <3>2. Len(Rest(b)[1]) \in Nat /\ Len(Rest(b)[1]) <= Len(Rest(b)[1])
      BY <1>1, <3>1
    <3> QED
      BY <1>1, <3>1, <3>2, PartialUnique
  <2> QED
    BY <2>1, <2>2
<1>3. F = [b \in Args |-> TableBody(F, b)]
  <2>1. \A b \in Args : F[b] = TableBody(F, b)
    BY <1>2, BodyMerges
  <2> QED
    BY <2>1
<1> HIDE DEF F
<1>4. G = [b \in Args |-> TableBody(G, b)]
  BY <1>3
<1>5. TableWith = G
  BY Zenon DEF TableWith, TableBody, Args
<1> HIDE DEF G
<1>6. TableWith[a] = TableBody(TableWith, a)
  BY <1>4, <1>5
<1> QED
  BY <1>6, BodyMerges

\* A segment that may be added to a table.
Ready(a) ==
    /\ a \in Args /\ Good(a[1]) /\ GoodSegment(a[2]) /\ Clear(a[1], a[2])

\* What is apart from a table and a segment, where they are, and how far
\* they go.
ClearOf(a, x) == Clear(a[1], x) /\ Apart(a[2], x)
Holds(a, p, o) == InSome(a[1], p, o) \/ In(a[2], p, o)
Bounded(a, r) ==
    \/ \E i \in DOMAIN a[1] : r.page = a[1][i].page /\ End(r) <= End(a[1][i])
    \/ r.page = a[2].page /\ End(r) <= End(a[2])

\* The list of segments `merger` is as good as the table and the segment.
Absorbs(a, merger) ==
    /\ Good(merger) /\ Len(merger) <= Len(a[1]) + 1
    /\ \A x : Extended(x) /\ ClearOf(a, x) => Clear(merger, x)
    /\ \A p : \A o \in Cells : Holds(a, p, o) => InSome(merger, p, o) \/ o = PageSize - 1
    /\ \A i \in DOMAIN merger : Bounded(a, merger[i])

LEMMA RestReady ==
    ASSUME NEW a, Ready(a), Merges(a)
    PROVE  /\ Ready(Rest(a))
           /\ \A x : Extended(x) /\ ClearOf(a, x) => ClearOf(Rest(a), x)
           /\ \A p : \A o \in Cells : Holds(a, p, o) => Holds(Rest(a), p, o) \/ o = PageSize - 1
           /\ \A r : Bounded(Rest(a), r) /\ End(r) \in Nat => Bounded(a, r)
<1> DEFINE records == a[1]
           segment == a[2]
           partner == Partner(a)
           left == Rest(a)[1]
           m == Rest(a)[2]
<1>1. /\ records \in Seq(FreeSegment) /\ Good(records) /\ GoodSegment(segment)
      /\ Clear(records, segment) /\ a \in Args
  BY DEF Ready, Args
<1>2. PICK i \in DOMAIN records : partner = records[i]
  BY <1>1, PartnerFound
<1>3. /\ partner.page = segment.page
      /\ Before(a) # 0 => saturating_add(partner.offset, partner.size) = segment.offset
      /\ Before(a) = 0 => saturating_add(segment.offset, segment.size) = partner.offset
  BY <1>1, PartnerFound
<1>4. /\ Rest(a) \in Args /\ m.page = segment.page
      /\ m.offset = IF Before(a) # 0 THEN partner.offset ELSE segment.offset
      /\ m.size = saturating_add(partner.size, segment.size)
  BY <1>1, RestSmaller
<1>5. m \in FreeSegment /\ left \in Seq(FreeSegment)
  BY <1>4 DEF Args
<1>6. GoodSegment(partner) /\ Apart(partner, segment) /\ Apart(segment, partner)
  BY <1>1, <1>2, ApartSymmetric DEF Good, Clear
<1>7. partner.size \in Nat /\ segment.size \in Nat
  BY <1>1, <1>6, SegmentFields
<1>8. saturating_add(partner.size, segment.size) = saturating_add(segment.size, partner.size)
  BY <1>7 DEF saturating_add
<1>9. left = remove(records, records[i], records[i].size)
  BY <1>2 DEF Rest
<1>10. /\ Good(left)
       /\ \A k \in DOMAIN left :
             \E j \in DOMAIN records : left[k] = records[j] /\ Apart(records[j], partner)
       /\ \A j \in DOMAIN records :
             records[j] = partner \/ \E k \in DOMAIN left : left[k] = records[j]
  <2>1. records[i].size \in Nat /\ records[i].size >= records[i].size
    BY <1>2, <1>7
  <2> HIDE DEF records, left, partner
  <2>2. LET rest == remove(records, records[i], records[i].size)
        IN  /\ Good(rest)
            /\ \A k \in DOMAIN rest :
                  \E j \in DOMAIN records :
                      rest[k] = records[j] /\ Apart(records[j], records[i])
            /\ \A j \in DOMAIN records :
                  records[j] = records[i] \/ \E k \in DOMAIN rest : rest[k] = records[j]
    BY <1>1, <2>1, RemovedWhole
  <2> QED
    BY <1>2, <1>9, <2>2
<1> HIDE DEF records, segment, partner, left, m
<1>11. /\ GoodSegment(m)
       /\ End(m) <= End(segment) \/ End(m) <= End(partner)
       /\ \A x : Extended(x) /\ Apart(partner, x) /\ Apart(segment, x) => Apart(m, x)
       /\ \A p, o : o \in Cells /\ (In(partner, p, o) \/ In(segment, p, o))
                       => In(m, p, o) \/ o = PageSize - 1
  <2>1. CASE Before(a) # 0
    <3>1. m.page = partner.page /\ m.offset = partner.offset
      BY <1>3, <1>4, <2>1
    <3> QED
      BY <1>1, <1>3, <1>4, <1>5, <1>6, <2>1, <3>1, Merged
  <2>2. CASE Before(a) = 0
    <3>1. /\ m.page = segment.page /\ m.offset = segment.offset
          /\ m.size = saturating_add(segment.size, partner.size) /\ segment.page = partner.page
      BY <1>3, <1>4, <1>8, <2>2
    <3> QED
      BY <1>1, <1>3, <1>5, <1>6, <2>2, <3>1, Merged
  <2> QED
    BY <2>1, <2>2
<1>12. Clear(left, m)
  <2> SUFFICES ASSUME NEW k \in DOMAIN left PROVE Apart(left[k], m)
    BY DEF Clear
  <2>1. PICK j \in DOMAIN records : left[k] = records[j] /\ Apart(records[j], partner)
    BY <1>10
  <2>2. Apart(partner, left[k]) /\ Apart(segment, left[k])
    BY <1>1, <2>1, ApartSymmetric DEF Clear
  <2>3. Extended(left[k])
    BY <1>10, SegmentFields DEF Good
  <2> QED
    BY <1>11, <2>2, <2>3, ApartSymmetric
<1>13. Ready(Rest(a))
  BY <1>4, <1>10, <1>11, <1>12 DEF Ready, left, m
<1>14. ASSUME NEW x, Extended(x), ClearOf(a, x)
       PROVE  ClearOf(Rest(a), x)
  <2>1. Clear(records, x) /\ Apart(segment, x)
    BY <1>14 DEF ClearOf, records, segment
  <2>2. Clear(left, x)
    BY <1>10, <2>1 DEF Clear
  <2>3. Apart(partner, x)
    BY <1>2, <2>1 DEF Clear
  <2> QED
    BY <1>11, <1>14, <2>1, <2>2, <2>3 DEF ClearOf, left, m
<1>15. ASSUME NEW p, NEW o \in Cells, Holds(a, p, o)
       PROVE  Holds(Rest(a), p, o) \/ o = PageSize - 1
  <2>1. InSome(records, p, o) \/ In(segment, p, o)
    BY <1>15 DEF Holds, records, segment
  <2>2. InSome(left, p, o) \/ In(partner, p, o) \/ In(segment, p, o)
    BY <1>10, <2>1 DEF InSome
  <2> QED
    BY <1>11, <2>2 DEF Holds, left, m
<1>16. ASSUME NEW r, Bounded(Rest(a), r), End(r) \in Nat
       PROVE  Bounded(a, r)
  <2>1. \/ \E k \in DOMAIN left : r.page = left[k].page /\ End(r) <= End(left[k])
        \/ r.page = m.page /\ End(r) <= End(m)
    BY <1>16 DEF Bounded, left, m
  <2>2. End(m) \in Nat /\ End(segment) \in Nat /\ End(partner) \in Nat
    BY <1>1, <1>6, <1>11, SegmentFields
  <2>3. \/ \E j \in DOMAIN records : r.page = records[j].page /\ End(r) <= End(records[j])
        \/ r.page = segment.page /\ End(r) <= End(segment)
    <3>1. CASE \E k \in DOMAIN left : r.page = left[k].page /\ End(r) <= End(left[k])
      BY <1>10, <3>1
    <3>2. CASE r.page = m.page /\ End(r) <= End(m)
      <4>1. End(r) <= End(segment) \/ End(r) <= End(partner)
        BY <1>11, <1>16, <2>2, <3>2
      <4> QED
        BY <1>2, <1>3, <1>4, <3>2, <4>1
    <3> QED
      BY <2>1, <3>1, <3>2
  <2> QED
    BY <2>3 DEF Bounded, records, segment
<1> QED
  BY <1>13, <1>14, <1>15, <1>16

\* Nothing to merge with: the segment is appended.
LEMMA AppendAbsorbs ==
    ASSUME NEW a, Ready(a)
    PROVE  Absorbs(a, Append(a[1], a[2]))
<1> DEFINE records == a[1]
           segment == a[2]
           merger == Append(records, segment)
<1>1. /\ records \in Seq(FreeSegment) /\ Good(records) /\ GoodSegment(segment)
      /\ segment \in FreeSegment /\ Clear(records, segment)
  BY DEF Ready, Args
<1> HIDE DEF records, segment
<1>2. /\ merger \in Seq(FreeSegment) /\ Len(merger) = Len(records) + 1 /\ Len(records) \in Nat
      /\ DOMAIN merger = 1..Len(records) + 1 /\ DOMAIN records = 1..Len(records)
      /\ merger[Len(records) + 1] = segment
      /\ \A k \in DOMAIN records : k \in DOMAIN merger /\ merger[k] = records[k]
  BY <1>1
<1> HIDE DEF merger
<1>3. \A k \in DOMAIN merger : \/ k \in DOMAIN records /\ merger[k] = records[k]
                               \/ k = Len(records) + 1 /\ merger[k] = segment
  BY <1>2
<1>4. Good(merger)
  <2>1. \A k \in DOMAIN merger : GoodSegment(merger[k])
    BY <1>1, <1>3 DEF Good
  <2>2. ASSUME NEW k \in DOMAIN merger, NEW l \in DOMAIN merger, k # l
        PROVE  Apart(merger[k], merger[l])
    BY <1>1, <1>3, <2>2, ApartSymmetric DEF Good, Clear
  <2> QED
    BY <1>2, <2>1, <2>2 DEF Good
<1>5. \A x : Clear(records, x) /\ Apart(segment, x) => Clear(merger, x)
  BY <1>3 DEF Clear
<1>6. \A p, o : InSome(records, p, o) \/ In(segment, p, o) => InSome(merger, p, o)
  <2>1. Len(records) + 1 \in DOMAIN merger
    BY <1>2
  <2> QED
    BY <1>2, <2>1 DEF InSome
<1>7. ASSUME NEW k \in DOMAIN merger
      PROVE  \/ \E i \in DOMAIN records : merger[k].page = records[i].page
                                          /\ End(merger[k]) <= End(records[i])
             \/ merger[k].page = segment.page /\ End(merger[k]) <= End(segment)
  <2>1. End(merger[k]) \in Nat
    BY <1>4, SegmentFields DEF Good
  <2>2. End(merger[k]) <= End(merger[k])
    BY <2>1
  <2> QED
    BY <1>3, <2>2
<1> QED
  BY <1>2, <1>4, <1>5, <1>6, <1>7 DEF Absorbs, ClearOf, Holds, Bounded, records, segment, merger

LEMMA AbsorbsRest ==
    ASSUME NEW a, Ready(a), Merges(a), NEW merger, Absorbs(Rest(a), merger)
    PROVE  Absorbs(a, merger)
<1>1. Len(Rest(a)[1]) = Len(a[1]) - 1 /\ Len(a[1]) \in Nat
  BY RestSmaller DEF Ready
<1>2. /\ \A x : Extended(x) /\ ClearOf(a, x) => ClearOf(Rest(a), x)
      /\ \A p : \A o \in Cells : Holds(a, p, o) => Holds(Rest(a), p, o) \/ o = PageSize - 1
      /\ \A r : Bounded(Rest(a), r) /\ End(r) \in Nat => Bounded(a, r)
  BY RestReady
<1>3. Good(merger) /\ Len(merger) \in Nat /\ \A i \in DOMAIN merger : End(merger[i]) \in Nat
  BY SegmentFields DEF Absorbs, Good
<1>4. Len(merger) <= Len(a[1]) + 1
  BY <1>1, <1>3 DEF Absorbs
<1>5. \A x : Extended(x) /\ ClearOf(a, x) => Clear(merger, x)
  BY <1>2 DEF Absorbs
<1>6. \A p : \A o \in Cells : Holds(a, p, o) => InSome(merger, p, o) \/ o = PageSize - 1
  BY <1>2 DEF Absorbs
<1>7. \A i \in DOMAIN merger : Bounded(a, merger[i])
  BY <1>2, <1>3 DEF Absorbs
<1> QED
  BY <1>3, <1>4, <1>5, <1>6, <1>7 DEF Absorbs

\* insert_free_segment of a table, however many neighbours are merged.
LEMMA TableWithAbsorbs ==
    ASSUME NEW a, Ready(a)
    PROVE  Absorbs(a, TableWith[a])
<1> DEFINE Wrong == {n \in Nat : \E b : Ready(b) /\ Len(b[1]) = n /\ ~Absorbs(b, TableWith[b])}
<1>1. Wrong = {}
  <2> SUFFICES ASSUME Wrong # {} PROVE FALSE
    OBVIOUS
  <2>1. PICK n \in Wrong : \A m \in Wrong : n <= m
    BY LeastNatural
  <2>2. PICK b : Ready(b) /\ Len(b[1]) = n /\ ~Absorbs(b, TableWith[b])
    OBVIOUS
  <2>3. TableWith[b] = IF Merges(b) THEN TableWith[Rest(b)] ELSE Append(b[1], b[2])
    BY <2>2, TableWithUnfolded DEF Ready
  <2>4. Merges(b)
    BY <2>2, <2>3, AppendAbsorbs
  <2>5. ~Absorbs(Rest(b), TableWith[Rest(b)])
    BY <2>2, <2>3, <2>4, AbsorbsRest
  <2>6. Ready(Rest(b)) /\ Len(Rest(b)[1]) = n - 1 /\ Rest(b) \in Args
    BY <2>2, <2>4, RestReady, RestSmaller DEF Ready
  <2>7. n - 1 \in Nat
    <3>1. Len(Rest(b)[1]) \in Nat
      BY <2>6 DEF Args
    <3> QED
      BY <2>6, <3>1
  <2>8. n - 1 \in Wrong
    BY <2>5, <2>6, <2>7
  <2> QED
    BY <2>1, <2>7, <2>8
<1>2. Len(a[1]) \in Nat
  BY DEF Ready, Args
<1> QED
  BY <1>1, <1>2

-----------------------------------------------------------------------------
(* Reuse                                                                   *)

\* What is left of a segment whose first cells were taken.
Cut(r, used) == [r EXCEPT !.offset = saturating_add(@, used), !.size = @ - used]

LEMMA RemovedPart ==
    ASSUME NEW records \in Seq(FreeSegment), NEW i \in DOMAIN records,
           NEW used \in Nat, used < records[i].size
    PROVE  remove(records, records[i], used)
             = Append(remove(records, records[i], records[i].size), Cut(records[i], used))
<1> DEFINE pos == SelectInSeq(records, LAMBDA r : r = records[i])
           swapped == swap_remove(records, pos)
           cut == Cut(records[i], used)
<1>1. pos \in DOMAIN records /\ pos # 0
  BY Found
<1>2. records[i].size \in Nat
  <2>1. records[i] \in FreeSegment
    OBVIOUS
  <2> QED
    BY <2>1, LayoutAssumption DEF FreeSegment, MSizeMax
<1>3. ~(records[i].size < records[i].size)
  BY <1>2
<1>4. remove(records, records[i], records[i].size) = swapped \o <<>>
  BY <1>1, <1>3, Zenon DEF remove
<1>5. remove(records, records[i], used) = swapped \o <<cut>>
  BY <1>1, Zenon DEF remove, Cut
<1> HIDE DEF pos, cut
<1>6. swapped \in Seq(FreeSegment)
  BY <1>1, SwapRemoved
<1> HIDE DEF swapped
<1>7. swapped \o <<>> = swapped /\ swapped \o <<cut>> = Append(swapped, cut)
  BY <1>6
<1> QED
  BY <1>4, <1>5, <1>7 DEF cut

LEMMA CutGood ==
    ASSUME NEW r, GoodSegment(r), NEW used \in Nat, Slot(used), used > 0, used < r.size
    PROVE  /\ GoodSegment(Cut(r, used)) /\ Cut(r, used).page = r.page
           /\ Cut(r, used).offset = r.offset + used /\ End(Cut(r, used)) = End(r)
<1> DEFINE c == Cut(r, used)
<1>1. PageSize \in Nat \ {0} /\ Alignment \in Nat \ {0}
  BY LayoutAssumption
<1>2. /\ r.page \in PageIds /\ r.offset \in Nat /\ r.size \in Nat /\ r.size <= PageSize - 1
      /\ AlignUp(r.size) \in Nat /\ r.offset + r.size <= End(r) /\ End(r) <= PageSize /\ End(r) \in Nat
      /\ Slot(r.offset) /\ (Slot(r.size) \/ r.offset + r.size = PageSize - 1)
      /\ r \in FreeSegment /\ End(r) = r.offset + AlignUp(r.size)
  BY SegmentFields DEF GoodSegment, End
<1>3. saturating_add(r.offset, used) = r.offset + used /\ r.offset + used <= PageSize - 1
  BY <1>1, <1>2 DEF saturating_add, MSizeMax
<1>4. c = [page |-> r.page, offset |-> r.offset + used, size |-> r.size - used]
  <2>1. r = [page |-> r.page, offset |-> r.offset, size |-> r.size]
    BY <1>2 DEF FreeSegment
  <2>2. c = [r EXCEPT !.offset = r.offset + used, !.size = r.size - used]
    BY <1>3, Zenon DEF Cut
  <2> QED
    BY <2>1, <2>2
<1>5. c.page = r.page /\ c.offset = r.offset + used /\ c.size = r.size - used
  BY <1>4
<1>6. c \in FreeSegment
  BY <1>1, <1>2, <1>3, <1>4 DEF FreeSegment, Cells, MSizeMax
<1>7. AlignUp(r.size - used) = AlignUp(r.size) - used
  BY <1>2, AlignUpFacts
<1>8. End(c) = End(r)
  BY <1>2, <1>5, <1>7 DEF End
<1>9. Slot(r.offset + used) /\ (Slot(r.size) => Slot(r.size - used))
  <2>1. used <= r.size
    BY <1>2
  <2> QED
    BY <1>2, <2>1, SlotSum
<1>10. Slot(c.size) \/ c.offset + c.size = PageSize - 1
  BY <1>2, <1>5, <1>9
<1>11. GoodSegment(c)
  BY <1>2, <1>5, <1>6, <1>8, <1>9, <1>10 DEF GoodSegment
<1> QED
  BY <1>5, <1>8, <1>11

\* The first cells of a segment are taken: `piece` is what was taken.
Carves(records, i, piece, left) ==
    /\ Good(left) /\ Len(left) <= Len(records) /\ Clear(left, piece)
    /\ \A x : Extended(x) /\ Clear(records, x) => Clear(left, x)
    /\ \A p : \A o \in Cells :
          InSome(records, p, o) => InSome(left, p, o) \/ In(piece, p, o) \/ o = PageSize - 1
    /\ \A k \in DOMAIN left : \E j \in DOMAIN records :
          left[k].page = records[j].page /\ End(left[k]) <= End(records[j])

LEMMA CarvesWhole ==
    ASSUME NEW records, Good(records), NEW i \in DOMAIN records,
           NEW piece, piece.page = records[i].page, piece.offset = records[i].offset,
           piece.size \in Nat, Slot(piece.size), piece.size <= AlignUp(records[i].size),
           piece.size >= records[i].size
    PROVE  Carves(records, i, piece, remove(records, records[i], piece.size))
<1> DEFINE left == remove(records, records[i], piece.size)
<1>1. records \in Seq(FreeSegment) /\ GoodSegment(records[i]) /\ Len(records) \in Nat
  BY DEF Good
<1>2. /\ left \in Seq(FreeSegment) /\ Len(left) = Len(records) - 1 /\ Good(left)
      /\ \A k \in DOMAIN left :
            \E j \in DOMAIN records : left[k] = records[j] /\ Apart(records[j], records[i])
      /\ \A j \in DOMAIN records :
            records[j] = records[i] \/ \E k \in DOMAIN left : left[k] = records[j]
  BY <1>1, RemovedWhole
<1> HIDE DEF left
<1>3. End(piece) = End(records[i])
  <2>1. /\ records[i].size \in Nat /\ AlignUp(records[i].size) \in Nat
        /\ \A m \in Nat : Slot(m) /\ records[i].size <= m => AlignUp(records[i].size) <= m
    BY <1>1, SegmentFields, AlignUpLeast
  <2>2. piece.size = AlignUp(records[i].size)
    BY <2>1
  <2>3. AlignUp(piece.size) = piece.size
    BY AlignUpFacts
  <2> QED
    BY <2>2, <2>3 DEF End
<1>4. \A x : Apart(x, records[i]) => Apart(x, piece)
  BY <1>3 DEF Apart
<1>5. \A p, o : In(records[i], p, o) => In(piece, p, o)
  BY <1>3 DEF In
<1>6. Clear(left, piece)
  BY <1>2, <1>4 DEF Clear
<1>7. \A x : Clear(records, x) => Clear(left, x)
  BY <1>2 DEF Clear
<1>8. \A p, o : InSome(records, p, o) => InSome(left, p, o) \/ In(piece, p, o)
  BY <1>2, <1>5 DEF InSome
<1>9. ASSUME NEW k \in DOMAIN left
      PROVE  \E j \in DOMAIN records : left[k].page = records[j].page /\ End(left[k]) <= End(records[j])
  <2>1. End(left[k]) \in Nat
    BY <1>2, SegmentFields DEF Good
  <2>2. End(left[k]) <= End(left[k])
    BY <2>1
  <2> QED
    BY <1>2, <2>2
<1>10. Len(left) <= Len(records)
  BY <1>1, <1>2
<1> QED
  BY <1>2, <1>6, <1>7, <1>8, <1>9, <1>10 DEF Carves, left

LEMMA CarvesPart ==
    ASSUME NEW records, Good(records), NEW i \in DOMAIN records,
           NEW piece, piece.page = records[i].page, piece.offset = records[i].offset,
           piece.size \in Nat, Slot(piece.size), piece.size > 0,
           piece.size < records[i].size
    PROVE  Carves(records, i, piece, remove(records, records[i], piece.size))
<1> DEFINE r == records[i]
           whole == remove(records, records[i], records[i].size)
           cut == Cut(records[i], piece.size)
           left == remove(records, records[i], piece.size)
           a == <<whole, cut>>
<1>1. records \in Seq(FreeSegment) /\ GoodSegment(r) /\ Len(records) \in Nat
  BY DEF Good
<1>2. r.size \in Nat /\ r.size >= r.size /\ r.offset \in Nat /\ Slot(r.offset)
  BY <1>1, SegmentFields DEF GoodSegment
<1>3. /\ whole \in Seq(FreeSegment) /\ Len(whole) = Len(records) - 1 /\ Good(whole)
      /\ \A k \in DOMAIN whole :
            \E j \in DOMAIN records : whole[k] = records[j] /\ Apart(records[j], r)
      /\ \A j \in DOMAIN records :
            records[j] = r \/ \E k \in DOMAIN whole : whole[k] = records[j]
  BY <1>1, <1>2, RemovedWhole
<1>4. left = Append(whole, cut)
  BY <1>1, RemovedPart
<1>5. GoodSegment(cut) /\ cut.page = r.page /\ cut.offset = r.offset + piece.size /\ End(cut) = End(r)
  BY <1>1, CutGood
<1> HIDE DEF whole, cut, left, r
<1>6. Extended(r) /\ Extended(cut) /\ End(r) \in Nat
  BY <1>1, <1>5, SegmentFields
<1>7. AlignUp(piece.size) = piece.size /\ End(piece) = r.offset + piece.size
  BY <1>2, AlignUpFacts DEF End, r
<1>8. ASSUME NEW x, Extended(x), Apart(r, x)
      PROVE  Apart(cut, x)
  BY <1>2, <1>5, <1>6, <1>8 DEF Apart, Extended
<1>9. Clear(whole, cut)
  <2> SUFFICES ASSUME NEW k \in DOMAIN whole PROVE Apart(whole[k], cut)
    BY DEF Clear
  <2>1. Apart(r, whole[k]) /\ Extended(whole[k])
    BY <1>3, ApartSymmetric, SegmentFields DEF Good
  <2> QED
    BY <1>8, <2>1, ApartSymmetric
<1>10. cut \in FreeSegment
  BY <1>5 DEF GoodSegment
<1>11. Ready(a) /\ a[1] = whole /\ a[2] = cut
  BY <1>3, <1>5, <1>9, <1>10 DEF Ready, Args
<1>12. Absorbs(a, left)
  BY <1>4, <1>11, AppendAbsorbs
<1> HIDE DEF a
<1>13. Extended(piece) /\ piece.page = r.page /\ piece.offset = r.offset
  BY <1>2, <1>7 DEF Extended, r
<1>14. ASSUME NEW x, Extended(x), Clear(records, x)
       PROVE  Clear(left, x)
  <2>1. Apart(r, x) /\ Clear(whole, x)
    BY <1>3, <1>14 DEF Clear, r
  <2> QED
    BY <1>8, <1>11, <1>12, <1>14, <2>1 DEF Absorbs, ClearOf
<1>15. Clear(left, piece)
  <2>1. Apart(cut, piece)
    BY <1>2, <1>5, <1>7, <1>13 DEF Apart
  <2>2. ASSUME NEW k \in DOMAIN whole
        PROVE  Apart(whole[k], piece)
    <3>1. Apart(whole[k], r) /\ Extended(whole[k])
      BY <1>3, SegmentFields DEF Good
    <3> QED
      BY <1>2, <1>5, <1>6, <1>7, <1>13, <3>1 DEF Apart, Extended
  <2> QED
    BY <1>11, <1>12, <1>13, <2>1, <2>2 DEF Absorbs, ClearOf, Clear
<1>16. ASSUME NEW p, NEW o \in Cells, InSome(records, p, o)
       PROVE  InSome(left, p, o) \/ In(piece, p, o) \/ o = PageSize - 1
  <2>1. o \in Nat
    BY LayoutAssumption DEF Cells
  <2>2. In(r, p, o) => In(cut, p, o) \/ In(piece, p, o)
    BY <1>2, <1>5, <1>6, <1>7, <1>13, <2>1 DEF In
  <2>3. InSome(whole, p, o) \/ In(r, p, o)
    BY <1>3, <1>16 DEF InSome
  <2> QED
    BY <1>11, <1>12, <2>2, <2>3 DEF Absorbs, Holds
<1>17. ASSUME NEW k \in DOMAIN left
       PROVE  \E j \in DOMAIN records : left[k].page = records[j].page /\ End(left[k]) <= End(records[j])
  <2>1. Bounded(a, left[k])
    BY <1>12 DEF Absorbs
  <2>2. \/ \E j \in DOMAIN whole : left[k].page = whole[j].page /\ End(left[k]) <= End(whole[j])
        \/ left[k].page = cut.page /\ End(left[k]) <= End(cut)
    BY <1>11, <2>1 DEF Bounded
  <2> QED
    BY <1>3, <1>5, <2>2 DEF r
<1>18. Len(left) <= Len(records)
  <2>1. Good(left) /\ Len(left) <= Len(whole) + 1
    BY <1>11, <1>12 DEF Absorbs
  <2> QED
    BY <1>1, <1>3, <2>1 DEF Good
<1> QED
  BY <1>12, <1>14, <1>15, <1>16, <1>17, <1>18 DEF Carves, Absorbs, left

LEMMA Carved ==
    ASSUME NEW records, Good(records), NEW i \in DOMAIN records,
           NEW piece, piece.page = records[i].page, piece.offset = records[i].offset,
           piece.size \in Nat, Slot(piece.size), piece.size > 0,
           piece.size <= AlignUp(records[i].size)
    PROVE  Carves(records, i, piece, remove(records, records[i], piece.size))
<1>1. records[i].size \in Nat
  BY SegmentFields DEF Good
<1>2. piece.size < records[i].size \/ piece.size >= records[i].size
  BY <1>1
<1> QED
  BY <1>2, CarvesPart, CarvesWhole

-----------------------------------------------------------------------------
(* The tables of free segments                                             *)

SegmentTable == [page : PageIds, records : Seq(FreeSegment)]

Sound(ts) ==
    /\ ts \in Seq(SegmentTable)
    /\ \A t \in DOMAIN ts : Good(ts[t].records) /\ Len(ts[t].records) <= TableCapacity
    /\ \A t, u \in DOMAIN ts :
          t # u => \A i \in DOMAIN ts[t].records : Clear(ts[u].records, ts[t].records[i])

ClearAll(ts, x) == \A t \in DOMAIN ts : Clear(ts[t].records, x)

InAny(ts, p, o) == \E t \in DOMAIN ts : InSome(ts[t].records, p, o)

\* A segment goes no further than one of the tables does.
Reached(ts, r) ==
    \E t \in DOMAIN ts : \E i \in DOMAIN ts[t].records :
        r.page = ts[t].records[i].page /\ End(r) <= End(ts[t].records[i])

\* The tables without a change but in the records of one of them.
WithRecords(ts, t, recs) == [ts EXCEPT ![t].records = recs]

LEMMA RecordsReplaced ==
    ASSUME NEW ts \in Seq(SegmentTable), NEW t \in DOMAIN ts, NEW recs \in Seq(FreeSegment)
    PROVE  LET new == WithRecords(ts, t, recs)
           IN  /\ new \in Seq(SegmentTable) /\ Len(new) = Len(ts) /\ DOMAIN new = DOMAIN ts
               /\ new[t].records = recs
               /\ \A u \in DOMAIN ts : new[u].page = ts[u].page
               /\ \A u \in DOMAIN ts : u # t => new[u] = ts[u]
<1> DEFINE other == [ts[t] EXCEPT !.records = recs]
           new == [ts EXCEPT ![t] = other]
<1>1. WithRecords(ts, t, recs) = new
  BY DEF WithRecords
<1>2. ts[t] \in SegmentTable
  OBVIOUS
<1>3. other \in SegmentTable /\ other.records = recs /\ other.page = ts[t].page
  BY <1>2 DEF SegmentTable
<1> HIDE DEF other
<1>4. /\ new \in Seq(SegmentTable) /\ Len(new) = Len(ts) /\ DOMAIN new = DOMAIN ts
      /\ new[t] = other /\ \A u \in DOMAIN ts : u # t => new[u] = ts[u]
  BY <1>3
<1> HIDE DEF new
<1> QED
  BY <1>1, <1>3, <1>4

LEMMA SoundReplaced ==
    ASSUME NEW ts, Sound(ts), NEW t \in DOMAIN ts, NEW recs, Good(recs),
           Len(recs) <= TableCapacity,
           \A u \in DOMAIN ts : u # t =>
               \A i \in DOMAIN ts[u].records : Clear(recs, ts[u].records[i])
    PROVE  Sound(WithRecords(ts, t, recs))
<1> DEFINE new == WithRecords(ts, t, recs)
<1>1. ts \in Seq(SegmentTable) /\ recs \in Seq(FreeSegment)
  BY DEF Sound, Good
<1>2. /\ new \in Seq(SegmentTable) /\ Len(new) = Len(ts) /\ DOMAIN new = DOMAIN ts
      /\ new[t].records = recs
      /\ \A u \in DOMAIN ts : u # t => new[u] = ts[u]
  BY <1>1, RecordsReplaced
<1> HIDE DEF new
<1>3. \A u \in DOMAIN new : Good(new[u].records) /\ Len(new[u].records) <= TableCapacity
  BY <1>2 DEF Sound
<1>4. ASSUME NEW u \in DOMAIN new, NEW v \in DOMAIN new, u # v, NEW i \in DOMAIN new[u].records
      PROVE  Clear(new[v].records, new[u].records[i])
  <2>1. CASE u # t /\ v # t
    BY <1>2, <1>4, <2>1 DEF Sound
  <2>2. CASE v = t
    <3>1. new[u] = ts[u] /\ new[v].records = recs
      BY <1>2, <1>4, <2>2
    <3> QED
      BY <1>2, <1>4, <2>2, <3>1
  <2>3. CASE u = t
    <3>1. new[v] = ts[v] /\ new[u].records = recs /\ v # t
      BY <1>2, <1>4, <2>3
    <3>2. \A j \in DOMAIN ts[v].records : Apart(recs[i], ts[v].records[j])
      BY <1>2, <1>4, <3>1 DEF Clear
    <3> QED
      BY <3>1, <3>2, ApartSymmetric DEF Clear
  <2> QED
    BY <2>1, <2>2, <2>3
<1> QED
  BY <1>2, <1>3, <1>4 DEF Sound, new

\* `new` holds the segments of `ts` and one more.
Frees(ts, segment, new) ==
    /\ Sound(new)
    /\ \A x : Extended(x) /\ ClearAll(ts, x) /\ Apart(segment, x) => ClearAll(new, x)
    /\ \A p : \A o \in Cells :
          InAny(ts, p, o) \/ In(segment, p, o) => InAny(new, p, o) \/ o = PageSize - 1
    /\ \A t \in DOMAIN new : \A i \in DOMAIN new[t].records :
          \/ Reached(ts, new[t].records[i])
          \/ /\ new[t].records[i].page = segment.page
             /\ End(new[t].records[i]) <= End(segment)

LEMMA FreedInTable ==
    ASSUME NEW ts, Sound(ts), NEW t \in DOMAIN ts, ~is_full(ts[t]),
           NEW segment, GoodSegment(segment), ClearAll(ts, segment)
    PROVE  Frees(ts, segment, WithRecords(ts, t, TableWith[<<ts[t].records, segment>>]))
<1> DEFINE a == <<ts[t].records, segment>>
           recs == TableWith[a]
           new == WithRecords(ts, t, recs)
<1>1. ts \in Seq(SegmentTable) /\ Good(ts[t].records) /\ segment \in FreeSegment
  BY DEF Sound, GoodSegment
<1>2. Ready(a) /\ a[1] = ts[t].records /\ a[2] = segment
  BY <1>1 DEF Ready, Args, Good, ClearAll
<1>3. Absorbs(a, recs)
  BY <1>2, TableWithAbsorbs
<1> HIDE DEF recs, a
<1>4. Good(recs) /\ recs \in Seq(FreeSegment)
  BY <1>3 DEF Absorbs, Good
<1>5. Len(recs) <= TableCapacity
  <2>1. Len(recs) <= Len(ts[t].records) + 1
    BY <1>2, <1>3 DEF Absorbs
  <2>2. Len(ts[t].records) \in Nat /\ Len(recs) \in Nat /\ TableCapacity \in Nat
    BY <1>1, <1>4, LayoutAssumption DEF Good
  <2> QED
    BY <2>1, <2>2 DEF is_full
<1>6. ASSUME NEW u \in DOMAIN ts, u # t, NEW i \in DOMAIN ts[u].records
      PROVE  Clear(recs, ts[u].records[i])
  <2>1. Clear(ts[t].records, ts[u].records[i])
    BY <1>6 DEF Sound
  <2>2. Apart(segment, ts[u].records[i])
    BY <1>6, ApartSymmetric DEF ClearAll, Clear
  <2>3. Extended(ts[u].records[i])
    BY <1>6, SegmentFields DEF Sound, Good
  <2> QED
    BY <1>2, <1>3, <2>1, <2>2, <2>3 DEF Absorbs, ClearOf
<1>7. Sound(new)
  BY <1>4, <1>5, <1>6, SoundReplaced
<1>8. /\ DOMAIN new = DOMAIN ts /\ new[t].records = recs
      /\ \A u \in DOMAIN ts : u # t => new[u] = ts[u]
  BY <1>1, <1>4, RecordsReplaced
<1> HIDE DEF new
<1>9. ASSUME NEW x, Extended(x), ClearAll(ts, x), Apart(segment, x)
      PROVE  ClearAll(new, x)
  <2>1. Clear(recs, x)
    BY <1>2, <1>3, <1>9 DEF Absorbs, ClearOf, ClearAll
  <2> QED
    BY <1>8, <1>9, <2>1 DEF ClearAll
<1>10. ASSUME NEW p, NEW o \in Cells, InAny(ts, p, o) \/ In(segment, p, o)
       PROVE  InAny(new, p, o) \/ o = PageSize - 1
  <2>1. InSome(ts[t].records, p, o) \/ In(segment, p, o) => InSome(recs, p, o) \/ o = PageSize - 1
    BY <1>2, <1>3 DEF Absorbs, Holds
  <2> QED
    BY <1>8, <1>10, <2>1 DEF InAny
<1>11. ASSUME NEW u \in DOMAIN new, NEW i \in DOMAIN new[u].records
       PROVE  \/ Reached(ts, new[u].records[i])
              \/ new[u].records[i].page = segment.page /\ End(new[u].records[i]) <= End(segment)
  <2>1. CASE u = t
    <3>1. Bounded(a, recs[i])
      BY <1>3, <1>8, <1>11, <2>1 DEF Absorbs
    <3> QED
      BY <1>2, <1>8, <2>1, <3>1 DEF Bounded, Reached
  <2>2. CASE u # t
    <3>1. End(ts[u].records[i]) \in Nat
      BY <1>8, <1>11, <2>2, SegmentFields DEF Sound, Good
    <3>2. End(ts[u].records[i]) <= End(ts[u].records[i])
      BY <3>1
    <3> QED
      BY <1>8, <1>11, <2>2, <3>2 DEF Reached
  <2> QED
    BY <2>1, <2>2
<1> QED
  BY <1>7, <1>9, <1>10, <1>11 DEF Frees, new, recs, a

\* Every table is full: a new one starts with the segment.
LEMMA FreedInNewTable ==
    ASSUME NEW ts, Sound(ts), NEW page \in PageIds,
           NEW segment, GoodSegment(segment), ClearAll(ts, segment)
    PROVE  Frees(ts, segment, Append(ts, [page |-> page, records |-> <<segment>>]))
<1> DEFINE recs == <<segment>>
           table == [page |-> page, records |-> recs]
           new == Append(ts, table)
           n == Len(ts) + 1
<1>1. ts \in Seq(SegmentTable) /\ segment \in FreeSegment /\ Len(ts) \in Nat
  BY DEF Sound, GoodSegment
<1>2. recs \in Seq(FreeSegment) /\ Len(recs) = 1 /\ DOMAIN recs = {1} /\ recs[1] = segment
  BY <1>1
<1> HIDE DEF recs
<1>3. Good(recs) /\ Len(recs) <= TableCapacity
  BY <1>2, LayoutAssumption DEF Good
<1>4. table \in SegmentTable /\ table.records = recs
  BY <1>2 DEF SegmentTable
<1> HIDE DEF table
<1>5. /\ new \in Seq(SegmentTable) /\ DOMAIN new = DOMAIN ts \cup {n} /\ n \notin DOMAIN ts
      /\ new[n].records = recs /\ \A u \in DOMAIN ts : new[u] = ts[u]
  BY <1>1, <1>4
<1> HIDE DEF new
<1>6. \A u \in DOMAIN ts : \A i \in DOMAIN ts[u].records :
         Apart(ts[u].records[i], segment) /\ Apart(segment, ts[u].records[i])
  BY ApartSymmetric DEF ClearAll, Clear
<1>7. Sound(new)
  <2>1. \A u \in DOMAIN new : Good(new[u].records) /\ Len(new[u].records) <= TableCapacity
    BY <1>3, <1>5 DEF Sound
  <2>2. ASSUME NEW u \in DOMAIN new, NEW v \in DOMAIN new, u # v, NEW i \in DOMAIN new[u].records
        PROVE  Clear(new[v].records, new[u].records[i])
    <3>1. CASE u # n /\ v # n
      BY <1>5, <2>2, <3>1 DEF Sound
    <3>2. CASE u = n
      BY <1>2, <1>5, <1>6, <2>2, <3>2 DEF Clear
    <3>3. CASE v = n
      BY <1>2, <1>5, <1>6, <2>2, <3>3 DEF Clear
    <3> QED
      BY <3>1, <3>2, <3>3
  <2> QED
    BY <1>5, <2>1, <2>2 DEF Sound
<1>8. \A x : ClearAll(ts, x) /\ Apart(segment, x) => ClearAll(new, x)
  BY <1>2, <1>5 DEF ClearAll, Clear
<1>9. \A p, o : InAny(ts, p, o) \/ In(segment, p, o) => InAny(new, p, o)
  BY <1>2, <1>5 DEF InAny, InSome
<1>10. ASSUME NEW u \in DOMAIN new, NEW i \in DOMAIN new[u].records
       PROVE  \/ Reached(ts, new[u].records[i])
              \/ new[u].records[i].page = segment.page /\ End(new[u].records[i]) <= End(segment)
  <2>1. End(new[u].records[i]) \in Nat
    BY <1>7, SegmentFields DEF Sound, Good
  <2>2. End(new[u].records[i]) <= End(new[u].records[i])
    BY <2>1
  <2> QED
    BY <1>2, <1>5, <2>2 DEF Reached
<1> QED
  BY <1>7, <1>8, <1>9, <1>10 DEF Frees, new, table, recs

\* `new` holds the segments of `ts` but for a piece of one of them.
Reuses(ts, piece, new) ==
    /\ Sound(new) /\ ClearAll(new, piece)
    /\ \A x : Extended(x) /\ ClearAll(ts, x) => ClearAll(new, x)
    /\ \A p : \A o \in Cells :
          InAny(ts, p, o) => InAny(new, p, o) \/ In(piece, p, o) \/ o = PageSize - 1
    /\ \A t \in DOMAIN new : \A i \in DOMAIN new[t].records : Reached(ts, new[t].records[i])

LEMMA Reused ==
    ASSUME NEW ts, Sound(ts), NEW t \in DOMAIN ts, NEW i \in DOMAIN ts[t].records, NEW piece,
           piece.page = ts[t].records[i].page, piece.offset = ts[t].records[i].offset,
           piece.size \in Nat, Slot(piece.size), piece.size > 0,
           piece.size <= AlignUp(ts[t].records[i].size)
    PROVE  Reuses(ts, piece,
                  WithRecords(ts, t, remove(ts[t].records, ts[t].records[i], piece.size)))
<1> DEFINE old == ts[t].records
           left == remove(old, old[i], piece.size)
           new == WithRecords(ts, t, left)
<1>1. ts \in Seq(SegmentTable) /\ Good(old) /\ GoodSegment(old[i])
  BY DEF Sound, Good
<1>2. Carves(old, i, piece, left)
  BY <1>1, Carved
<1> HIDE DEF left
<1>3. Good(left) /\ left \in Seq(FreeSegment)
  BY <1>2 DEF Carves, Good
<1>4. Len(left) <= TableCapacity
  <2>1. Len(left) <= Len(old) /\ Len(old) <= TableCapacity
    BY <1>2 DEF Carves, Sound
  <2>2. Len(left) \in Nat /\ Len(old) \in Nat /\ TableCapacity \in Nat
    BY <1>1, <1>3, LayoutAssumption DEF Good
  <2> QED
    BY <2>1, <2>2
<1>5. ASSUME NEW u \in DOMAIN ts, u # t, NEW j \in DOMAIN ts[u].records
      PROVE  Clear(left, ts[u].records[j])
  <2>1. Clear(old, ts[u].records[j])
    BY <1>5 DEF Sound
  <2>2. Extended(ts[u].records[j])
    BY <1>5, SegmentFields DEF Sound, Good
  <2> QED
    BY <1>2, <2>1, <2>2 DEF Carves
<1>6. Sound(new)
  BY <1>3, <1>4, <1>5, SoundReplaced
<1>7. /\ DOMAIN new = DOMAIN ts /\ new[t].records = left
      /\ \A u \in DOMAIN ts : u # t => new[u] = ts[u]
  BY <1>1, <1>3, RecordsReplaced
<1> HIDE DEF new
<1>8. Extended(old[i]) /\ End(piece) = piece.offset + piece.size /\ End(piece) <= End(old[i])
  <2>1. AlignUp(piece.size) = piece.size
    BY AlignUpFacts
  <2>2. /\ Extended(old[i]) /\ End(old[i]) = old[i].offset + AlignUp(old[i].size)
        /\ AlignUp(old[i].size) \in Nat /\ old[i].offset \in Nat
    BY <1>1, SegmentFields DEF End
  <2> QED
    BY <2>1, <2>2 DEF End
<1>9. ClearAll(new, piece)
  <2>1. ASSUME NEW u \in DOMAIN ts, u # t
        PROVE  Clear(ts[u].records, piece)
    <3> SUFFICES ASSUME NEW j \in DOMAIN ts[u].records PROVE Apart(ts[u].records[j], piece)
      BY DEF Clear
    <3>1. Apart(ts[u].records[j], old[i]) /\ Extended(ts[u].records[j])
      BY <2>1, SegmentFields DEF Sound, Clear, Good
    <3> QED
      BY <1>8, <3>1 DEF Apart, Extended
  <2>2. Clear(left, piece)
    BY <1>2 DEF Carves
  <2> QED
    BY <1>7, <2>1, <2>2 DEF ClearAll
<1>10. ASSUME NEW x, Extended(x), ClearAll(ts, x)
       PROVE  ClearAll(new, x)
  <2>1. Clear(left, x)
    BY <1>2, <1>10 DEF Carves, ClearAll
  <2> QED
    BY <1>7, <1>10, <2>1 DEF ClearAll
<1>11. ASSUME NEW p, NEW o \in Cells, InAny(ts, p, o)
       PROVE  InAny(new, p, o) \/ In(piece, p, o) \/ o = PageSize - 1
  <2>1. InSome(old, p, o) => InSome(left, p, o) \/ In(piece, p, o) \/ o = PageSize - 1
    BY <1>2 DEF Carves
  <2> QED
    BY <1>7, <1>11, <2>1 DEF InAny
<1>12. ASSUME NEW u \in DOMAIN new, NEW k \in DOMAIN new[u].records
       PROVE  Reached(ts, new[u].records[k])
  <2>1. CASE u = t
    BY <1>2, <1>7, <1>12, <2>1 DEF Carves, Reached
  <2>2. CASE u # t
    <3>1. End(ts[u].records[k]) \in Nat
      BY <1>7, <1>12, <2>2, SegmentFields DEF Sound, Good
    <3>2. End(ts[u].records[k]) <= End(ts[u].records[k])
      BY <3>1
    <3> QED
      BY <1>7, <1>12, <2>2, <3>2 DEF Reached
  <2> QED
    BY <2>1, <2>2
<1> QED
  BY <1>6, <1>9, <1>10, <1>11, <1>12 DEF Reuses, new, left

-----------------------------------------------------------------------------
(* Rows, pages and the space between them                                  *)

Row == [page : PageIds, offset : Cells, len : Nat \ {0}, fill : Nat]

Footprint(len) == raw_record_footprint(len, Alignment)

\* The cells of a row, as a segment.
Piece(row) == [page |-> row.page, offset |-> row.offset, size |-> Footprint(row.len)]

SoundRows(L) ==
    /\ L \subseteq Row
    /\ \A r \in L : GoodSegment(Piece(r))
    /\ \A r, s \in L : r # s => Apart(Piece(r), Piece(s))

SoundLedger(ps) ==
    /\ ps \in Seq(PageRecord)
    /\ \A k \in DOMAIN ps : Slot(Taken(ps[k]))
    /\ \A k, l \in DOMAIN ps : ps[k].page = ps[l].page => k = l

\* A segment lies in what its page has handed out.
Fits(ps, x) == \E k \in DOMAIN ps : x.page = ps[k].page /\ End(x) <= Taken(ps[k])

InRow(L, p, o) == \E r \in L : In(Piece(r), p, o)

Space(ps, ts, L) ==
    /\ SoundLedger(ps) /\ Sound(ts) /\ SoundRows(L)
    /\ \A r \in L : Fits(ps, Piece(r)) /\ ClearAll(ts, Piece(r))
    /\ \A t \in DOMAIN ts : \A i \in DOMAIN ts[t].records : Fits(ps, ts[t].records[i])
    /\ \A k \in DOMAIN ps : \A o \in Cells :
          o < Taken(ps[k]) => \/ InRow(L, ps[k].page, o) \/ InAny(ts, ps[k].page, o)
                              \/ o = PageSize - 1

LEMMA FootprintSlot ==
    ASSUME NEW len \in Nat
    PROVE  /\ Footprint(len) = AlignUp(1 + len)
           /\ Footprint(len) \in Nat /\ Footprint(len) > 0 /\ 1 + len <= Footprint(len)
           /\ Slot(Footprint(len)) /\ AlignUp(Footprint(len)) = Footprint(len)
<1>1. 1 + len \in Nat /\ Footprint(len) = AlignUp(1 + len)
  BY DEF Footprint, raw_record_footprint, AlignUp, RAW_RECORD_HEADER_SIZE
<1>2. AlignUp(1 + len) \in Nat /\ Slot(AlignUp(1 + len)) /\ 1 + len <= AlignUp(1 + len)
  BY <1>1, AlignUpLeast
<1> QED
  BY <1>1, <1>2, AlignUpFacts

LEMMA PieceFields ==
    ASSUME NEW r \in Row
    PROVE  /\ Piece(r).page = r.page /\ Piece(r).offset = r.offset
           /\ Piece(r).size = Footprint(r.len) /\ r.page \in PageIds /\ r.offset \in Nat
           /\ r.offset \in Cells /\ r.len \in Nat /\ r.len > 0 /\ r.fill \in Nat
           /\ Footprint(r.len) \in Nat /\ Footprint(r.len) > 0 /\ Slot(Footprint(r.len))
           /\ 1 + r.len <= Footprint(r.len)
           /\ End(Piece(r)) = r.offset + Footprint(r.len) /\ Extended(Piece(r))
<1>1. /\ r.page \in PageIds /\ r.offset \in Nat /\ r.offset \in Cells
      /\ r.len \in Nat /\ r.len > 0 /\ r.fill \in Nat
  BY LayoutAssumption DEF Row, Cells
<1>2. /\ Footprint(r.len) \in Nat /\ Footprint(r.len) > 0 /\ Slot(Footprint(r.len))
      /\ 1 + r.len <= Footprint(r.len) /\ AlignUp(Footprint(r.len)) = Footprint(r.len)
  BY <1>1, FootprintSlot
<1>3. /\ Piece(r).page = r.page /\ Piece(r).offset = r.offset
      /\ Piece(r).size = Footprint(r.len)
  BY DEF Piece
<1> HIDE DEF Footprint
<1>4. End(Piece(r)) = r.offset + Footprint(r.len)
  BY <1>2, <1>3 DEF End
<1> QED
  BY <1>1, <1>2, <1>3, <1>4 DEF Extended

\* A position for a row is a good segment when the row fits and ends on the page.
LEMMA PieceGood ==
    ASSUME NEW r \in Row, Slot(r.offset), ensure_record_fits(r.len, Alignment),
           r.offset + Footprint(r.len) <= PageSize
    PROVE  GoodSegment(Piece(r))
<1>1. PageSize \in Nat \ {0}
  BY LayoutAssumption
<1>2. Footprint(r.len) <= PageSize - 1
  BY DEF ensure_record_fits, Footprint, MSizeMax
<1>3. /\ Piece(r).page = r.page /\ Piece(r).offset = r.offset
      /\ Piece(r).size = Footprint(r.len) /\ r.page \in PageIds /\ r.offset \in Cells
      /\ Footprint(r.len) \in Nat /\ Footprint(r.len) > 0 /\ Slot(Footprint(r.len))
      /\ End(Piece(r)) = r.offset + Footprint(r.len)
  BY PieceFields
<1>4. Piece(r) = [page |-> r.page, offset |-> r.offset, size |-> Footprint(r.len)]
  BY DEF Piece
<1> HIDE DEF Footprint
<1>5. Piece(r) \in FreeSegment
  BY <1>1, <1>2, <1>3, <1>4 DEF FreeSegment, MSizeMax
<1> QED
  BY <1>3, <1>5 DEF GoodSegment

LEMMA TakenNumber ==
    ASSUME NEW ps, SoundLedger(ps), NEW k \in DOMAIN ps
    PROVE  /\ Taken(ps[k]) \in Nat /\ Taken(ps[k]) <= PageSize /\ Slot(Taken(ps[k]))
           /\ ps[k].free \in Nat /\ ps[k].free <= PageSize
           /\ Taken(ps[k]) + ps[k].free = PageSize /\ ps[k].page \in PageIds
<1>1. PageSize \in Nat
  BY LayoutAssumption
<1>2. ps[k] \in PageRecord /\ Slot(Taken(ps[k]))
  BY DEF SoundLedger
<1>3. ps[k].free \in 0..PageSize /\ ps[k].page \in PageIds
  BY <1>2 DEF PageRecord
<1> QED
  BY <1>1, <1>2, <1>3 DEF Taken

\* What reaches no further than a segment of the tables fits as well.
LEMMA ReachedFits ==
    ASSUME NEW ps, NEW ts, NEW L, Space(ps, ts, L), NEW r, GoodSegment(r), Reached(ts, r)
    PROVE  Fits(ps, r)
<1>0. PICK t \in DOMAIN ts : \E i \in DOMAIN ts[t].records :
          r.page = ts[t].records[i].page /\ End(r) <= End(ts[t].records[i])
  BY DEF Reached
<1>1. PICK i \in DOMAIN ts[t].records :
          r.page = ts[t].records[i].page /\ End(r) <= End(ts[t].records[i])
  BY <1>0
<1>2. PICK k \in DOMAIN ps :
          ts[t].records[i].page = ps[k].page /\ End(ts[t].records[i]) <= Taken(ps[k])
  BY <1>1 DEF Space, Fits
<1>3. End(r) \in Nat /\ End(ts[t].records[i]) \in Nat /\ Taken(ps[k]) \in Nat
  BY <1>1, <1>2, SegmentFields, TakenNumber DEF Space, Sound, Good
<1>4. End(r) <= Taken(ps[k])
  BY <1>1, <1>2, <1>3
<1> QED
  BY <1>1, <1>2, <1>4 DEF Fits

\* A row is deleted, its cells are a free segment.
LEMMA SpaceFreed ==
    ASSUME NEW ps, NEW ts, NEW L, Space(ps, ts, L), NEW row \in L, NEW new,
           Frees(ts, Piece(row), new)
    PROVE  Space(ps, new, L \ {row})
<1>1. SoundLedger(ps) /\ Sound(new) /\ SoundRows(L \ {row}) /\ SoundRows(L)
  BY DEF Space, Frees, SoundRows
<1>2. ASSUME NEW r \in L \ {row}
      PROVE  Fits(ps, Piece(r)) /\ ClearAll(new, Piece(r))
  <2>1. Extended(Piece(r)) /\ Apart(Piece(row), Piece(r)) /\ ClearAll(ts, Piece(r))
    BY <1>1, <1>2, PieceFields DEF SoundRows, Space
  <2> QED
    BY <1>2, <2>1 DEF Space, Frees
<1>3. ASSUME NEW t \in DOMAIN new, NEW i \in DOMAIN new[t].records
      PROVE  Fits(ps, new[t].records[i])
  <2> DEFINE r == new[t].records[i]
  <2>1. GoodSegment(r)
    BY <1>1, <1>3 DEF Sound, Good
  <2>2. Reached(ts, r) \/ (r.page = Piece(row).page /\ End(r) <= End(Piece(row)))
    BY <1>3 DEF Frees
  <2> HIDE DEF r
  <2>3. CASE r.page = Piece(row).page /\ End(r) <= End(Piece(row))
    <3>1. PICK k \in DOMAIN ps : Piece(row).page = ps[k].page /\ End(Piece(row)) <= Taken(ps[k])
      BY DEF Space, Fits
    <3>2. End(r) \in Nat /\ End(Piece(row)) \in Nat /\ Taken(ps[k]) \in Nat
      BY <1>1, <2>1, <3>1, SegmentFields, TakenNumber DEF SoundRows
    <3>3. End(r) <= Taken(ps[k])
      BY <2>3, <3>1, <3>2
    <3> QED
      BY <2>3, <3>1, <3>3 DEF Fits, r
  <2>4. CASE Reached(ts, r)
    <3>1. Fits(ps, r)
      BY <2>1, <2>4, ReachedFits
    <3> QED
      BY <3>1 DEF r
  <2> QED
    BY <2>2, <2>3, <2>4 DEF r
<1>4. ASSUME NEW k \in DOMAIN ps, NEW o \in Cells, o < Taken(ps[k])
      PROVE  InRow(L \ {row}, ps[k].page, o) \/ InAny(new, ps[k].page, o) \/ o = PageSize - 1
  <2>1. InRow(L, ps[k].page, o) \/ InAny(ts, ps[k].page, o) \/ o = PageSize - 1
    BY <1>4 DEF Space
  <2>2. InRow(L, ps[k].page, o) => InRow(L \ {row}, ps[k].page, o) \/ In(Piece(row), ps[k].page, o)
    BY DEF InRow
  <2> QED
    BY <2>1, <2>2 DEF Frees
<1> QED
  BY <1>1, <1>2, <1>3, <1>4 DEF Space

\* A row that is apart from the others.
LEMMA RowAdded ==
    ASSUME NEW L, SoundRows(L), NEW row \in Row, GoodSegment(Piece(row)),
           \A r \in L : Apart(Piece(r), Piece(row))
    PROVE  SoundRows(L \cup {row}) /\ row \notin L
<1>1. row \notin L
  BY ApartSelf
<1>2. \A r \in L : Apart(Piece(row), Piece(r))
  BY ApartSymmetric
<1> QED
  BY <1>1, <1>2 DEF SoundRows

\* A row is stored at the start of a free segment.
LEMMA SpaceReused ==
    ASSUME NEW ps, NEW ts, NEW L, Space(ps, ts, L), NEW row \in Row, GoodSegment(Piece(row)),
           NEW t \in DOMAIN ts, NEW i \in DOMAIN ts[t].records,
           row.page = ts[t].records[i].page, row.offset = ts[t].records[i].offset,
           Footprint(row.len) <= AlignUp(ts[t].records[i].size),
           NEW new, Reuses(ts, Piece(row), new)
    PROVE  Space(ps, new, L \cup {row}) /\ row \notin L /\ \A r \in L : Apart(Piece(r), Piece(row))
<1> DEFINE seg == ts[t].records[i]
<1>1. SoundLedger(ps) /\ Sound(new) /\ SoundRows(L) /\ GoodSegment(seg)
  BY DEF Space, Reuses, Sound, Good
<1>2. /\ Piece(row).page = seg.page /\ Piece(row).offset = seg.offset
      /\ End(Piece(row)) <= End(seg) /\ End(Piece(row)) \in Nat /\ End(seg) \in Nat
      /\ seg.offset \in Nat
  BY <1>1, PieceFields, SegmentFields DEF End
<1>3. ASSUME NEW r \in L
      PROVE  Apart(Piece(r), Piece(row)) /\ Extended(Piece(r))
  <2>1. Apart(seg, Piece(r)) /\ Extended(Piece(r))
    BY <1>1, PieceFields DEF Space, ClearAll, Clear, SoundRows
  <2> HIDE DEF seg
  <2> QED
    BY <1>2, <2>1 DEF Apart, Extended
<1>4. SoundRows(L \cup {row}) /\ row \notin L
  BY <1>1, <1>3, RowAdded
<1>5. Fits(ps, Piece(row))
  <2>1. Reached(ts, Piece(row))
    BY <1>2 DEF Reached
  <2> QED
    BY <2>1, ReachedFits
<1>6. \A r \in L \cup {row} : Fits(ps, Piece(r)) /\ ClearAll(new, Piece(r))
  BY <1>3, <1>5 DEF Space, Reuses
<1>7. \A u \in DOMAIN new : \A j \in DOMAIN new[u].records : Fits(ps, new[u].records[j])
  BY <1>1, ReachedFits DEF Reuses, Sound, Good
<1>8. ASSUME NEW k \in DOMAIN ps, NEW o \in Cells, o < Taken(ps[k])
      PROVE  InRow(L \cup {row}, ps[k].page, o) \/ InAny(new, ps[k].page, o) \/ o = PageSize - 1
  <2>1. InRow(L, ps[k].page, o) \/ InAny(ts, ps[k].page, o) \/ o = PageSize - 1
    BY <1>8 DEF Space
  <2>2. InRow(L, ps[k].page, o) \/ In(Piece(row), ps[k].page, o) => InRow(L \cup {row}, ps[k].page, o)
    BY DEF InRow
  <2> QED
    BY <2>1, <2>2 DEF Reuses
<1> QED
  BY <1>1, <1>3, <1>4, <1>6, <1>7, <1>8 DEF Space

\* The ledger with another free tail of one page.
WithFree(ps, k, n) == [ps EXCEPT ![k].free = n]

LEMMA FreeReplaced ==
    ASSUME NEW ps \in Seq(PageRecord), NEW k \in DOMAIN ps, NEW n \in 0..PageSize
    PROVE  LET new == WithFree(ps, k, n)
           IN  /\ new \in Seq(PageRecord) /\ Len(new) = Len(ps) /\ DOMAIN new = DOMAIN ps
               /\ new[k].free = n
               /\ \A l \in DOMAIN ps : new[l].page = ps[l].page
               /\ \A l \in DOMAIN ps : l # k => new[l] = ps[l]
<1> DEFINE other == [ps[k] EXCEPT !.free = n]
           new == [ps EXCEPT ![k] = other]
<1>1. WithFree(ps, k, n) = new
  BY DEF WithFree
<1>2. ps[k] \in PageRecord
  OBVIOUS
<1>3. other \in PageRecord /\ other.free = n /\ other.page = ps[k].page
  BY <1>2 DEF PageRecord
<1> HIDE DEF other
<1>4. /\ new \in Seq(PageRecord) /\ Len(new) = Len(ps) /\ DOMAIN new = DOMAIN ps
      /\ new[k] = other /\ \A l \in DOMAIN ps : l # k => new[l] = ps[l]
  BY <1>3
<1> HIDE DEF new
<1> QED
  BY <1>1, <1>3, <1>4

\* A row is stored behind what a page has handed out.
LEMMA SpaceGrown ==
    ASSUME NEW ps, NEW ts, NEW L, Space(ps, ts, L), NEW row \in Row, GoodSegment(Piece(row)),
           NEW k \in DOMAIN ps, row.page = ps[k].page, row.offset = Taken(ps[k]),
           Footprint(row.len) <= ps[k].free
    PROVE  /\ Space(WithFree(ps, k, ps[k].free - Footprint(row.len)), ts, L \cup {row})
           /\ row \notin L /\ \A r \in L : Apart(Piece(r), Piece(row))
<1> DEFINE size == Footprint(row.len)
           n == ps[k].free - size
           new == WithFree(ps, k, n)
<1>1. SoundLedger(ps) /\ Sound(ts) /\ SoundRows(L) /\ ps \in Seq(PageRecord)
  BY DEF Space, SoundLedger
<1>2. /\ Taken(ps[k]) \in Nat /\ Slot(Taken(ps[k])) /\ ps[k].free \in Nat /\ PageSize \in Nat
      /\ Taken(ps[k]) + ps[k].free = PageSize
  BY <1>1, TakenNumber, LayoutAssumption
<1>3. /\ size \in Nat /\ size > 0 /\ Slot(size) /\ Piece(row).page = ps[k].page
      /\ Piece(row).offset = Taken(ps[k]) /\ End(Piece(row)) = Taken(ps[k]) + size
  BY PieceFields
<1> HIDE DEF size
<1>4. n \in 0..PageSize
  BY <1>2, <1>3 DEF size
<1>5. /\ new \in Seq(PageRecord) /\ DOMAIN new = DOMAIN ps /\ new[k].free = n
      /\ \A l \in DOMAIN ps : new[l].page = ps[l].page
      /\ \A l \in DOMAIN ps : l # k => new[l] = ps[l]
  BY <1>1, <1>4, FreeReplaced
<1> HIDE DEF new
<1>6. Taken(new[k]) = Taken(ps[k]) + size
  BY <1>2, <1>3, <1>5 DEF Taken
<1>7. ASSUME NEW x, Fits(ps, x), Extended(x)
      PROVE  Fits(new, x) /\ Apart(x, Piece(row))
  <2>1. PICK l \in DOMAIN ps : x.page = ps[l].page /\ End(x) <= Taken(ps[l])
    BY <1>7 DEF Fits
  <2>2. CASE l = k
    <3>1. End(x) <= Taken(new[k])
      BY <1>2, <1>3, <1>6, <1>7, <2>1, <2>2 DEF Extended
    <3> QED
      BY <1>3, <1>5, <2>1, <2>2, <3>1 DEF Fits, Apart
  <2>3. CASE l # k
    <3>1. x.page # Piece(row).page
      BY <1>1, <1>3, <2>1, <2>3 DEF SoundLedger
    <3> QED
      BY <1>5, <2>1, <2>3, <3>1 DEF Fits, Apart
  <2> QED
    BY <2>2, <2>3
<1>8. SoundLedger(new)
  <2>1. \A l \in DOMAIN new : Slot(Taken(new[l]))
    BY <1>1, <1>2, <1>3, <1>5, <1>6, SlotSum DEF SoundLedger
  <2> QED
    BY <1>1, <1>5, <2>1 DEF SoundLedger
<1>9. \A r \in L : Fits(new, Piece(r)) /\ Apart(Piece(r), Piece(row))
  BY <1>1, <1>7, PieceFields DEF Space, SoundRows
<1>10. SoundRows(L \cup {row}) /\ row \notin L
  BY <1>1, <1>9, RowAdded
<1>11. Fits(new, Piece(row))
  <2>1. End(Piece(row)) <= Taken(new[k])
    BY <1>2, <1>3, <1>6
  <2> QED
    BY <1>3, <1>5, <2>1 DEF Fits
<1>12. \A t \in DOMAIN ts : \A i \in DOMAIN ts[t].records :
          Fits(new, ts[t].records[i]) /\ Apart(ts[t].records[i], Piece(row))
  BY <1>1, <1>7, SegmentFields DEF Space, Sound, Good
<1>13. \A r \in L \cup {row} : Fits(new, Piece(r)) /\ ClearAll(ts, Piece(r))
  BY <1>9, <1>11, <1>12 DEF Space, ClearAll, Clear
<1>14. ASSUME NEW l \in DOMAIN new, NEW o \in Cells, o < Taken(new[l])
       PROVE  InRow(L \cup {row}, new[l].page, o) \/ InAny(ts, new[l].page, o) \/ o = PageSize - 1
  <2>1. \A p : InRow(L, p, o) \/ In(Piece(row), p, o) => InRow(L \cup {row}, p, o)
    BY DEF InRow
  <2>2. o \in Nat
    BY LayoutAssumption DEF Cells
  <2>3. CASE o < Taken(ps[l])
    BY <1>5, <1>14, <2>1, <2>3 DEF Space
  <2>4. CASE ~(o < Taken(ps[l]))
    <3>1. l = k
      BY <1>5, <1>14, <2>4
    <3>2. In(Piece(row), new[l].page, o)
      BY <1>2, <1>3, <1>5, <1>6, <1>14, <2>2, <2>4, <3>1 DEF In
    <3> QED
      BY <2>1, <3>2
  <2> QED
    BY <2>3, <2>4
<1>15. Space(new, ts, L \cup {row})
  BY <1>1, <1>8, <1>10, <1>12, <1>13, <1>14 DEF Space
<1> QED
  BY <1>9, <1>10, <1>15 DEF new, size

\* A page is added that has handed out nothing.
LEMMA SpaceNewPage ==
    ASSUME NEW ps, NEW ts, NEW L, Space(ps, ts, L), NEW page \in PageIds,
           \A k \in DOMAIN ps : ps[k].page # page
    PROVE  LET new == Append(ps, [page |-> page, free |-> PageSize])
           IN  /\ Space(new, ts, L) /\ Len(ps) \in Nat
               /\ Len(ps) + 1 \in DOMAIN new /\ new[Len(ps) + 1].page = page
               /\ new[Len(ps) + 1].free = PageSize /\ Taken(new[Len(ps) + 1]) = 0
<1> DEFINE blank == [page |-> page, free |-> PageSize]
           new == Append(ps, blank)
           n == Len(ps) + 1
<1>1. SoundLedger(ps) /\ ps \in Seq(PageRecord) /\ Len(ps) \in Nat /\ PageSize \in Nat
  BY LayoutAssumption DEF Space, SoundLedger
<1>2. /\ blank \in PageRecord /\ blank.page = page /\ blank.free = PageSize
      /\ Taken(blank) = 0
  BY <1>1 DEF PageRecord, Taken
<1> HIDE DEF blank
<1>3. /\ new \in Seq(PageRecord) /\ DOMAIN new = DOMAIN ps \cup {n} /\ n \notin DOMAIN ps
      /\ new[n] = blank /\ \A k \in DOMAIN ps : new[k] = ps[k]
  BY <1>1, <1>2
<1> HIDE DEF new
<1>4. SoundLedger(new)
  <2>1. \A k \in DOMAIN new : Slot(Taken(new[k]))
    BY <1>1, <1>2, <1>3, SlotAlignment DEF SoundLedger
  <2>2. ASSUME NEW k \in DOMAIN new, NEW l \in DOMAIN new, new[k].page = new[l].page
        PROVE  k = l
    BY <1>1, <1>2, <1>3, <2>2 DEF SoundLedger
  <2> QED
    BY <1>3, <2>1, <2>2 DEF SoundLedger
<1>5. \A x : Fits(ps, x) => Fits(new, x)
  BY <1>3 DEF Fits
<1>6. ASSUME NEW k \in DOMAIN new, NEW o \in Cells, o < Taken(new[k])
      PROVE  InRow(L, new[k].page, o) \/ InAny(ts, new[k].page, o) \/ o = PageSize - 1
  <2>1. o \in Nat
    BY LayoutAssumption DEF Cells
  <2>2. k \in DOMAIN ps
    BY <1>2, <1>3, <1>6, <2>1
  <2> QED
    BY <1>3, <1>6, <2>2 DEF Space
<1>7. Space(new, ts, L)
  BY <1>4, <1>5, <1>6 DEF Space
<1> QED
  BY <1>1, <1>2, <1>3, <1>7 DEF new, blank

\* A row is overwritten by one of the same length.
LEMMA SpaceOverwritten ==
    ASSUME NEW ps, NEW ts, NEW L, Space(ps, ts, L), NEW old \in L, NEW row \in Row,
           Piece(row) = Piece(old)
    PROVE  Space(ps, ts, (L \ {old}) \cup {row})
<1>1. SoundRows(L)
  BY DEF Space
<1>2. SoundRows((L \ {old}) \cup {row})
  <2>1. \A r \in L \ {old} : Apart(Piece(r), Piece(row)) /\ Apart(Piece(row), Piece(r))
    BY <1>1 DEF SoundRows
  <2> QED
    BY <1>1, <2>1 DEF SoundRows
<1>3. \A p, o : InRow(L, p, o) => InRow((L \ {old}) \cup {row}, p, o)
  BY DEF InRow
<1> QED
  BY <1>2, <1>3 DEF Space

-----------------------------------------------------------------------------
(* The cells                                                               *)

\* What a row keeps in a cell of its piece.
CellOf(r, o) ==
    IF o = r.offset THEN r.len ELSE IF o <= r.offset + r.len THEN r.fill ELSE 0

\* A cell belongs to a row, or is blank.
Memory(m, L) ==
    /\ m \in [PageIds -> [Cells -> Nat]]
    /\ \A p \in PageIds : \A o \in Cells :
          /\ \A r \in L : In(Piece(r), p, o) => m[p][o] = CellOf(r, o)
          /\ ~InRow(L, p, o) => m[p][o] = 0

\* Cells of a write, and the memory they are written to.
Block(cells, n) == DOMAIN cells = 0..n - 1 /\ \A i \in 0..n - 1 : cells[i] \in Nat
PageMemory(m) == m \in [PageIds -> [Cells -> Nat]]

LEMMA WrittenCells ==
    ASSUME NEW m, PageMemory(m), NEW page \in PageIds, NEW offset \in Nat,
           NEW n \in Nat, NEW cells, Block(cells, n),
           NEW after, after = Written(m, page, offset, cells)
    PROVE  /\ PageMemory(after)
           /\ \A p \in PageIds : \A o \in Cells :
                 after[p][o] = IF p = page /\ offset <= o /\ o < offset + n
                               THEN cells[o - offset] ELSE m[p][o]
<1> USE DEF Block, PageMemory
<1> DEFINE line == [o \in Cells |-> IF o - offset \in DOMAIN cells THEN cells[o - offset]
                                    ELSE m[page][o]]
           new == [m EXCEPT ![page] = line]
<1>1. Written(m, page, offset, cells) = new
  BY DEF Written
<1>2. \A o \in Cells : o \in Nat
  BY LayoutAssumption DEF Cells
<1>3. \A o \in Cells : o - offset \in DOMAIN cells <=> offset <= o /\ o < offset + n
  BY <1>2
<1>4. m[page] \in [Cells -> Nat]
  OBVIOUS
<1>5. line \in [Cells -> Nat]
  BY <1>4
<1>6. \A o \in Cells : line[o] = IF offset <= o /\ o < offset + n THEN cells[o - offset]
                                 ELSE m[page][o]
  BY <1>3
<1> HIDE DEF line
<1>7. new \in [PageIds -> [Cells -> Nat]] /\ new[page] = line
      /\ \A p \in PageIds : p # page => new[p] = m[p]
  BY <1>5
<1> HIDE DEF new
<1>8. ASSUME NEW p \in PageIds, NEW o \in Cells
      PROVE  new[p][o] = IF p = page /\ offset <= o /\ o < offset + n
                         THEN cells[o - offset] ELSE m[p][o]
  <2>1. CASE p = page
    BY <1>6, <1>7, <2>1
  <2>2. CASE p # page
    BY <1>7, <2>2
  <2> QED
    BY <2>1, <2>2
<1> QED
  BY <1>1, <1>7, <1>8

LEMMA EncodedCells ==
    ASSUME NEW r \in Row
    PROVE  /\ DOMAIN Encoded(r, Alignment) = 0..Footprint(r.len) - 1
           /\ \A i \in 0..Footprint(r.len) - 1 :
                 Encoded(r, Alignment)[i] \in Nat /\ Encoded(r, Alignment)[i] = CellOf(r, r.offset + i)
<1> DEFINE n == Footprint(r.len)
           E == [i \in 0..n - 1 |-> CASE i = 0 -> r.len
                                      [] i \in 1..r.len -> r.fill
                                      [] OTHER -> 0]
<1>1. Encoded(r, Alignment) = E
  BY DEF Encoded, Footprint
<1>2. r.len \in Nat /\ r.fill \in Nat /\ r.offset \in Nat /\ n \in Nat
  BY PieceFields
<1> HIDE DEF n
<1>3. ASSUME NEW i \in 0..n - 1
      PROVE  E[i] \in Nat /\ E[i] = CellOf(r, r.offset + i)
  <2>1. i \in Nat
    BY <1>2
  <2>2. CASE i = 0
    BY <1>2, <2>1, <2>2 DEF CellOf
  <2>3. CASE i \in 1..r.len
    BY <1>2, <2>1, <2>3 DEF CellOf
  <2>4. CASE i # 0 /\ i \notin 1..r.len
    <3>1. ~(i <= r.len)
      BY <1>2, <2>1, <2>4
    <3> QED
      BY <1>2, <2>1, <2>4, <3>1 DEF CellOf
  <2> QED
    BY <2>2, <2>3, <2>4
<1>4. DOMAIN E = 0..n - 1
  OBVIOUS
<1> HIDE DEF E
<1> QED
  BY <1>1, <1>3, <1>4 DEF n

\* A row is written where there was none, or over a row of the same cells.
LEMMA MemoryWritten ==
    ASSUME NEW m, NEW L, Memory(m, L), NEW K \in SUBSET L, NEW row \in Row,
           \A r \in K : Apart(Piece(r), Piece(row)) /\ Extended(Piece(r)),
           \A r \in L : r \notin K => Piece(r) = Piece(row)
    PROVE  Memory(Written(m, row.page, row.offset, Encoded(row, Alignment)), K \cup {row})
<1> DEFINE n == Footprint(row.len)
           cells == Encoded(row, Alignment)
           new == Written(m, row.page, row.offset, cells)
<1>1. /\ row.page \in PageIds /\ row.offset \in Nat /\ n \in Nat
      /\ Piece(row).page = row.page /\ Piece(row).offset = row.offset
      /\ End(Piece(row)) = row.offset + n
  BY PieceFields
<1>2. /\ DOMAIN cells = 0..n - 1
      /\ \A i \in 0..n - 1 : cells[i] \in Nat /\ cells[i] = CellOf(row, row.offset + i)
  BY EncodedCells
<1> HIDE DEF n, cells
<1>3. m \in [PageIds -> [Cells -> Nat]] /\ \A o \in Cells : o \in Nat
  BY LayoutAssumption DEF Memory, Cells
<1>4. /\ new \in [PageIds -> [Cells -> Nat]]
      /\ \A p \in PageIds : \A o \in Cells :
            new[p][o] = IF p = row.page /\ row.offset <= o /\ o < row.offset + n
                        THEN cells[o - row.offset] ELSE m[p][o]
  <2>1. Block(cells, n) /\ PageMemory(m)
    BY <1>2, <1>3 DEF Block, PageMemory
  <2>2. new = Written(m, row.page, row.offset, cells)
    OBVIOUS
  <2> HIDE DEF new
  <2>3. /\ PageMemory(new)
        /\ \A p \in PageIds : \A o \in Cells :
              new[p][o] = IF p = row.page /\ row.offset <= o /\ o < row.offset + n
                          THEN cells[o - row.offset] ELSE m[p][o]
    BY <1>1, <2>1, <2>2, WrittenCells
  <2> QED
    BY <2>3 DEF PageMemory
<1> HIDE DEF new
<1>5. ASSUME NEW p \in PageIds, NEW o \in Cells
      PROVE  /\ In(Piece(row), p, o) => new[p][o] = CellOf(row, o)
             /\ ~In(Piece(row), p, o) => new[p][o] = m[p][o]
  <2>1. In(Piece(row), p, o) <=> p = row.page /\ row.offset <= o /\ o < row.offset + n
    BY <1>1 DEF In
  <2>2. In(Piece(row), p, o) => o - row.offset \in 0..n - 1 /\ row.offset + (o - row.offset) = o
    BY <1>1, <1>3, <2>1
  <2> QED
    BY <1>2, <1>4, <2>1, <2>2
<1>6. ASSUME NEW p \in PageIds, NEW o \in Cells, NEW r \in K, In(Piece(r), p, o)
      PROVE  ~In(Piece(row), p, o)
  BY <1>1, <1>3, <1>6 DEF In, Apart, Extended
<1>7. ASSUME NEW p \in PageIds, NEW o \in Cells
      PROVE  /\ \A r \in K \cup {row} : In(Piece(r), p, o) => new[p][o] = CellOf(r, o)
             /\ ~InRow(K \cup {row}, p, o) => new[p][o] = 0
  <2>1. ASSUME NEW r \in K, In(Piece(r), p, o)
        PROVE  new[p][o] = CellOf(r, o)
    <3>1. new[p][o] = m[p][o]
      BY <1>5, <1>6, <2>1
    <3> QED
      BY <2>1, <3>1 DEF Memory
  <2>2. ASSUME ~InRow(K \cup {row}, p, o)
        PROVE  new[p][o] = 0
    <3>1. ~In(Piece(row), p, o) /\ \A r \in K : ~In(Piece(r), p, o)
      BY <2>2 DEF InRow
    <3>2. ~InRow(L, p, o)
      BY <3>1 DEF InRow
    <3> QED
      BY <1>5, <3>1, <3>2 DEF Memory
  <2> QED
    BY <1>5, <2>1, <2>2
<1> QED
  BY <1>4, <1>7 DEF Memory, new, cells

\* A row is blanked.
LEMMA MemoryZeroed ==
    ASSUME NEW m, NEW L, Memory(m, L), SoundRows(L), NEW row \in L
    PROVE  Memory(Written(m, row.page, row.offset, Blank(Footprint(row.len))), L \ {row})
<1> DEFINE n == Footprint(row.len)
           cells == Blank(n)
           new == Written(m, row.page, row.offset, cells)
<1>1. /\ row.page \in PageIds /\ row.offset \in Nat /\ n \in Nat
      /\ Piece(row).page = row.page /\ Piece(row).offset = row.offset
      /\ End(Piece(row)) = row.offset + n
  BY PieceFields DEF SoundRows
<1> HIDE DEF n
<1>2. DOMAIN cells = 0..n - 1 /\ \A i \in 0..n - 1 : cells[i] = 0 /\ cells[i] \in Nat
  BY DEF Blank
<1> HIDE DEF cells
<1>3. m \in [PageIds -> [Cells -> Nat]] /\ \A o \in Cells : o \in Nat
  BY LayoutAssumption DEF Memory, Cells
<1>4. /\ new \in [PageIds -> [Cells -> Nat]]
      /\ \A p \in PageIds : \A o \in Cells :
            new[p][o] = IF p = row.page /\ row.offset <= o /\ o < row.offset + n
                        THEN cells[o - row.offset] ELSE m[p][o]
  <2>1. Block(cells, n) /\ PageMemory(m)
    BY <1>2, <1>3 DEF Block, PageMemory
  <2>2. new = Written(m, row.page, row.offset, cells)
    OBVIOUS
  <2> HIDE DEF new
  <2>3. /\ PageMemory(new)
        /\ \A p \in PageIds : \A o \in Cells :
              new[p][o] = IF p = row.page /\ row.offset <= o /\ o < row.offset + n
                          THEN cells[o - row.offset] ELSE m[p][o]
    BY <1>1, <2>1, <2>2, WrittenCells
  <2> QED
    BY <2>3 DEF PageMemory
<1> HIDE DEF new
<1>5. ASSUME NEW p \in PageIds, NEW o \in Cells
      PROVE  new[p][o] = IF In(Piece(row), p, o) THEN 0 ELSE m[p][o]
  <2>1. In(Piece(row), p, o) <=> p = row.page /\ row.offset <= o /\ o < row.offset + n
    BY <1>1 DEF In
  <2>2. In(Piece(row), p, o) => o - row.offset \in 0..n - 1
    BY <1>1, <1>3, <2>1
  <2> QED
    BY <1>2, <1>4, <2>1, <2>2
<1>6. ASSUME NEW p \in PageIds, NEW o \in Cells, NEW r \in L \ {row}, In(Piece(r), p, o)
      PROVE  ~In(Piece(row), p, o)
  <2>1. Apart(Piece(r), Piece(row)) /\ Extended(Piece(r))
    BY <1>6, PieceFields DEF SoundRows
  <2> QED
    BY <1>1, <1>3, <1>6, <2>1 DEF In, Apart, Extended
<1>7. ASSUME NEW p \in PageIds, NEW o \in Cells
      PROVE  /\ \A r \in L \ {row} : In(Piece(r), p, o) => new[p][o] = CellOf(r, o)
             /\ ~InRow(L \ {row}, p, o) => new[p][o] = 0
  <2>1. \A r \in L \ {row} : In(Piece(r), p, o) => new[p][o] = CellOf(r, o)
    BY <1>5, <1>6 DEF Memory
  <2>2. ASSUME ~InRow(L \ {row}, p, o), ~In(Piece(row), p, o)
        PROVE  new[p][o] = 0
    <3>1. ~InRow(L, p, o)
      BY <2>2 DEF InRow
    <3> QED
      BY <1>5, <2>2, <3>1 DEF Memory
  <2> QED
    BY <1>5, <2>1, <2>2
<1> QED
  BY <1>4, <1>7 DEF Memory, new, cells, n

-----------------------------------------------------------------------------
(* The owners of the pages                                                 *)

\* Every page has one owner: the pool, the page ledger or a segment table.
Owners(ps, ts, pl) ==
    /\ pl \in Seq(PageIds)
    /\ Len(pl) + Len(ps) + Len(ts) = Len(PagePool)
    /\ \A i, j \in DOMAIN pl : pl[i] = pl[j] => i = j
    /\ \A i, j \in DOMAIN ps : ps[i].page = ps[j].page => i = j
    /\ \A i, j \in DOMAIN ts : ts[i].page = ts[j].page => i = j
    /\ \A i \in DOMAIN pl : \A j \in DOMAIN ps : pl[i] # ps[j].page
    /\ \A i \in DOMAIN pl : \A j \in DOMAIN ts : pl[i] # ts[j].page
    /\ \A i \in DOMAIN ps : \A j \in DOMAIN ts : ps[i].page # ts[j].page
    /\ \A p \in PageIds : \/ \E i \in DOMAIN pl : pl[i] = p
                          \/ \E i \in DOMAIN ps : ps[i].page = p
                          \/ \E i \in DOMAIN ts : ts[i].page = p

\* Ledgers with the same pages have the same owners.
LEMMA OwnersKept ==
    ASSUME NEW ps, NEW ts, NEW pl, Owners(ps, ts, pl), NEW qs, NEW us,
           Len(qs) = Len(ps), DOMAIN qs = DOMAIN ps, \A i \in DOMAIN ps : qs[i].page = ps[i].page,
           Len(us) = Len(ts), DOMAIN us = DOMAIN ts, \A i \in DOMAIN ts : us[i].page = ts[i].page
    PROVE  Owners(qs, us, pl)
<1>1. pl \in Seq(PageIds) /\ Len(pl) + Len(qs) + Len(us) = Len(PagePool)
  BY DEF Owners
<1>2. \A i, j \in DOMAIN pl : pl[i] = pl[j] => i = j
  BY DEF Owners
<1>3. \A i, j \in DOMAIN qs : qs[i].page = qs[j].page => i = j
  <2>1. \A i, j \in DOMAIN ps : ps[i].page = ps[j].page => i = j
    BY DEF Owners
  <2> QED
    BY <2>1
<1>4. \A i, j \in DOMAIN us : us[i].page = us[j].page => i = j
  <2>1. \A i, j \in DOMAIN ts : ts[i].page = ts[j].page => i = j
    BY DEF Owners
  <2> QED
    BY <2>1
<1>5. \A i \in DOMAIN pl : \A j \in DOMAIN qs : pl[i] # qs[j].page
  <2>1. \A i \in DOMAIN pl : \A j \in DOMAIN ps : pl[i] # ps[j].page
    BY DEF Owners
  <2> QED
    BY <2>1
<1>6. \A i \in DOMAIN pl : \A j \in DOMAIN us : pl[i] # us[j].page
  <2>1. \A i \in DOMAIN pl : \A j \in DOMAIN ts : pl[i] # ts[j].page
    BY DEF Owners
  <2> QED
    BY <2>1
<1>7. \A i \in DOMAIN qs : \A j \in DOMAIN us : qs[i].page # us[j].page
  <2>1. \A i \in DOMAIN ps : \A j \in DOMAIN ts : ps[i].page # ts[j].page
    BY DEF Owners
  <2> QED
    BY <2>1
<1>8. ASSUME NEW p \in PageIds
      PROVE  \/ \E i \in DOMAIN pl : pl[i] = p
             \/ \E i \in DOMAIN qs : qs[i].page = p
             \/ \E i \in DOMAIN us : us[i].page = p
  <2>1. \/ \E i \in DOMAIN pl : pl[i] = p
        \/ \E i \in DOMAIN ps : ps[i].page = p
        \/ \E i \in DOMAIN ts : ts[i].page = p
    BY DEF Owners
  <2> QED
    BY <2>1
<1> QED
  BY <1>1, <1>2, <1>3, <1>4, <1>5, <1>6, <1>7, <1>8 DEF Owners

\* The page that claim_page hands out.
LEMMA LastOfPool ==
    ASSUME NEW pl \in Seq(PageIds), pl # <<>>
    PROVE  /\ Front(pl) \in Seq(PageIds) /\ Len(Front(pl)) = Len(pl) - 1
           /\ Len(pl) \in Nat /\ Len(pl) \in DOMAIN pl
           /\ DOMAIN Front(pl) = DOMAIN pl \ {Len(pl)}
           /\ \A i \in DOMAIN Front(pl) : Front(pl)[i] = pl[i]
           /\ Last(pl) = pl[Len(pl)] /\ Last(pl) \in PageIds
<1>1. Len(pl) \in Nat /\ Len(pl) > 0 /\ Len(pl) \in DOMAIN pl /\ DOMAIN pl = 1..Len(pl)
  OBVIOUS
<1>2. Last(pl) = pl[Len(pl)] /\ Last(pl) \in PageIds
  BY <1>1 DEF Last
<1>3. SubSeq(pl, 1, Len(pl) - 1) \in Seq(PageIds) /\ Len(SubSeq(pl, 1, Len(pl) - 1)) = Len(pl) - 1
  BY <1>1
<1>4. \A k \in 1..Len(pl) - 1 : SubSeq(pl, 1, Len(pl) - 1)[k] = pl[k]
  BY <1>1
<1>5. Front(pl) = SubSeq(pl, 1, Len(pl) - 1)
  BY DEF Front
<1>6. DOMAIN Front(pl) = 1..Len(pl) - 1
  BY <1>3, <1>5
<1>7. 1..Len(pl) - 1 = (1..Len(pl)) \ {Len(pl)}
  BY <1>1
<1> QED
  BY <1>1, <1>2, <1>3, <1>4, <1>5, <1>6, <1>7

LEMMA OwnersOfLedger ==
    ASSUME NEW ps \in Seq(PageRecord), NEW ts, NEW pl, Owners(ps, ts, pl), pl # <<>>,
           NEW record \in PageRecord, record.page = Last(pl), Len(ts) \in Nat
    PROVE  Owners(Append(ps, record), ts, Front(pl)) /\ \A i \in DOMAIN ps : ps[i].page # Last(pl)
<1> DEFINE qs == Append(ps, record)
           ql == Front(pl)
           n == Len(ps) + 1
<1>1. pl \in Seq(PageIds)
  BY DEF Owners
<1>2. /\ qs \in Seq(PageRecord) /\ DOMAIN qs = DOMAIN ps \cup {n} /\ n \notin DOMAIN ps
      /\ qs[n] = record /\ (\A k \in DOMAIN ps : qs[k] = ps[k]) /\ Len(qs) = n /\ Len(ps) \in Nat
  OBVIOUS
<1>3. /\ ql \in Seq(PageIds) /\ Len(ql) = Len(pl) - 1 /\ Len(pl) \in Nat /\ Len(pl) \in DOMAIN pl
      /\ DOMAIN ql = DOMAIN pl \ {Len(pl)} /\ \A i \in DOMAIN ql : ql[i] = pl[i]
      /\ Last(pl) = pl[Len(pl)]
  BY <1>1, LastOfPool
<1> HIDE DEF qs, ql
<1>4. Len(ql) + Len(qs) + Len(ts) = Len(PagePool)
  <2>1. Len(pl) + Len(ps) + Len(ts) = Len(PagePool)
    BY DEF Owners
  <2>2. Len(qs) = Len(ps) + 1 /\ Len(ps) \in Nat /\ Len(ql) = Len(pl) - 1 /\ Len(pl) \in Nat
    BY <1>2, <1>3
  <2> QED
    BY <2>1, <2>2
<1>5. \A i, j \in DOMAIN ql : ql[i] = ql[j] => i = j
  BY <1>3 DEF Owners
<1>6. \A i, j \in DOMAIN qs : qs[i].page = qs[j].page => i = j
  BY <1>2, <1>3 DEF Owners
<1>7. \A i \in DOMAIN ql : \A j \in DOMAIN qs : ql[i] # qs[j].page
  BY <1>2, <1>3 DEF Owners
<1>8. \A i \in DOMAIN ql : \A j \in DOMAIN ts : ql[i] # ts[j].page
  BY <1>3 DEF Owners
<1>9. \A i \in DOMAIN qs : \A j \in DOMAIN ts : qs[i].page # ts[j].page
  BY <1>2, <1>3 DEF Owners
<1>10. ASSUME NEW p \in PageIds
       PROVE  \/ \E i \in DOMAIN ql : ql[i] = p
              \/ \E i \in DOMAIN qs : qs[i].page = p
              \/ \E i \in DOMAIN ts : ts[i].page = p
  <2>1. \/ \E i \in DOMAIN pl : pl[i] = p
        \/ \E i \in DOMAIN ps : ps[i].page = p
        \/ \E i \in DOMAIN ts : ts[i].page = p
    BY DEF Owners
  <2>2. CASE p = Last(pl)
    BY <1>2, <2>2
  <2>3. CASE p # Last(pl)
    BY <1>2, <1>3, <2>1, <2>3
  <2> QED
    BY <2>2, <2>3
<1>11. Owners(qs, ts, ql)
  BY <1>3, <1>4, <1>5, <1>6, <1>7, <1>8, <1>9, <1>10 DEF Owners
<1>12. \A i \in DOMAIN ps : ps[i].page # Last(pl)
  BY <1>3 DEF Owners
<1> QED
  BY <1>11, <1>12 DEF qs, ql

LEMMA OwnersOfTables ==
    ASSUME NEW ps, NEW ts \in Seq(SegmentTable), NEW pl, Owners(ps, ts, pl), pl # <<>>,
           NEW table \in SegmentTable, table.page = Last(pl), Len(ps) \in Nat
    PROVE  Owners(ps, Append(ts, table), Front(pl))
<1> DEFINE us == Append(ts, table)
           ql == Front(pl)
           n == Len(ts) + 1
<1>1. pl \in Seq(PageIds)
  BY DEF Owners
<1>2. /\ us \in Seq(SegmentTable) /\ DOMAIN us = DOMAIN ts \cup {n} /\ n \notin DOMAIN ts
      /\ us[n] = table /\ (\A k \in DOMAIN ts : us[k] = ts[k]) /\ Len(us) = n /\ Len(ts) \in Nat
  OBVIOUS
<1>3. /\ ql \in Seq(PageIds) /\ Len(ql) = Len(pl) - 1 /\ Len(pl) \in Nat /\ Len(pl) \in DOMAIN pl
      /\ DOMAIN ql = DOMAIN pl \ {Len(pl)} /\ \A i \in DOMAIN ql : ql[i] = pl[i]
      /\ Last(pl) = pl[Len(pl)]
  BY <1>1, LastOfPool
<1> HIDE DEF us, ql
<1>4. Len(ql) + Len(ps) + Len(us) = Len(PagePool)
  <2>1. Len(pl) + Len(ps) + Len(ts) = Len(PagePool)
    BY DEF Owners
  <2>2. Len(us) = Len(ts) + 1 /\ Len(ts) \in Nat /\ Len(ql) = Len(pl) - 1 /\ Len(pl) \in Nat
    BY <1>2, <1>3
  <2> QED
    BY <2>1, <2>2
<1>5. \A i, j \in DOMAIN ql : ql[i] = ql[j] => i = j
  BY <1>3 DEF Owners
<1>6. \A i, j \in DOMAIN us : us[i].page = us[j].page => i = j
  BY <1>2, <1>3 DEF Owners
<1>7. \A i \in DOMAIN ql : \A j \in DOMAIN us : ql[i] # us[j].page
  BY <1>2, <1>3, SMTT(30) DEF Owners
<1>8. \A i \in DOMAIN ql : \A j \in DOMAIN ps : ql[i] # ps[j].page
  BY <1>3 DEF Owners
<1>9. \A i \in DOMAIN ps : \A j \in DOMAIN us : ps[i].page # us[j].page
  BY <1>2, <1>3, SMTT(30) DEF Owners
<1>10. ASSUME NEW p \in PageIds
       PROVE  \/ \E i \in DOMAIN ql : ql[i] = p
              \/ \E i \in DOMAIN ps : ps[i].page = p
              \/ \E i \in DOMAIN us : us[i].page = p
  <2>1. \/ \E i \in DOMAIN pl : pl[i] = p
        \/ \E i \in DOMAIN ps : ps[i].page = p
        \/ \E i \in DOMAIN ts : ts[i].page = p
    BY DEF Owners
  <2>2. CASE p = Last(pl)
    BY <1>2, <2>2
  <2>3. CASE p # Last(pl)
    BY <1>2, <1>3, <2>1, <2>3
  <2> QED
    BY <2>2, <2>3
<1>11. Owners(ps, us, ql)
  BY <1>3, <1>4, <1>5, <1>6, <1>7, <1>8, <1>9, <1>10 DEF Owners
<1> QED
  BY <1>11 DEF us, ql

-----------------------------------------------------------------------------
(* Stores                                                                  *)

IsStore(st) ==
    st = [mem |-> st.mem, ledger |-> st.ledger, tables |-> st.tables, pool |-> st.pool,
          at |-> st.at, err |-> st.err]

\* A store that holds the rows L.
Keeps(st, L) ==
    /\ IsStore(st) /\ st.err = "ok"
    /\ Space(st.ledger, st.tables, L)
    /\ Memory(st.mem, L)
    /\ Owners(st.ledger, st.tables, st.pool)

\* The errors a caller may see.
Refused(st) == st.err \in {"DataTooLarge", "FailedToAllocatePage"}

LEMMA Claimed ==
    ASSUME NEW st, IsStore(st), st.err = "ok"
    PROVE  LET c == claim_page(st)
           IN  /\ st.pool = <<>> => Refused(c) /\ c.err # "ok"
               /\ st.pool # <<>> =>
                    /\ IsStore(c) /\ c.err = "ok" /\ c.mem = st.mem /\ c.ledger = st.ledger
                    /\ c.tables = st.tables /\ c.pool = Front(st.pool) /\ c.at = Last(st.pool)
<1>1. CASE st.pool = <<>>
  <2>1. claim_page(st) = [st EXCEPT !.err = "FailedToAllocatePage"]
    BY <1>1 DEF claim_page, Fail
  <2>2. claim_page(st).err = "FailedToAllocatePage"
    BY <2>1 DEF IsStore
  <2> QED
    BY <1>1, <2>2 DEF Refused
<1>2. CASE st.pool # <<>>
  <2>1. claim_page(st) = [st EXCEPT !.pool = Front(st.pool), !.at = Last(st.pool)]
    BY <1>2 DEF claim_page
  <2> QED
    BY <1>2, <2>1 DEF IsStore
<1> QED
  BY <1>1, <1>2

LEMMA Zeroed ==
    ASSUME NEW st, IsStore(st), NEW page, NEW offset, NEW size, NEW alignment,
           offset % alignment = 0, ~(offset + size > PageSize)
    PROVE  LET z == zero(st, page, offset, size, alignment)
           IN  /\ IsStore(z) /\ z.err = st.err /\ z.ledger = st.ledger /\ z.tables = st.tables
               /\ z.pool = st.pool /\ z.mem = Written(st.mem, page, offset, Blank(size))
<1> DEFINE m == Written(st.mem, page, offset, Blank(size))
<1>1. zero(st, page, offset, size, alignment) = [st EXCEPT !.mem = m]
  BY DEF zero
<1> HIDE DEF m
<1> QED
  BY <1>1 DEF IsStore, m

\* A segment is given to the first table with room, or to a new one.
LEMMA SegmentInserted ==
    ASSUME NEW st, IsStore(st), st.err = "ok", Sound(st.tables), st.ledger \in Seq(PageRecord),
           Owners(st.ledger, st.tables, st.pool),
           NEW segment, GoodSegment(segment), ClearAll(st.tables, segment)
    PROVE  LET n == insert_free_segment(st, segment)
           IN  \/ Refused(n) /\ n.err # "ok"
               \/ /\ IsStore(n) /\ n.err = "ok" /\ n.mem = st.mem /\ n.ledger = st.ledger
                  /\ Frees(st.tables, segment, n.tables)
                  /\ Owners(n.ledger, n.tables, n.pool)
<1> DEFINE ts == st.tables
           I == {k \in 1..Len(ts) : ~is_full(ts[k])}
           t == SelectInSeq(ts, LAMBDA table : ~is_full(table))
           n == insert_free_segment(st, segment)
           c == claim_page(st)
<1>1. ts \in Seq(SegmentTable) /\ Len(ts) \in Nat /\ DOMAIN ts = 1..Len(ts)
  BY DEF Sound
<1>2. t = IF I # {} THEN Min(I) ELSE 0
  BY DEF SelectInSeq
<1>3. t # 0 => t \in DOMAIN ts /\ ~is_full(ts[t])
  <2>1. I \in SUBSET (1..Len(ts))
    OBVIOUS
  <2>2. t # 0 => t \in I
    <3> HIDE DEF t, I
    <3> QED
      BY <1>1, <1>2, <2>1, FirstOf
  <2> QED
    BY <1>1, <2>2
<1>4. CASE t # 0
  <2> DEFINE recs == TableWith[<<ts[t].records, segment>>]
             us == WithRecords(ts, t, recs)
  <2>1. n = [st EXCEPT !.tables[t].records = TableWith[<<@, segment>>]]
    BY <1>4, Zenon DEF insert_free_segment
  <2>2. n = [st EXCEPT !.tables = us]
    BY <2>1 DEF WithRecords
  <2>3. Frees(ts, segment, us)
    BY <1>3, <1>4, FreedInTable
  <2>4. recs \in Seq(FreeSegment)
    <3> DEFINE a == <<ts[t].records, segment>>
    <3>1. Ready(a)
      BY <1>3, <1>4 DEF Ready, Args, Sound, Good, ClearAll, GoodSegment
    <3>2. Absorbs(a, TableWith[a])
      BY <3>1, TableWithAbsorbs
    <3> QED
      BY <3>2 DEF Absorbs, Good
  <2>5. Len(us) = Len(ts) /\ DOMAIN us = DOMAIN ts /\ \A u \in DOMAIN ts : us[u].page = ts[u].page
    <3>1. t \in DOMAIN ts
      BY <1>3, <1>4
    <3> HIDE DEF recs, t, ts
    <3> QED
      BY <1>1, <2>4, <3>1, RecordsReplaced
  <2> HIDE DEF us
  <2>6. IsStore(n) /\ n.err = "ok" /\ n.mem = st.mem /\ n.ledger = st.ledger /\ n.tables = us
        /\ n.pool = st.pool
    BY <2>2 DEF IsStore
  <2>7. Owners(st.ledger, us, st.pool)
    BY <2>5, OwnersKept
  <2> QED
    BY <2>3, <2>6, <2>7
<1>5. CASE t = 0
  <2>1. n = IF c.err # "ok" THEN c
            ELSE [c EXCEPT !.tables = Append(@, [page |-> c.at, records |-> <<segment>>])]
    BY <1>5, Zenon DEF insert_free_segment
  <2>2. CASE st.pool = <<>>
    BY <2>1, <2>2, Claimed
  <2>3. CASE st.pool # <<>>
    <3>1. /\ IsStore(c) /\ c.err = "ok" /\ c.mem = st.mem /\ c.ledger = st.ledger
          /\ c.tables = ts /\ c.pool = Front(st.pool) /\ c.at = Last(st.pool)
      BY <2>3, Claimed
    <3> DEFINE table == [page |-> Last(st.pool), records |-> <<segment>>]
               us == Append(ts, table)
    <3>2. n = [c EXCEPT !.tables = us]
      BY <2>1, <3>1
    <3>3. Last(st.pool) \in PageIds
      BY <2>3, LastOfPool DEF Owners
    <3>4. Frees(ts, segment, us)
      BY <3>3, FreedInNewTable
    <3>5. table \in SegmentTable /\ table.page = Last(st.pool)
      BY <3>3 DEF SegmentTable, GoodSegment
    <3>6. Owners(st.ledger, us, Front(st.pool))
      <4>1. Len(st.ledger) \in Nat
        OBVIOUS
      <4> HIDE DEF table
      <4> QED
        BY <1>1, <2>3, <3>5, <4>1, OwnersOfTables
    <3> HIDE DEF us
    <3>7. IsStore(n) /\ n.err = "ok" /\ n.mem = st.mem /\ n.ledger = st.ledger /\ n.tables = us
          /\ n.pool = Front(st.pool)
      BY <3>1, <3>2 DEF IsStore
    <3> QED
      BY <3>4, <3>6, <3>7
  <2> QED
    BY <2>2, <2>3
<1> QED
  BY <1>4, <1>5

-----------------------------------------------------------------------------
(* Deleting a record                                                       *)

\* How an operation ends: refused, or with a store that holds the rows L.
Ends(st, L) == (Refused(st) /\ st.err # "ok") \/ Keeps(st, L)

Divides(alignment, n) == n % alignment = 0

LEMMA PieceDeleted ==
    ASSUME NEW st, NEW L, Keeps(st, L), NEW row \in L, NEW alignment, Divides(alignment, row.offset)
    PROVE  Ends(insert_free_segment(zero(st, row.page, row.offset, Footprint(row.len), alignment),
                                    Piece(row)),
                L \ {row})
<1> DEFINE z == zero(st, row.page, row.offset, Footprint(row.len), alignment)
           n == insert_free_segment(z, Piece(row))
<1>1. /\ SoundRows(L) /\ row \in Row /\ GoodSegment(Piece(row)) /\ ClearAll(st.tables, Piece(row))
      /\ Sound(st.tables) /\ st.ledger \in Seq(PageRecord) /\ IsStore(st) /\ st.err = "ok"
      /\ Owners(st.ledger, st.tables, st.pool) /\ Memory(st.mem, L)
      /\ Space(st.ledger, st.tables, L)
  BY DEF Keeps, Space, SoundRows, SoundLedger
<1>2. row.offset + Footprint(row.len) <= PageSize /\ row.offset \in Nat /\ Footprint(row.len) \in Nat
  BY <1>1, PieceFields DEF GoodSegment
<1>3. ~(row.offset + Footprint(row.len) > PageSize)
  BY <1>2, LayoutAssumption
<1>4. /\ IsStore(z) /\ z.err = st.err /\ z.ledger = st.ledger /\ z.tables = st.tables
      /\ z.pool = st.pool
      /\ z.mem = Written(st.mem, row.page, row.offset, Blank(Footprint(row.len)))
  BY <1>1, <1>3, Zeroed DEF Divides
<1>5. Memory(z.mem, L \ {row})
  <2>1. Memory(Written(st.mem, row.page, row.offset, Blank(Footprint(row.len))), L \ {row})
    BY <1>1, MemoryZeroed
  <2> QED
    BY <1>4, <2>1
<1> HIDE DEF z
<1>6. \/ Refused(n) /\ n.err # "ok"
      \/ /\ IsStore(n) /\ n.err = "ok" /\ n.mem = z.mem /\ n.ledger = z.ledger
         /\ Frees(z.tables, Piece(row), n.tables)
         /\ Owners(n.ledger, n.tables, n.pool)
  BY <1>1, <1>4, SegmentInserted
<1> HIDE DEF n
<1>7. CASE Refused(n) /\ n.err # "ok"
  BY <1>7 DEF Ends, n, z
<1>8. CASE /\ IsStore(n) /\ n.err = "ok" /\ n.mem = z.mem /\ n.ledger = z.ledger
           /\ Frees(z.tables, Piece(row), n.tables)
           /\ Owners(n.ledger, n.tables, n.pool)
  <2>1. Space(n.ledger, n.tables, L \ {row})
    BY <1>1, <1>4, <1>8, SpaceFreed
  <2>2. Keeps(n, L \ {row})
    BY <1>5, <1>8, <2>1 DEF Keeps
  <2> QED
    BY <2>2 DEF Ends, n, z
<1> QED
  BY <1>6, <1>7, <1>8

\* TableRegistry::delete.
LEMMA RecordDeleted ==
    ASSUME NEW st, NEW L, Keeps(st, L), NEW row \in L
    PROVE  Ends(DeleteRecord(st, row), L \ {row})
<1>1. row \in Row /\ Slot(row.offset)
  BY PieceFields DEF Keeps, Space, SoundRows, GoodSegment
<1>2. Divides(Alignment, row.offset)
  BY <1>1 DEF Slot, Divides
<1>3. DeleteRecord(st, row)
        = insert_free_segment(zero(st, row.page, row.offset, Footprint(row.len), Alignment), Piece(row))
  BY DEF DeleteRecord, Footprint, Piece
<1>4. Ends(insert_free_segment(zero(st, row.page, row.offset, Footprint(row.len), Alignment), Piece(row)),
           L \ {row})
  BY <1>2, PieceDeleted
<1> QED
  BY <1>3, <1>4

\* TableRegistry::delete_raw, with the alignment of the typed path.
LEMMA RawDeleted ==
    ASSUME SnapshotAlignment = Alignment, NEW st, NEW L, Keeps(st, L), NEW row \in L
    PROVE  Ends(delete_raw(st, row), L \ {row})
<1>1. row.offset \in Nat
  BY PieceFields DEF Keeps, Space, SoundRows
<1>2. Divides(1, row.offset)
  BY <1>1 DEF Divides
<1>3. delete_raw(st, row)
        = insert_free_segment(zero(st, row.page, row.offset, Footprint(row.len), 1), Piece(row))
  BY DEF delete_raw, Footprint, Piece
<1>4. Ends(insert_free_segment(zero(st, row.page, row.offset, Footprint(row.len), 1), Piece(row)),
           L \ {row})
  BY <1>2, PieceDeleted
<1> QED
  BY <1>3, <1>4

-----------------------------------------------------------------------------
(* Where a record goes                                                     *)

\* The segment that find_reusable_segment returns.
LEMMA SegmentFound ==
    ASSUME NEW st, Sound(st.tables), NEW required \in Nat
    PROVE  LET f == find_reusable_segment(st, required)
           IN  \/ f = <<>>
               \/ \E t \in DOMAIN st.tables : \E i \in DOMAIN st.tables[t].records :
                     /\ f = <<[table |-> t, segment |-> st.tables[t].records[i]]>>
                     /\ st.tables[t].records[i].size >= required
<1> DEFINE ts == st.tables
           Suits(r) == r.size >= required
           I == {k \in 1..Len(ts) : SelectInSeq(ts[k].records, Suits) # 0}
           t == SelectInSeq(ts, LAMBDA table : SelectInSeq(table.records, Suits) # 0)
           i == SelectInSeq(ts[t].records, Suits)
           J == {k \in 1..Len(ts[t].records) : ts[t].records[k].size >= required}
<1>1. ts \in Seq(SegmentTable) /\ Len(ts) \in Nat /\ DOMAIN ts = 1..Len(ts)
  BY DEF Sound
<1>2. find_reusable_segment(st, required)
        = IF t = 0 THEN <<>> ELSE <<[table |-> t, segment |-> ts[t].records[i]]>>
  BY DEF find_reusable_segment
<1>3. t = IF I # {} THEN Min(I) ELSE 0
  BY DEF SelectInSeq
<1>4. i = IF J # {} THEN Min(J) ELSE 0
  BY DEF SelectInSeq
<1>5. ASSUME t # 0
      PROVE  t \in DOMAIN ts /\ i # 0
  <2>1. I \in SUBSET (1..Len(ts))
    OBVIOUS
  <2>2. t \in I
    <3> HIDE DEF t, I
    <3> QED
      BY <1>1, <1>3, <1>5, <2>1, FirstOf
  <2> QED
    BY <1>1, <2>2
<1>6. ASSUME t # 0
      PROVE  i \in DOMAIN ts[t].records /\ ts[t].records[i].size >= required
  <2>1. ts[t].records \in Seq(FreeSegment)
    <3>1. t \in DOMAIN ts
      BY <1>5, <1>6
    <3> HIDE DEF t, ts
    <3>2. ts[t] \in SegmentTable
      BY <1>1, <3>1
    <3> QED
      BY <3>2 DEF SegmentTable
  <2>2. J \in SUBSET (1..Len(ts[t].records)) /\ Len(ts[t].records) \in Nat
    <3> HIDE DEF t, ts
    <3> QED
      BY <2>1
  <2>3. i \in J
    <3>1. i # 0
      BY <1>5, <1>6
    <3> HIDE DEF i, J, t
    <3> QED
      BY <1>4, <2>2, <3>1, FirstOf
  <2> HIDE DEF i, t, ts
  <2>4. DOMAIN ts[t].records = 1..Len(ts[t].records)
    BY <2>1
  <2> QED
    BY <2>3, <2>4, Zenon
<1> HIDE DEF t, i
<1> QED
  BY <1>2, <1>5, <1>6

\* Room behind what a page has handed out: the alignment of the callers
\* moves nothing, because what was handed out ends on a slot.
LEMMA AlignedTaken ==
    ASSUME NEW n \in Nat, Slot(n), NEW alignment, alignment = 1 \/ alignment = Alignment
    PROVE  align_up(n, alignment) = n
<1>1. align_up(n, 1) = n
  BY DEF align_up
<1>2. align_up(n, Alignment) = n
  BY AlignUpFacts DEF AlignUp
<1> QED
  BY <1>1, <1>2

\* Room for `size` cells at the end of a page of the ledger.
Room(st, k, size) ==
    /\ k \in DOMAIN st.ledger
    /\ st.at = [page |-> st.ledger[k].page, offset |-> Taken(st.ledger[k])]
    /\ Taken(st.ledger[k]) + size <= PageSize

LEMMA RoomFound ==
    ASSUME NEW st, NEW L, Keeps(st, L), NEW size \in Nat, size <= PageSize,
           NEW alignment, alignment = 1 \/ alignment = Alignment
    PROVE  LET n == get_page_and_offset(st, size, alignment)
           IN  \/ Refused(n) /\ n.err # "ok"
               \/ Keeps(n, L) /\ n.mem = st.mem /\ \E k \in DOMAIN n.ledger : Room(n, k, size)
<1> DEFINE ps == st.ledger
           I == {k \in 1..Len(ps) : align_up(Taken(ps[k]), alignment) + size <= PageSize}
           i == SelectInSeq(ps, LAMBDA p : align_up(Taken(p), alignment) + size <= PageSize)
           n == get_page_and_offset(st, size, alignment)
           c == claim_page(st)
<1>1. /\ SoundLedger(ps) /\ ps \in Seq(PageRecord) /\ Len(ps) \in Nat /\ DOMAIN ps = 1..Len(ps)
      /\ IsStore(st) /\ st.err = "ok" /\ Space(ps, st.tables, L) /\ Memory(st.mem, L)
      /\ Owners(ps, st.tables, st.pool) /\ Sound(st.tables)
  BY DEF Keeps, Space, SoundLedger
<1>2. i = IF I # {} THEN Min(I) ELSE 0
  BY DEF SelectInSeq
<1>3. ASSUME i # 0
      PROVE  i \in DOMAIN ps /\ align_up(Taken(ps[i]), alignment) + size <= PageSize
  <2>1. I \in SUBSET (1..Len(ps))
    OBVIOUS
  <2>2. i \in I
    <3> HIDE DEF i, I
    <3> QED
      BY <1>1, <1>2, <1>3, <2>1, FirstOf
  <2> QED
    BY <1>1, <2>2
<1>4. CASE i # 0
  <2>1. align_up(Taken(ps[i]), alignment) = Taken(ps[i])
    BY <1>1, <1>3, <1>4, TakenNumber, AlignedTaken
  <2> DEFINE at == [page |-> ps[i].page, offset |-> align_up(Taken(ps[i]), alignment)]
  <2>2. n = [st EXCEPT !.at = at]
    BY <1>4, Zenon DEF get_page_and_offset
  <2>3. at = [page |-> ps[i].page, offset |-> Taken(ps[i])]
    BY <2>1
  <2> HIDE DEF at, i
  <2>4. /\ IsStore(n) /\ n.err = "ok" /\ n.mem = st.mem /\ n.ledger = ps /\ n.tables = st.tables
        /\ n.pool = st.pool /\ n.at = at
    BY <1>1, <2>2 DEF IsStore
  <2>5. Keeps(n, L)
    BY <1>1, <2>4 DEF Keeps
  <2>6. Room(n, i, size)
    BY <1>3, <1>4, <2>1, <2>3, <2>4 DEF Room
  <2> QED
    BY <1>3, <1>4, <2>4, <2>5, <2>6
<1>5. CASE i = 0
  <2>1. n = IF c.err # "ok" THEN c
            ELSE [c EXCEPT !.ledger = Append(@, [page |-> c.at, free |-> PageSize]),
                           !.at = [page |-> c.at, offset |-> 0]]
    BY <1>5, Zenon DEF get_page_and_offset
  <2>2. CASE st.pool = <<>>
    BY <1>1, <2>1, <2>2, Claimed
  <2>3. CASE st.pool # <<>>
    <3>1. /\ IsStore(c) /\ c.err = "ok" /\ c.mem = st.mem /\ c.ledger = ps
          /\ c.tables = st.tables /\ c.pool = Front(st.pool) /\ c.at = Last(st.pool)
      BY <1>1, <2>3, Claimed
    <3> DEFINE blank == [page |-> Last(st.pool), free |-> PageSize]
               qs == Append(ps, blank)
               at == [page |-> Last(st.pool), offset |-> 0]
               k == Len(ps) + 1
    <3>2. n = [c EXCEPT !.ledger = qs, !.at = at]
      BY <2>1, <3>1
    <3>3. Last(st.pool) \in PageIds
      BY <1>1, <2>3, LastOfPool DEF Owners
    <3>4. blank \in PageRecord /\ blank.page = Last(st.pool)
      BY <3>3, LayoutAssumption DEF PageRecord
    <3>5. Owners(qs, st.tables, Front(st.pool)) /\ \A l \in DOMAIN ps : ps[l].page # Last(st.pool)
      <4>1. Len(st.tables) \in Nat
        BY <1>1 DEF Sound
      <4> HIDE DEF blank, ps
      <4> QED
        BY <1>1, <2>3, <3>4, <4>1, OwnersOfLedger
    <3>6. /\ Space(qs, st.tables, L) /\ k \in DOMAIN qs /\ qs[k].page = Last(st.pool)
          /\ Taken(qs[k]) = 0
      BY <1>1, <3>3, <3>5, SpaceNewPage
    <3> HIDE DEF qs
    <3>7. /\ IsStore(n) /\ n.err = "ok" /\ n.mem = st.mem /\ n.ledger = qs /\ n.tables = st.tables
          /\ n.pool = Front(st.pool) /\ n.at = at
      BY <3>1, <3>2 DEF IsStore
    <3>8. Keeps(n, L)
      BY <1>1, <3>5, <3>6, <3>7 DEF Keeps
    <3>9. Room(n, k, size)
      BY <3>6, <3>7 DEF Room
    <3> QED
      BY <3>6, <3>7, <3>8, <3>9
  <2> QED
    BY <2>2, <2>3
<1> QED
  BY <1>4, <1>5

-----------------------------------------------------------------------------
(* Inserting a record                                                      *)

\* `n` is `st` but for the cells of a record.
WritesTo(st, n, page, offset, row) ==
    /\ IsStore(n) /\ n.err = st.err /\ n.ledger = st.ledger /\ n.tables = st.tables
    /\ n.pool = st.pool /\ n.mem = Written(st.mem, page, offset, Encoded(row, Alignment))
    /\ n.at = [page |-> page, offset |-> offset]

LEMMA WrittenTyped ==
    ASSUME NEW st, IsStore(st), NEW page, NEW offset \in Nat, NEW row, row.len \in Nat,
           Slot(offset), offset + Footprint(row.len) <= PageSize
    PROVE  WritesTo(st, write_at(st, page, offset, row), page, offset, row)
<1> DEFINE m == Written(st.mem, page, offset, Encoded(row, Alignment))
           at == [page |-> page, offset |-> offset]
<1>1. ~(offset + raw_record_footprint(row.len, Alignment) > PageSize)
  <2>1. Footprint(row.len) \in Nat /\ PageSize \in Nat
    BY FootprintSlot, LayoutAssumption
  <2>2. ~(offset + Footprint(row.len) > PageSize)
    BY <2>1
  <2> QED
    BY <2>2 DEF Footprint
<1>2. offset % Alignment = 0
  BY DEF Slot
<1>3. write_at(st, page, offset, row) = [st EXCEPT !.mem = m, !.at = at]
  BY <1>1, <1>2, Zenon DEF write_at
<1> HIDE DEF m, at
<1> QED
  BY <1>3 DEF IsStore, WritesTo, m, at

LEMMA WrittenRaw ==
    ASSUME NEW st, IsStore(st), NEW page, NEW offset \in Nat, NEW row, row.len \in Nat,
           offset + Footprint(row.len) <= PageSize
    PROVE  WritesTo(st, write_at_raw(st, page, offset, row, Alignment), page, offset, row)
<1> DEFINE m == Written(st.mem, page, offset, Encoded(row, Alignment))
           at == [page |-> page, offset |-> offset]
<1>1. ~(offset + raw_record_footprint(row.len, Alignment) > PageSize)
  <2>1. Footprint(row.len) \in Nat /\ PageSize \in Nat
    BY FootprintSlot, LayoutAssumption
  <2>2. ~(offset + Footprint(row.len) > PageSize)
    BY <2>1
  <2> QED
    BY <2>2 DEF Footprint
<1>2. write_at_raw(st, page, offset, row, Alignment) = [st EXCEPT !.mem = m, !.at = at]
  BY <1>1, Zenon DEF write_at_raw
<1> HIDE DEF m, at
<1> QED
  BY <1>2 DEF IsStore, WritesTo, m, at

\* `n` is `st` but for what the page has handed out.
Charges(st, n, k, size) ==
    /\ IsStore(n) /\ n.err = st.err /\ n.mem = st.mem /\ n.tables = st.tables
    /\ n.pool = st.pool /\ n.at = st.at
    /\ n.ledger = WithFree(st.ledger, k, st.ledger[k].free - size)

LEMMA Committed ==
    ASSUME NEW st, IsStore(st), st.err = "ok", SoundLedger(st.ledger), NEW k \in DOMAIN st.ledger,
           NEW size \in Nat, size <= st.ledger[k].free,
           NEW alignment, alignment = 1 \/ alignment = Alignment
    PROVE  Charges(st, commit(st, st.ledger[k].page, size, alignment), k, size)
<1> DEFINE ps == st.ledger
           page == ps[k].page
           I == {l \in 1..Len(ps) : ps[l].page = page}
           i == SelectInSeq(ps, LAMBDA p : p.page = page)
           consumed == align_up(Taken(ps[i]), alignment) - Taken(ps[i]) + size
           n == commit(st, page, size, alignment)
<1>1. ps \in Seq(PageRecord) /\ Len(ps) \in Nat /\ DOMAIN ps = 1..Len(ps)
  BY DEF SoundLedger
<1>2. i = IF I # {} THEN Min(I) ELSE 0
  BY DEF SelectInSeq
<1>3. k \in I /\ I \in SUBSET (1..Len(ps))
  BY <1>1
<1>4. i \in I
  <2> HIDE DEF i, I
  <2> QED
    BY <1>1, <1>2, <1>3, FirstOf
<1>5. i = k
  <2>1. i \in DOMAIN ps /\ ps[i].page = ps[k].page
    BY <1>1, <1>4
  <2> HIDE DEF i
  <2> QED
    BY <2>1 DEF SoundLedger
<1>6. /\ Taken(ps[k]) \in Nat /\ align_up(Taken(ps[k]), alignment) = Taken(ps[k])
      /\ ps[k].free \in Nat
  BY TakenNumber, AlignedTaken
<1>7. consumed = size
  <2> HIDE DEF i
  <2> QED
    BY <1>5, <1>6
<1>8. n = CASE st.err # "ok" -> st
            [] st.err = "ok" /\ ps[i].free < consumed -> Fail(st, "DataTooLarge")
            [] OTHER -> [st EXCEPT !.ledger[i].free = @ - consumed]
  BY Zenon DEF commit
<1> HIDE DEF i, consumed
<1>9. n = [st EXCEPT !.ledger[k].free = @ - size]
  BY <1>5, <1>6, <1>7, <1>8
<1> DEFINE qs == WithFree(ps, k, ps[k].free - size)
<1>10. n = [st EXCEPT !.ledger = qs]
  BY <1>9 DEF WithFree
<1> HIDE DEF qs
<1> QED
  BY <1>10 DEF IsStore, Charges, qs

\* A record of Footprint(row.len) cells was stored at n.at.
Stores(n, L, row) == Keeps(n, L \cup {At(n, row)}) /\ At(n, row) \notin L

Body == [len : Nat \ {0}, fill : Nat]

LEMMA AtFields ==
    ASSUME NEW row \in Body, NEW n, NEW page \in PageIds, NEW offset \in Nat,
           n.at = [page |-> page, offset |-> offset],
           Slot(offset), ensure_record_fits(row.len, Alignment),
           offset + Footprint(row.len) <= PageSize
    PROVE  /\ At(n, row) \in Row /\ At(n, row).page = page /\ At(n, row).offset = offset
           /\ At(n, row).len = row.len /\ At(n, row).fill = row.fill
           /\ GoodSegment(Piece(At(n, row))) /\ Encoded(At(n, row), Alignment) = Encoded(row, Alignment)
<1>1. PageSize \in Nat \ {0}
  BY LayoutAssumption
<1>2. row.len \in Nat \ {0} /\ row.fill \in Nat
  BY DEF Body
<1>3. Footprint(row.len) \in Nat /\ Footprint(row.len) > 0
  BY <1>2, FootprintSlot
<1>4. At(n, row) = [page |-> page, offset |-> offset, len |-> row.len, fill |-> row.fill]
  BY DEF At
<1>5. offset \in Cells
  BY <1>1, <1>3 DEF Cells
<1>6. At(n, row) \in Row
  BY <1>2, <1>4, <1>5 DEF Row
<1>7. /\ At(n, row).page = page /\ At(n, row).offset = offset
      /\ At(n, row).len = row.len /\ At(n, row).fill = row.fill
  BY <1>4
<1>8. GoodSegment(Piece(At(n, row)))
  BY <1>6, <1>7, PieceGood
<1>9. Encoded(At(n, row), Alignment) = Encoded(row, Alignment)
  BY <1>7 DEF Encoded
<1> QED
  BY <1>6, <1>7, <1>8, <1>9

LEMMA StoredAtEnd ==
    ASSUME NEW e, NEW L, Keeps(e, L), NEW row \in Body, ensure_record_fits(row.len, Alignment),
           NEW k, Room(e, k, Footprint(row.len)),
           NEW n, IsStore(n), n.err = "ok", n.tables = e.tables, n.pool = e.pool, n.at = e.at,
           n.mem = Written(e.mem, e.at.page, e.at.offset, Encoded(row, Alignment)),
           n.ledger = WithFree(e.ledger, k, e.ledger[k].free - Footprint(row.len))
    PROVE  Stores(n, L, row)
<1> DEFINE new == At(n, row)
           page == e.ledger[k].page
           offset == Taken(e.ledger[k])
<1>1. /\ SoundLedger(e.ledger) /\ k \in DOMAIN e.ledger /\ e.ledger \in Seq(PageRecord)
      /\ Space(e.ledger, e.tables, L) /\ SoundRows(L) /\ Memory(e.mem, L)
      /\ Owners(e.ledger, e.tables, e.pool)
      /\ e.at = [page |-> page, offset |-> offset] /\ offset + Footprint(row.len) <= PageSize
  BY DEF Keeps, Space, Room, SoundLedger
<1>2. /\ offset \in Nat /\ Slot(offset) /\ page \in PageIds /\ e.ledger[k].free \in Nat
      /\ offset + e.ledger[k].free = PageSize /\ e.ledger[k].free <= PageSize
  BY <1>1, TakenNumber
<1>3. /\ new \in Row /\ new.page = page /\ new.offset = offset /\ new.len = row.len
      /\ GoodSegment(Piece(new)) /\ Encoded(new, Alignment) = Encoded(row, Alignment)
  BY <1>1, <1>2, AtFields
<1> HIDE DEF new
<1>4. Footprint(row.len) \in Nat /\ Footprint(row.len) <= e.ledger[k].free
  <2>1. Footprint(row.len) \in Nat
    BY <1>3, PieceFields
  <2> QED
    BY <1>1, <1>2, <2>1, LayoutAssumption
<1>5. /\ Space(n.ledger, n.tables, L \cup {new}) /\ new \notin L
      /\ \A r \in L : Apart(Piece(r), Piece(new))
  <2>1. Footprint(new.len) <= e.ledger[k].free
    BY <1>3, <1>4
  <2>2. /\ Space(WithFree(e.ledger, k, e.ledger[k].free - Footprint(new.len)), e.tables, L \cup {new})
        /\ new \notin L /\ \A r \in L : Apart(Piece(r), Piece(new))
    BY <1>1, <1>3, <2>1, SpaceGrown
  <2>3. n.ledger = WithFree(e.ledger, k, e.ledger[k].free - Footprint(new.len)) /\ n.tables = e.tables
    BY <1>3
  <2> QED
    BY <2>2, <2>3
<1>6. Memory(n.mem, L \cup {new})
  <2>1. \A r \in L : Apart(Piece(r), Piece(new)) /\ Extended(Piece(r))
    BY <1>1, <1>5, PieceFields DEF SoundRows
  <2>2. Memory(Written(e.mem, new.page, new.offset, Encoded(new, Alignment)), L \cup {new})
    BY <1>1, <1>3, <2>1, MemoryWritten
  <2>3. e.at.page = new.page /\ e.at.offset = new.offset
    BY <1>1, <1>3
  <2> QED
    BY <1>3, <2>2, <2>3
<1>7. Owners(n.ledger, n.tables, n.pool)
  <2>1. e.ledger[k].free - Footprint(row.len) \in 0..PageSize
    BY <1>2, <1>4, LayoutAssumption
  <2>2. /\ Len(n.ledger) = Len(e.ledger) /\ DOMAIN n.ledger = DOMAIN e.ledger
        /\ \A l \in DOMAIN e.ledger : n.ledger[l].page = e.ledger[l].page
    BY <1>1, <2>1, FreeReplaced
  <2> QED
    BY <1>1, <2>2, OwnersKept
<1> QED
  BY <1>5, <1>6, <1>7 DEF Stores, Keeps, new

LEMMA StoredInSegment ==
    ASSUME NEW st, NEW L, Keeps(st, L), NEW row \in Body, ensure_record_fits(row.len, Alignment),
           NEW t \in DOMAIN st.tables, NEW i \in DOMAIN st.tables[t].records,
           Footprint(row.len) <= AlignUp(st.tables[t].records[i].size),
           NEW n, IsStore(n), n.err = "ok", n.ledger = st.ledger, n.pool = st.pool,
           n.at = [page |-> st.tables[t].records[i].page, offset |-> st.tables[t].records[i].offset],
           n.mem = Written(st.mem, n.at.page, n.at.offset, Encoded(row, Alignment)),
           n.tables = WithRecords(st.tables, t,
                          remove(st.tables[t].records, st.tables[t].records[i], Footprint(row.len)))
    PROVE  Stores(n, L, row)
<1> DEFINE new == At(n, row)
           seg == st.tables[t].records[i]
           left == remove(st.tables[t].records, st.tables[t].records[i], Footprint(row.len))
<1>1. /\ Sound(st.tables) /\ st.tables \in Seq(SegmentTable) /\ GoodSegment(seg)
      /\ Space(st.ledger, st.tables, L) /\ SoundRows(L) /\ Memory(st.mem, L)
      /\ Owners(st.ledger, st.tables, st.pool) /\ Good(st.tables[t].records)
  BY DEF Keeps, Space, Sound, Good
<1>2. /\ seg.page \in PageIds /\ seg.offset \in Nat /\ Slot(seg.offset)
      /\ End(seg) <= PageSize /\ End(seg) = seg.offset + AlignUp(seg.size) /\ AlignUp(seg.size) \in Nat
  BY <1>1, SegmentFields DEF GoodSegment, End
<1>3. row.len \in Nat /\ Footprint(row.len) \in Nat
  <2>1. row.len \in Nat
    BY DEF Body
  <2> QED
    BY <2>1, FootprintSlot
<1>4. seg.offset + Footprint(row.len) <= PageSize
  BY <1>2, <1>3, LayoutAssumption
<1>5. /\ new \in Row /\ new.page = seg.page /\ new.offset = seg.offset /\ new.len = row.len
      /\ GoodSegment(Piece(new)) /\ Encoded(new, Alignment) = Encoded(row, Alignment)
  BY <1>2, <1>4, AtFields
<1> HIDE DEF new
<1>6. /\ Piece(new).page = seg.page /\ Piece(new).offset = seg.offset
      /\ Piece(new).size = Footprint(row.len) /\ Slot(Piece(new).size) /\ Piece(new).size > 0
      /\ Piece(new).size \in Nat
  BY <1>5, PieceFields
<1>7. Reuses(st.tables, Piece(new), n.tables)
  <2>1. Piece(new).size <= AlignUp(seg.size)
    BY <1>6
  <2>2. Reuses(st.tables, Piece(new),
               WithRecords(st.tables, t, remove(st.tables[t].records, seg, Piece(new).size)))
    BY <1>1, <1>6, <2>1, Reused
  <2> QED
    BY <1>6, <2>2
<1>8. /\ Space(n.ledger, n.tables, L \cup {new}) /\ new \notin L
      /\ \A r \in L : Apart(Piece(r), Piece(new))
  <2>1. Footprint(new.len) <= AlignUp(seg.size)
    BY <1>5
  <2> QED
    BY <1>1, <1>5, <1>7, <2>1, SpaceReused
<1>9. Memory(n.mem, L \cup {new})
  <2>1. \A r \in L : Apart(Piece(r), Piece(new)) /\ Extended(Piece(r))
    BY <1>1, <1>8, PieceFields DEF SoundRows
  <2>2. Memory(Written(st.mem, new.page, new.offset, Encoded(new, Alignment)), L \cup {new})
    BY <1>1, <1>5, <2>1, MemoryWritten
  <2>3. n.at.page = new.page /\ n.at.offset = new.offset
    BY <1>5
  <2> QED
    BY <1>5, <2>2, <2>3
<1>10. Owners(n.ledger, n.tables, n.pool)
  <2>1. left \in Seq(FreeSegment)
    <3>1. Carves(st.tables[t].records, i, Piece(new), remove(st.tables[t].records, seg, Piece(new).size))
      <4>1. Piece(new).size <= AlignUp(seg.size)
        BY <1>6
      <4> QED
        BY <1>1, <1>6, <4>1, Carved
    <3> QED
      BY <1>6, <3>1 DEF Carves, Good
  <2> HIDE DEF left
  <2>2. n.tables = WithRecords(st.tables, t, left)
    BY DEF left
  <2>3. /\ Len(n.tables) = Len(st.tables) /\ DOMAIN n.tables = DOMAIN st.tables
        /\ \A l \in DOMAIN st.tables : n.tables[l].page = st.tables[l].page
    BY <1>1, <2>1, <2>2, RecordsReplaced
  <2> QED
    BY <1>1, <2>3, OwnersKept
<1> QED
  BY <1>8, <1>9, <1>10 DEF Stores, Keeps, new

LEMMA FailRefused ==
    ASSUME NEW st, IsStore(st), st.err = "ok"
    PROVE  Refused(Fail(st, "DataTooLarge")) /\ Fail(st, "DataTooLarge").err # "ok"
<1>1. Fail(st, "DataTooLarge") = [st EXCEPT !.err = "DataTooLarge"]
  BY DEF Fail
<1>2. Fail(st, "DataTooLarge").err = "DataTooLarge"
  BY <1>1 DEF IsStore
<1> QED
  BY <1>2 DEF Refused

\* `n` is `st` but for a segment that was used.
Uses(st, n, t, segment, size) ==
    /\ IsStore(n) /\ n.err = st.err /\ n.mem = st.mem /\ n.ledger = st.ledger
    /\ n.pool = st.pool /\ n.at = st.at
    /\ n.tables = WithRecords(st.tables, t, remove(st.tables[t].records, segment, size))

LEMMA SegmentCommitted ==
    ASSUME NEW st, IsStore(st), st.err = "ok", NEW t, NEW segment, NEW size
    PROVE  Uses(st, commit_reused_space(st, [table |-> t, segment |-> segment], size), t, segment, size)
<1> DEFINE ticket == [table |-> t, segment |-> segment]
           us == WithRecords(st.tables, t, remove(st.tables[t].records, segment, size))
           n == commit_reused_space(st, ticket, size)
<1>1. n = [st EXCEPT !.tables[ticket.table].records = remove(@, ticket.segment, size)]
  BY Zenon DEF commit_reused_space
<1>2. ticket.table = t /\ ticket.segment = segment
  OBVIOUS
<1> HIDE DEF ticket
<1>3. n = [st EXCEPT !.tables = us]
  BY <1>1, <1>2 DEF WithRecords
<1> HIDE DEF us
<1> QED
  BY <1>3 DEF IsStore, Uses, us, ticket

\* TableRegistry::insert with room at the end of a page.
LEMMA TypedAtEnd ==
    ASSUME NEW e, NEW L, Keeps(e, L), NEW row \in Body, ensure_record_fits(row.len, Alignment),
           NEW k, Room(e, k, Footprint(row.len))
    PROVE  Stores(commit(write_at(e, e.at.page, align_up(e.at.offset, Alignment), row),
                         e.at.page, Footprint(row.len), 1), L, row)
<1> DEFINE page == e.ledger[k].page
           offset == Taken(e.ledger[k])
           size == Footprint(row.len)
           w == write_at(e, page, offset, row)
           n == commit(w, page, size, 1)
<1>1. /\ SoundLedger(e.ledger) /\ k \in DOMAIN e.ledger /\ IsStore(e) /\ e.err = "ok"
      /\ e.at = [page |-> page, offset |-> offset] /\ offset + size <= PageSize
  BY DEF Keeps, Space, Room
<1>2. /\ offset \in Nat /\ Slot(offset) /\ e.ledger[k].free \in Nat
      /\ offset + e.ledger[k].free = PageSize
  BY <1>1, TakenNumber
<1>3. row.len \in Nat
  BY DEF Body
<1>4. size \in Nat
  BY <1>3, FootprintSlot
<1>5. e.at.page = page /\ align_up(e.at.offset, Alignment) = offset /\ e.at.offset = offset
  BY <1>1, <1>2, AlignUpFacts DEF AlignUp
<1>6. WritesTo(e, w, page, offset, row)
  BY <1>1, <1>2, <1>3, WrittenTyped
<1> HIDE DEF w
<1>7. Charges(w, n, k, size)
  <2>1. /\ w.ledger = e.ledger /\ IsStore(w) /\ w.err = "ok"
    BY <1>1, <1>6 DEF WritesTo
  <2>2. size <= w.ledger[k].free
    BY <1>1, <1>2, <1>4, <2>1
  <2>3. Charges(w, commit(w, w.ledger[k].page, size, 1), k, size)
    BY <1>1, <1>4, <2>1, <2>2, Committed
  <2> QED
    BY <2>1, <2>3
<1> HIDE DEF n
<1>8. /\ IsStore(n) /\ n.err = "ok" /\ n.tables = e.tables /\ n.pool = e.pool /\ n.at = e.at
      /\ n.mem = Written(e.mem, e.at.page, e.at.offset, Encoded(row, Alignment))
      /\ n.ledger = WithFree(e.ledger, k, e.ledger[k].free - size)
  BY <1>1, <1>5, <1>6, <1>7 DEF WritesTo, Charges
<1>9. Stores(n, L, row)
  BY <1>8, StoredAtEnd
<1> QED
  BY <1>5, <1>9 DEF n, w

\* TableRegistry::insert_raw with room at the end of a page.
LEMMA RawAtEnd ==
    ASSUME NEW e, NEW L, Keeps(e, L), NEW row \in Body, ensure_record_fits(row.len, Alignment),
           NEW k, Room(e, k, Footprint(row.len))
    PROVE  Stores(write_at_raw(commit(e, e.at.page, Footprint(row.len), Alignment),
                               e.at.page, e.at.offset, row, Alignment), L, row)
<1> DEFINE page == e.ledger[k].page
           offset == Taken(e.ledger[k])
           size == Footprint(row.len)
           c == commit(e, page, size, Alignment)
           n == write_at_raw(c, page, offset, row, Alignment)
<1>1. /\ SoundLedger(e.ledger) /\ k \in DOMAIN e.ledger /\ IsStore(e) /\ e.err = "ok"
      /\ e.at = [page |-> page, offset |-> offset] /\ offset + size <= PageSize
  BY DEF Keeps, Space, Room
<1>2. /\ offset \in Nat /\ Slot(offset) /\ e.ledger[k].free \in Nat
      /\ offset + e.ledger[k].free = PageSize
  BY <1>1, TakenNumber
<1>3. row.len \in Nat
  BY DEF Body
<1>4. size \in Nat
  BY <1>3, FootprintSlot
<1>5. e.at.page = page /\ e.at.offset = offset
  BY <1>1
<1>6. Charges(e, c, k, size)
  <2>1. size <= e.ledger[k].free
    BY <1>1, <1>2, <1>4
  <2> QED
    BY <1>1, <1>4, <2>1, Committed
<1> HIDE DEF c
<1>7. WritesTo(c, n, page, offset, row)
  <2>1. IsStore(c)
    BY <1>6 DEF Charges
  <2> QED
    BY <1>1, <1>2, <1>3, <2>1, WrittenRaw
<1> HIDE DEF n
<1>8. /\ IsStore(n) /\ n.err = "ok" /\ n.tables = e.tables /\ n.pool = e.pool /\ n.at = e.at
      /\ n.mem = Written(e.mem, e.at.page, e.at.offset, Encoded(row, Alignment))
      /\ n.ledger = WithFree(e.ledger, k, e.ledger[k].free - size)
  BY <1>1, <1>5, <1>6, <1>7 DEF WritesTo, Charges
<1>9. Stores(n, L, row)
  BY <1>8, StoredAtEnd
<1> QED
  BY <1>5, <1>9 DEF n, c

\* TableRegistry::insert into a free segment.
LEMMA TypedInSegment ==
    ASSUME NEW st, NEW L, Keeps(st, L), NEW row \in Body, ensure_record_fits(row.len, Alignment),
           NEW t \in DOMAIN st.tables, NEW i \in DOMAIN st.tables[t].records,
           NEW seg, seg = st.tables[t].records[i], Footprint(row.len) <= AlignUp(seg.size),
           NEW e, e = [st EXCEPT !.at = [page |-> seg.page, offset |-> seg.offset]]
    PROVE  Stores(commit_reused_space(write_at(e, seg.page, align_up(seg.offset, Alignment), row),
                                      [table |-> t, segment |-> seg], Footprint(row.len)),
                  L, row)
<1> DEFINE size == Footprint(row.len)
           w == write_at(e, seg.page, seg.offset, row)
           n == commit_reused_space(w, [table |-> t, segment |-> seg], size)
<1>1. IsStore(st) /\ st.err = "ok" /\ GoodSegment(seg)
  BY DEF Keeps, Space, Sound, Good
<1>2. /\ IsStore(e) /\ e.err = "ok" /\ e.mem = st.mem /\ e.ledger = st.ledger
      /\ e.tables = st.tables /\ e.pool = st.pool
  BY <1>1 DEF IsStore
<1>3. /\ seg.offset \in Nat /\ Slot(seg.offset) /\ AlignUp(seg.size) \in Nat
      /\ seg.offset + AlignUp(seg.size) <= PageSize
  BY <1>1, SegmentFields DEF GoodSegment, End
<1>4. row.len \in Nat
  BY DEF Body
<1>5. size \in Nat
  BY <1>4, FootprintSlot
<1>6. seg.offset + size <= PageSize /\ align_up(seg.offset, Alignment) = seg.offset
  BY <1>3, <1>5, AlignUpFacts, LayoutAssumption DEF AlignUp
<1>7. WritesTo(e, w, seg.page, seg.offset, row)
  BY <1>2, <1>3, <1>4, <1>6, WrittenTyped
<1> HIDE DEF w
<1>8. Uses(w, n, t, seg, size)
  <2>1. IsStore(w) /\ w.err = "ok"
    BY <1>2, <1>7 DEF WritesTo
  <2> QED
    BY <2>1, SegmentCommitted
<1> HIDE DEF n
<1>9. /\ IsStore(n) /\ n.err = "ok" /\ n.ledger = st.ledger /\ n.pool = st.pool
      /\ n.at = [page |-> seg.page, offset |-> seg.offset]
      /\ n.mem = Written(st.mem, seg.page, seg.offset, Encoded(row, Alignment))
      /\ n.tables = WithRecords(st.tables, t, remove(st.tables[t].records, seg, size))
  BY <1>2, <1>7, <1>8 DEF WritesTo, Uses
<1>10. n.at.page = seg.page /\ n.at.offset = seg.offset
  BY <1>9
<1>11. n.mem = Written(st.mem, n.at.page, n.at.offset, Encoded(row, Alignment))
  BY <1>9, <1>10
<1>12. Stores(n, L, row)
  BY <1>9, <1>11, StoredInSegment
<1> QED
  BY <1>6, <1>12 DEF n, w

\* TableRegistry::insert_raw into a free segment.
LEMMA RawInSegment ==
    ASSUME NEW st, NEW L, Keeps(st, L), NEW row \in Body, ensure_record_fits(row.len, Alignment),
           NEW t \in DOMAIN st.tables, NEW i \in DOMAIN st.tables[t].records,
           NEW seg, seg = st.tables[t].records[i], Footprint(row.len) <= AlignUp(seg.size)
    PROVE  Stores(write_at_raw(commit_reused_space(st, [table |-> t, segment |-> seg],
                                                   Footprint(row.len)),
                               seg.page, seg.offset, row, Alignment), L, row)
<1> DEFINE size == Footprint(row.len)
           c == commit_reused_space(st, [table |-> t, segment |-> seg], size)
           n == write_at_raw(c, seg.page, seg.offset, row, Alignment)
<1>1. IsStore(st) /\ st.err = "ok" /\ GoodSegment(seg)
  BY DEF Keeps, Space, Sound, Good
<1>3. /\ seg.offset \in Nat /\ Slot(seg.offset) /\ AlignUp(seg.size) \in Nat
      /\ seg.offset + AlignUp(seg.size) <= PageSize
  BY <1>1, SegmentFields DEF GoodSegment, End
<1>4. row.len \in Nat
  BY DEF Body
<1>5. size \in Nat
  BY <1>4, FootprintSlot
<1>6. seg.offset + size <= PageSize
  BY <1>3, <1>5, LayoutAssumption
<1>7. Uses(st, c, t, seg, size)
  BY <1>1, SegmentCommitted
<1> HIDE DEF c
<1>8. WritesTo(c, n, seg.page, seg.offset, row)
  <2>1. IsStore(c)
    BY <1>7 DEF Uses
  <2> QED
    BY <1>3, <1>4, <1>6, <2>1, WrittenRaw
<1> HIDE DEF n
<1>9. /\ IsStore(n) /\ n.err = "ok" /\ n.ledger = st.ledger /\ n.pool = st.pool
      /\ n.at = [page |-> seg.page, offset |-> seg.offset]
      /\ n.mem = Written(st.mem, seg.page, seg.offset, Encoded(row, Alignment))
      /\ n.tables = WithRecords(st.tables, t, remove(st.tables[t].records, seg, size))
  BY <1>1, <1>7, <1>8 DEF WritesTo, Uses
<1>10. n.at.page = seg.page /\ n.at.offset = seg.offset
  BY <1>9
<1>11. n.mem = Written(st.mem, n.at.page, n.at.offset, Encoded(row, Alignment))
  BY <1>9, <1>10
<1>12. Stores(n, L, row)
  BY <1>9, <1>11, StoredInSegment
<1> QED
  BY <1>12 DEF n, c

\* TableRegistry::insert.
LEMMA RecordInserted ==
    ASSUME NEW st, NEW L, Keeps(st, L), NEW row \in Body
    PROVE  LET n == InsertRecord(st, row)
           IN  (Refused(n) /\ n.err # "ok") \/ Stores(n, L, row)
<1> DEFINE size == Footprint(row.len)
           ticket == find_reusable_segment(st, RAW_RECORD_HEADER_SIZE + row.len)
           e == get_page_and_offset(st, size, 1)
           n == InsertRecord(st, row)
           position == get_write_position(st, row)
<1>1. IsStore(st) /\ st.err = "ok" /\ Sound(st.tables)
  BY DEF Keeps, Space
<1>2. row.len \in Nat
  BY DEF Body
<1>3. size \in Nat /\ size = AlignUp(1 + row.len)
  BY <1>2, FootprintSlot
<1>4. CASE ~ensure_record_fits(row.len, Alignment)
  <2>1. n = Fail(st, "DataTooLarge")
    BY <1>1, <1>4, Zenon DEF InsertRecord
  <2> QED
    BY <1>1, <2>1, FailRefused
<1>5. CASE ensure_record_fits(row.len, Alignment)
  <2>1. n = IF position.st.err # "ok" THEN position.st
            ELSE post_write(write_at(position.st, position.st.at.page,
                                     align_up(position.st.at.offset, Alignment), row),
                            position.ticket, position.st.at.page, size)
    BY <1>1, <1>5, Zenon DEF InsertRecord, Footprint
  <2>2. /\ position.ticket = ticket
        /\ position.st = IF ticket = <<>> THEN e
                         ELSE [st EXCEPT !.at = [page   |-> ticket[1].segment.page,
                                                 offset |-> ticket[1].segment.offset]]
    BY DEF get_write_position, Footprint
  <2> HIDE DEF position, ticket, n
  <2>3. CASE ticket = <<>>
    <3>1. position.st = e /\ position.ticket = <<>>
      BY <2>2, <2>3
    <3>2. size <= PageSize
      BY <1>3, <1>5, LayoutAssumption DEF ensure_record_fits, MSizeMax, Footprint
    <3>3. \/ Refused(e) /\ e.err # "ok"
          \/ Keeps(e, L) /\ \E k \in DOMAIN e.ledger : Room(e, k, size)
      BY <1>3, <3>2, RoomFound
    <3> HIDE DEF e
    <3>4. CASE Refused(e) /\ e.err # "ok"
      BY <2>1, <3>1, <3>4 DEF n
    <3>5. CASE Keeps(e, L) /\ \E k \in DOMAIN e.ledger : Room(e, k, size)
      <4>1. PICK k : Room(e, k, size)
        BY <3>5
      <4>2. Stores(commit(write_at(e, e.at.page, align_up(e.at.offset, Alignment), row),
                          e.at.page, size, 1), L, row)
        BY <1>5, <3>5, <4>1, TypedAtEnd
      <4>3. e.err = "ok"
        BY <3>5 DEF Keeps
      <4>4. n = commit(write_at(e, e.at.page, align_up(e.at.offset, Alignment), row),
                       e.at.page, size, 1)
        BY <2>1, <3>1, <4>3 DEF post_write
      <4> QED
        BY <4>2, <4>4 DEF n
    <3> QED
      BY <3>3, <3>4, <3>5
  <2>4. CASE ticket # <<>>
    <3>1. 1 + row.len \in Nat /\ RAW_RECORD_HEADER_SIZE + row.len = 1 + row.len
      BY <1>2 DEF RAW_RECORD_HEADER_SIZE
    <3>2. PICK t \in DOMAIN st.tables : \E i \in DOMAIN st.tables[t].records :
             /\ ticket = <<[table |-> t, segment |-> st.tables[t].records[i]]>>
             /\ st.tables[t].records[i].size >= 1 + row.len
      BY <1>1, <2>4, <3>1, SegmentFound DEF ticket
    <3>3. PICK i \in DOMAIN st.tables[t].records :
             /\ ticket = <<[table |-> t, segment |-> st.tables[t].records[i]]>>
             /\ st.tables[t].records[i].size >= 1 + row.len
      BY <3>2
    <3>4. PICK seg : seg = st.tables[t].records[i]
      OBVIOUS
    <3>5. PICK p : p = [st EXCEPT !.at = [page |-> seg.page, offset |-> seg.offset]]
      OBVIOUS
    <3>6. ticket = <<[table |-> t, segment |-> seg]>>
      BY <3>3, <3>4
    <3>7. ticket[1] = [table |-> t, segment |-> seg] /\ ticket[1].segment = seg
      BY <3>6
    <3>8. position.st = p
      BY <2>2, <2>4, <3>5, <3>7
    <3>9. p.at = [page |-> seg.page, offset |-> seg.offset] /\ p.err = "ok"
      BY <1>1, <3>5 DEF IsStore
    <3>10. p.at.page = seg.page /\ p.at.offset = seg.offset
      BY <3>9
    <3>11. size <= AlignUp(seg.size)
      <4>1. GoodSegment(seg)
        BY <1>1, <3>4 DEF Sound, Good
      <4>2. seg.size \in Nat
        BY <4>1, SegmentFields
      <4>3. 1 + row.len <= seg.size
        BY <1>2, <3>3, <3>4, <4>2
      <4> QED
        BY <1>3, <3>1, <4>2, <4>3, AlignUpFacts
    <3>12. Stores(commit_reused_space(write_at(p, seg.page, align_up(seg.offset, Alignment), row),
                                      [table |-> t, segment |-> seg], size), L, row)
      BY <1>5, <3>4, <3>5, <3>11, TypedInSegment
    <3>13. n = commit_reused_space(write_at(p, seg.page, align_up(seg.offset, Alignment), row),
                                   [table |-> t, segment |-> seg], size)
      BY <2>1, <2>2, <2>4, <3>7, <3>8, <3>9, <3>10 DEF post_write
    <3> QED
      BY <3>12, <3>13 DEF n
  <2> QED
    BY <2>3, <2>4 DEF n
<1> QED
  BY <1>4, <1>5

\* TableRegistry::insert_raw, with the alignment of the typed path.
LEMMA RawInserted ==
    ASSUME SnapshotAlignment = Alignment, NEW st, NEW L, Keeps(st, L), NEW row \in Body
    PROVE  LET n == insert_raw(st, row)
           IN  (Refused(n) /\ n.err # "ok") \/ Stores(n, L, row)
<1> DEFINE size == Footprint(row.len)
           ticket == find_reusable_segment(st, size)
           e == get_page_and_offset(st, size, Alignment)
           n == insert_raw(st, row)
<1>1. IsStore(st) /\ st.err = "ok" /\ Sound(st.tables)
  BY DEF Keeps, Space
<1>2. row.len \in Nat
  BY DEF Body
<1>3. size \in Nat
  BY <1>2, FootprintSlot
<1>4. n = CASE st.err # "ok" -> st
            [] st.err = "ok" /\ ~ensure_record_fits(row.len, Alignment) -> Fail(st, "DataTooLarge")
            [] OTHER ->
                 IF ticket # <<>>
                 THEN write_at_raw(commit_reused_space(st, ticket[1], size),
                                   ticket[1].segment.page, ticket[1].segment.offset, row, Alignment)
                 ELSE IF e.err # "ok" THEN e
                 ELSE write_at_raw(commit(e, e.at.page, size, Alignment),
                                   e.at.page, e.at.offset, row, Alignment)
  BY Zenon DEF insert_raw, Footprint
<1> HIDE DEF n, ticket
<1>5. CASE ~ensure_record_fits(row.len, Alignment)
  <2>1. n = Fail(st, "DataTooLarge")
    BY <1>1, <1>4, <1>5, Zenon
  <2> QED
    BY <1>1, <2>1, FailRefused DEF n
<1>6. CASE ensure_record_fits(row.len, Alignment)
  <2>1. CASE ticket = <<>>
    <3>1. n = IF e.err # "ok" THEN e
              ELSE write_at_raw(commit(e, e.at.page, size, Alignment),
                                e.at.page, e.at.offset, row, Alignment)
      BY <1>1, <1>4, <1>6, <2>1, Zenon
    <3>2. size <= PageSize
      BY <1>3, <1>6, LayoutAssumption DEF ensure_record_fits, MSizeMax, Footprint
    <3>3. \/ Refused(e) /\ e.err # "ok"
          \/ Keeps(e, L) /\ \E k \in DOMAIN e.ledger : Room(e, k, size)
      BY <1>3, <3>2, RoomFound
    <3> HIDE DEF e
    <3>4. CASE Refused(e) /\ e.err # "ok"
      BY <3>1, <3>4 DEF n
    <3>5. CASE Keeps(e, L) /\ \E k \in DOMAIN e.ledger : Room(e, k, size)
      <4>1. PICK k : Room(e, k, size)
        BY <3>5
      <4>2. Stores(write_at_raw(commit(e, e.at.page, size, Alignment),
                                e.at.page, e.at.offset, row, Alignment), L, row)
        BY <1>6, <3>5, <4>1, RawAtEnd
      <4>3. e.err = "ok"
        BY <3>5 DEF Keeps
      <4> QED
        BY <3>1, <4>2, <4>3 DEF n
    <3> QED
      BY <3>3, <3>4, <3>5
  <2>2. CASE ticket # <<>>
    <3>1. n = write_at_raw(commit_reused_space(st, ticket[1], size),
                           ticket[1].segment.page, ticket[1].segment.offset, row, Alignment)
      BY <1>1, <1>4, <1>6, <2>2, Zenon
    <3>2. PICK t \in DOMAIN st.tables : \E i \in DOMAIN st.tables[t].records :
             /\ ticket = <<[table |-> t, segment |-> st.tables[t].records[i]]>>
             /\ st.tables[t].records[i].size >= size
      BY <1>1, <1>3, <2>2, SegmentFound DEF ticket
    <3>3. PICK i \in DOMAIN st.tables[t].records :
             /\ ticket = <<[table |-> t, segment |-> st.tables[t].records[i]]>>
             /\ st.tables[t].records[i].size >= size
      BY <3>2
    <3>4. PICK seg : seg = st.tables[t].records[i]
      OBVIOUS
    <3>5. ticket = <<[table |-> t, segment |-> seg]>>
      BY <3>3, <3>4
    <3>6. ticket[1] = [table |-> t, segment |-> seg] /\ ticket[1].segment = seg
      BY <3>5
    <3>7. size <= AlignUp(seg.size)
      <4>1. GoodSegment(seg)
        BY <1>1, <3>4 DEF Sound, Good
      <4>2. seg.size \in Nat /\ AlignUp(seg.size) \in Nat /\ seg.size <= AlignUp(seg.size)
        BY <4>1, SegmentFields
      <4> QED
        BY <1>3, <3>3, <3>4, <4>2
    <3>8. Stores(write_at_raw(commit_reused_space(st, [table |-> t, segment |-> seg], size),
                              seg.page, seg.offset, row, Alignment), L, row)
      BY <1>6, <3>4, <3>7, RawInSegment
    <3> QED
      BY <3>1, <3>6, <3>8 DEF n
  <2> QED
    BY <2>1, <2>2
<1> QED
  BY <1>5, <1>6

-----------------------------------------------------------------------------
(* Reading a page                                                          *)

\* `s` holds the elements of S, each once.
Enumerates(E, s, S) ==
    /\ s \in Seq(E) /\ ToSet(s) = S
    /\ \A i, j \in DOMAIN s : s[i] = s[j] => i = j

Lists(s, S) == Enumerates(Row, s, S)

LEMMA EnumerationJoined ==
    ASSUME NEW E, NEW s, NEW S, Enumerates(E, s, S), NEW t, NEW T, Enumerates(E, t, T), S \cap T = {}
    PROVE  Enumerates(E, s \o t, S \cup T)
<1> DEFINE u == s \o t
<1>1. /\ s \in Seq(E) /\ t \in Seq(E) /\ Len(s) \in Nat /\ Len(t) \in Nat
      /\ DOMAIN s = 1..Len(s) /\ DOMAIN t = 1..Len(t)
  BY DEF Enumerates
<1>2. /\ u \in Seq(E) /\ DOMAIN u = 1..Len(s) + Len(t)
      /\ \A k \in 1..Len(s) : u[k] = s[k]
      /\ \A k \in 1..Len(t) : u[Len(s) + k] = t[k]
  BY <1>1
<1> HIDE DEF u
<1>3. S = {s[k] : k \in DOMAIN s} /\ T = {t[k] : k \in DOMAIN t}
  BY DEF Enumerates, ToSet
<1>4. ASSUME NEW k \in DOMAIN u
      PROVE  \/ k \in DOMAIN s /\ u[k] = s[k] /\ u[k] \in S
             \/ k - Len(s) \in DOMAIN t /\ u[k] = t[k - Len(s)] /\ u[k] \in T /\ k > Len(s)
  <2>1. CASE k <= Len(s)
    BY <1>1, <1>2, <1>3, <2>1
  <2>2. CASE k > Len(s)
    <3>1. k - Len(s) \in 1..Len(t) /\ Len(s) + (k - Len(s)) = k
      BY <1>1, <1>2, <2>2
    <3>2. u[k] = t[k - Len(s)]
      BY <1>2, <3>1
    <3> QED
      BY <1>1, <1>3, <2>2, <3>1, <3>2
  <2> QED
    BY <1>1, <1>2, <2>1, <2>2
<1>5. {u[k] : k \in DOMAIN u} = S \cup T
  <2>1. \A k \in DOMAIN u : u[k] \in S \cup T
    BY <1>4
  <2>2. ASSUME NEW x \in S
        PROVE  \E k \in DOMAIN u : u[k] = x
    <3>1. PICK k \in DOMAIN s : x = s[k]
      BY <1>3
    <3>2. k \in DOMAIN u /\ u[k] = s[k]
      BY <1>1, <1>2, <3>1
    <3> QED
      BY <3>1, <3>2
  <2>3. ASSUME NEW x \in T
        PROVE  \E k \in DOMAIN u : u[k] = x
    <3>1. PICK k \in DOMAIN t : x = t[k]
      BY <1>3
    <3>2. Len(s) + k \in DOMAIN u /\ u[Len(s) + k] = t[k]
      BY <1>1, <1>2, <3>1
    <3> QED
      BY <3>1, <3>2
  <2> QED
    BY <2>1, <2>2, <2>3
<1>6. ASSUME NEW k \in DOMAIN u, NEW l \in DOMAIN u, u[k] = u[l]
      PROVE  k = l
  <2>1. k \in Nat /\ l \in Nat
    BY <1>1, <1>2
  <2>2. CASE u[k] \in S
    <3>1. k \in DOMAIN s /\ l \in DOMAIN s /\ s[k] = s[l]
      BY <1>4, <1>6, <2>2
    <3> QED
      BY <3>1 DEF Enumerates
  <2>3. CASE u[k] \notin S
    <3>1. k - Len(s) \in DOMAIN t /\ l - Len(s) \in DOMAIN t /\ t[k - Len(s)] = t[l - Len(s)]
      BY <1>4, <1>6, <2>3
    <3>2. k - Len(s) = l - Len(s)
      BY <3>1 DEF Enumerates
    <3> QED
      BY <1>1, <2>1, <3>2
  <2> QED
    BY <2>2, <2>3
<1> QED
  BY <1>2, <1>5, <1>6 DEF Enumerates, ToSet, u

LEMMA ListsJoined ==
    ASSUME NEW s, NEW S, Lists(s, S), NEW t, NEW T, Lists(t, T), S \cap T = {}
    PROVE  Lists(s \o t, S \cup T)
BY EnumerationJoined DEF Lists

LEMMA ListsOne ==
    ASSUME NEW r \in Row
    PROVE  Lists(<<r>>, {r}) /\ Lists(<<>>, {})
<1>1. <<r>> \in Seq(Row) /\ DOMAIN <<r>> = {1} /\ <<r>>[1] = r
  OBVIOUS
<1>2. <<>> \in Seq(Row) /\ DOMAIN <<>> = {}
  OBVIOUS
<1> QED
  BY <1>1, <1>2 DEF Lists, Enumerates, ToSet

LEMMA ListsNone == Lists(<<>>, {})
<1>1. <<>> \in Seq(Row) /\ DOMAIN <<>> = {}
  OBVIOUS
<1> QED
  BY <1>1 DEF Lists, Enumerates, ToSet

Top == 2 * (PageSize + Alignment)

PageCells(cells) == cells \in [Cells -> Nat]

\* What the reader does at an offset, with f for the rest of the page.
Step(f, cells, page, offset) == RowsAt(f, cells, page, Alignment, offset)

\* f is the reader from the offset n on.
Walks(f, cells, page, n) == f = [offset \in n..Top |-> Step(f, cells, page, offset)]

LEMMA StepPlace ==
    ASSUME NEW cells, PageCells(cells), NEW offset \in Nat, NEW o, o = AlignUp(offset)
    PROVE  /\ o \in Nat /\ offset <= o
           /\ o < PageSize => /\ o \in Cells /\ cells[o] \in Nat
                              /\ o + Alignment \in offset + 1..Top
                              /\ o + 1 + cells[o] <= PageSize
                                   => o + 1 + cells[o] \in offset + 1..Top
<1>1. PageSize \in Nat \ {0} /\ Alignment \in Nat \ {0}
  BY LayoutAssumption
<1>2. o \in Nat /\ offset <= o
  BY AlignUpLeast
<1>3. o < PageSize => o \in Cells
  BY <1>1, <1>2 DEF Cells
<1>4. o < PageSize => cells[o] \in Nat
  BY <1>3 DEF PageCells
<1> QED
  BY <1>1, <1>2, <1>3, <1>4 DEF Top

\* Past the page, on an empty slot, on a length that runs past the page, and
\* on a record.
LEMMA StepOut ==
    ASSUME NEW f, NEW cells, NEW page, NEW offset, NEW o \in Nat, o = AlignUp(offset),
           o >= PageSize
    PROVE  Step(f, cells, page, offset) = <<>>
<1>1. PageSize \in Nat
  BY LayoutAssumption
<1>2. o + 1 > PageSize /\ o = align_up(offset, Alignment) /\ RAW_RECORD_HEADER_SIZE = 1
  BY <1>1 DEF AlignUp, RAW_RECORD_HEADER_SIZE
<1>3. o + RAW_RECORD_HEADER_SIZE > PageSize /\ ~(o + RAW_RECORD_HEADER_SIZE <= PageSize)
  BY <1>1, <1>2
<1> QED
  BY <1>2, <1>3, Zenon DEF Step, RowsAt

LEMMA StepEmpty ==
    ASSUME NEW f, NEW cells, NEW page, NEW offset, NEW o \in Nat, o = AlignUp(offset),
           o < PageSize, cells[o] = 0
    PROVE  Step(f, cells, page, offset) = f[o + Alignment]
<1>1. PageSize \in Nat
  BY LayoutAssumption
<1>2. o + 1 <= PageSize /\ o = align_up(offset, Alignment) /\ RAW_RECORD_HEADER_SIZE = 1
  BY <1>1 DEF AlignUp, RAW_RECORD_HEADER_SIZE
<1>3. o + RAW_RECORD_HEADER_SIZE <= PageSize /\ ~(o + RAW_RECORD_HEADER_SIZE > PageSize)
  BY <1>1, <1>2
<1> QED
  BY <1>2, <1>3, Zenon DEF Step, RowsAt

LEMMA StepLong ==
    ASSUME NEW f, NEW cells, NEW page, NEW offset, NEW o \in Nat, o = AlignUp(offset),
           o < PageSize, cells[o] # 0, o + 1 + cells[o] > PageSize
    PROVE  Step(f, cells, page, offset)
             = <<[page |-> page, offset |-> o, len |-> cells[o], fill |-> -1]>>
<1>1. PageSize \in Nat
  BY LayoutAssumption
<1>2. o + 1 <= PageSize /\ o = align_up(offset, Alignment) /\ RAW_RECORD_HEADER_SIZE = 1
  BY <1>1 DEF AlignUp, RAW_RECORD_HEADER_SIZE
<1>3. /\ o + RAW_RECORD_HEADER_SIZE <= PageSize /\ ~(o + RAW_RECORD_HEADER_SIZE > PageSize)
      /\ o + RAW_RECORD_HEADER_SIZE + cells[o] > PageSize
  BY <1>1, <1>2
<1> QED
  BY <1>2, <1>3, Zenon DEF Step, RowsAt

RowHere(cells, page, o) == [page |-> page, offset |-> o, len |-> cells[o], fill |-> cells[o + 1]]

Ahead(row, rest) == <<row>> \o rest

LEMMA StepRow ==
    ASSUME NEW f, NEW cells, NEW page, NEW offset, NEW o \in Nat, o = AlignUp(offset),
           o < PageSize, cells[o] # 0, ~(o + 1 + cells[o] > PageSize)
    PROVE  Step(f, cells, page, offset) = Ahead(RowHere(cells, page, o), f[o + 1 + cells[o]])
<1>1. PageSize \in Nat
  BY LayoutAssumption
<1>2. o + 1 <= PageSize /\ o = align_up(offset, Alignment) /\ RAW_RECORD_HEADER_SIZE = 1
  BY <1>1 DEF AlignUp, RAW_RECORD_HEADER_SIZE
<1>3. /\ o + RAW_RECORD_HEADER_SIZE <= PageSize /\ ~(o + RAW_RECORD_HEADER_SIZE > PageSize)
      /\ ~(o + RAW_RECORD_HEADER_SIZE + cells[o] > PageSize)
      /\ o + 1 + cells[o] = o + RAW_RECORD_HEADER_SIZE + cells[o]
  BY <1>1, <1>2
<1> QED
  BY <1>2, <1>3, Zenon DEF Step, RowsAt, RowHere, Ahead

LEMMA StepAgrees ==
    ASSUME NEW f, NEW g, NEW cells, PageCells(cells), NEW page, NEW offset \in Nat,
           \A x \in offset + 1..Top : f[x] = g[x]
    PROVE  Step(f, cells, page, offset) = Step(g, cells, page, offset)
<1>1. PICK o : o = AlignUp(offset)
  OBVIOUS
<1>2. /\ o \in Nat /\ PageSize \in Nat
      /\ o < PageSize => /\ cells[o] \in Nat /\ o + Alignment \in offset + 1..Top
                         /\ o + 1 + cells[o] <= PageSize => o + 1 + cells[o] \in offset + 1..Top
  BY <1>1, StepPlace, LayoutAssumption
<1>3. CASE o >= PageSize
  BY <1>1, <1>2, <1>3, StepOut
<1>4. CASE o < PageSize
  <2>1. CASE cells[o] = 0
    <3>1. Step(f, cells, page, offset) = f[o + Alignment] /\ Step(g, cells, page, offset) = g[o + Alignment]
      BY <1>1, <1>2, <1>4, <2>1, StepEmpty
    <3> QED
      BY <1>2, <1>4, <3>1
  <2>2. CASE cells[o] # 0 /\ o + 1 + cells[o] > PageSize
    <3> DEFINE long == <<[page |-> page, offset |-> o, len |-> cells[o], fill |-> -1]>>
    <3>1. Step(f, cells, page, offset) = long /\ Step(g, cells, page, offset) = long
      BY <1>1, <1>2, <1>4, <2>2, StepLong
    <3> QED
      BY <3>1
  <2>3. CASE cells[o] # 0 /\ o + 1 + cells[o] <= PageSize
    <3>1. ~(o + 1 + cells[o] > PageSize) /\ f[o + 1 + cells[o]] = g[o + 1 + cells[o]]
      BY <1>2, <1>4, <2>3
    <3>2. Step(f, cells, page, offset) = Ahead(RowHere(cells, page, o), f[o + 1 + cells[o]])
      BY <1>1, <1>2, <1>4, <2>3, <3>1, StepRow
    <3>3. Step(g, cells, page, offset) = Ahead(RowHere(cells, page, o), g[o + 1 + cells[o]])
      BY <1>1, <1>2, <1>4, <2>3, <3>1, StepRow
    <3> QED
      BY <3>1, <3>2, <3>3
  <2> QED
    BY <1>2, <1>4, <2>1, <2>2, <2>3
<1> QED
  BY <1>2, <1>3, <1>4

LEMMA WalkGrows ==
    ASSUME NEW cells, PageCells(cells), NEW page, NEW n \in Nat, n <= Top,
           NEW f, Walks(f, cells, page, n + 1)
    PROVE  \E g : Walks(g, cells, page, n)
<1> DEFINE g == [x \in n..Top |-> IF x = n THEN Step(f, cells, page, n) ELSE f[x]]
<1>1. Top \in Nat
  BY LayoutAssumption DEF Top
<1>2. \A x \in n + 1..Top : x \in n..Top /\ x # n
  BY <1>1
<1>3. \A x \in n + 1..Top : g[x] = f[x] /\ f[x] = Step(f, cells, page, x)
  BY <1>2 DEF Walks
<1>4. n \in n..Top /\ g[n] = Step(f, cells, page, n)
  BY <1>1
<1>5. DOMAIN g = n..Top /\ g = [x \in n..Top |-> g[x]]
  OBVIOUS
<1> HIDE DEF g
<1>6. ASSUME NEW x \in n..Top
      PROVE  g[x] = Step(g, cells, page, x)
  <2>1. \A y \in x + 1..Top : f[y] = g[y]
    <3>1. \A y \in x + 1..Top : y \in n + 1..Top
      BY <1>1
    <3> QED
      BY <1>3, <3>1
  <2>2. x \in Nat
    BY <1>1
  <2>3. Step(f, cells, page, x) = Step(g, cells, page, x)
    BY <2>1, <2>2, StepAgrees
  <2>4. x = n \/ x \in n + 1..Top
    BY <1>1
  <2> QED
    BY <1>3, <1>4, <2>3, <2>4
<1>7. Walks(g, cells, page, n)
  BY <1>5, <1>6 DEF Walks
<1> QED
  BY <1>7

LEMMA WalkDefined ==
    ASSUME NEW cells, PageCells(cells), NEW page
    PROVE  \E f : Walks(f, cells, page, 0)
<1> DEFINE Missing == {d \in Nat : d <= Top + 1 /\ ~\E f : Walks(f, cells, page, Top + 1 - d)}
<1>1. Top \in Nat
  BY LayoutAssumption DEF Top
<1>2. Missing = {}
  <2> SUFFICES ASSUME Missing # {} PROVE FALSE
    OBVIOUS
  <2>1. PICK d \in Missing : \A e \in Missing : d <= e
    BY LeastNatural
  <2>2. d # 0
    <3> SUFFICES ASSUME d = 0 PROVE FALSE
      OBVIOUS
    <3> DEFINE f == [x \in {} |-> <<>>]
    <3>1. (Top + 1)..Top = {} /\ Top + 1 - 0 = Top + 1
      BY <1>1
    <3>2. Walks(f, cells, page, Top + 1)
      BY <3>1 DEF Walks
    <3> HIDE DEF f
    <3> QED
      BY <3>1, <3>2
  <2>3. d - 1 \in Nat /\ d - 1 \notin Missing /\ d - 1 <= Top + 1
    BY <1>1, <2>1, <2>2
  <2>4. PICK f : Walks(f, cells, page, Top + 1 - (d - 1))
    BY <2>3
  <2>5. Top + 1 - d \in Nat /\ Top + 1 - (d - 1) = (Top + 1 - d) + 1 /\ Top + 1 - d <= Top
    BY <1>1, <2>1, <2>2
  <2>6. \E g : Walks(g, cells, page, Top + 1 - d)
    BY <2>4, <2>5, WalkGrows
  <2> QED
    BY <2>6
<1>3. Top + 1 \in Nat /\ Top + 1 <= Top + 1 /\ Top + 1 - (Top + 1) = 0
  BY <1>1
<1> HIDE DEF Missing
<1>4. Top + 1 \notin Missing
  BY <1>2
<1> QED
  BY <1>3, <1>4 DEF Missing

\* RowsFrom is such a reader.
LEMMA RowsFromWalks ==
    ASSUME NEW page, PageCells(mem[page])
    PROVE  \E f : Walks(f, mem[page], page, 0) /\ RowsFrom(page, Alignment) = f[0]
<1> DEFINE F == CHOOSE f : Walks(f, mem[page], page, 0)
<1>1. \E f : Walks(f, mem[page], page, 0)
  BY WalkDefined
<1>2. Walks(F, mem[page], page, 0)
  BY <1>1
<1>3. RowsFrom(page, Alignment) = F[0]
  BY Zenon DEF RowsFrom, Walks, Step, Top
<1> QED
  BY <1>2, <1>3

\* No row of the page is cut at an offset: each lies before it or from it on.
Border(L, p, o) == \A r \in L : r.page = p => r.offset >= o \/ End(Piece(r)) <= o

RowsOn(L, p, o) == {r \in L : r.page = p /\ r.offset >= o}

LEMMA RowFields ==
    ASSUME NEW L, SoundRows(L), NEW r \in L
    PROVE  /\ r \in Row /\ r.page \in PageIds /\ r.offset \in Nat /\ r.offset \in Cells
           /\ r.len \in Nat /\ r.len > 0 /\ r.fill \in Nat
           /\ Piece(r).page = r.page /\ Piece(r).offset = r.offset
           /\ Footprint(r.len) \in Nat /\ 1 + r.len <= Footprint(r.len)
           /\ End(Piece(r)) = r.offset + Footprint(r.len) /\ End(Piece(r)) \in Nat
           /\ End(Piece(r)) <= PageSize /\ Slot(r.offset)
<1>1. r \in Row /\ GoodSegment(Piece(r))
  BY DEF SoundRows
<1>2. /\ r.page \in PageIds /\ r.offset \in Nat /\ r.offset \in Cells
      /\ r.len \in Nat /\ r.len > 0 /\ r.fill \in Nat
      /\ Piece(r).page = r.page /\ Piece(r).offset = r.offset
      /\ Footprint(r.len) \in Nat /\ 1 + r.len <= Footprint(r.len)
      /\ End(Piece(r)) = r.offset + Footprint(r.len)
  BY <1>1, PieceFields
<1>3. End(Piece(r)) <= PageSize /\ Slot(Piece(r).offset)
  BY <1>1 DEF GoodSegment
<1> QED
  BY <1>1, <1>2, <1>3

\* A length found at a border is the header of a row.
LEMMA HeaderFound ==
    ASSUME NEW m, NEW L, Memory(m, L), SoundRows(L), NEW p \in PageIds, NEW o \in Cells,
           Border(L, p, o), m[p][o] # 0
    PROVE  \E r \in L : /\ r.page = p /\ r.offset = o /\ m[p][o] = r.len /\ m[p][o + 1] = r.fill
<1>1. o \in Nat /\ PageSize \in Nat
  BY LayoutAssumption DEF Cells
<1>2. PICK r \in L : In(Piece(r), p, o)
  BY DEF Memory, InRow
<1>3. /\ r.page \in PageIds /\ r.offset \in Nat /\ r.len \in Nat /\ r.len > 0
      /\ Piece(r).page = r.page /\ Piece(r).offset = r.offset
      /\ Footprint(r.len) \in Nat /\ 1 + r.len <= Footprint(r.len)
      /\ End(Piece(r)) = r.offset + Footprint(r.len) /\ End(Piece(r)) <= PageSize
  BY RowFields
<1>4. r.page = p /\ r.offset = o
  <2>1. r.page = p /\ r.offset <= o /\ o < End(Piece(r))
    BY <1>2, <1>3 DEF In
  <2>2. r.offset >= o \/ End(Piece(r)) <= o
    BY <2>1 DEF Border
  <2> QED
    BY <1>1, <1>3, <2>1, <2>2
<1>5. m[p][o] = CellOf(r, o)
  BY <1>2 DEF Memory
<1>6. o + 1 \in Cells /\ In(Piece(r), p, o + 1)
  BY <1>1, <1>3, <1>4 DEF In, Cells
<1>7. m[p][o + 1] = CellOf(r, o + 1)
  BY <1>6 DEF Memory
<1>8. CellOf(r, o) = r.len /\ CellOf(r, o + 1) = r.fill
  BY <1>1, <1>3, <1>4 DEF CellOf
<1> QED
  BY <1>4, <1>5, <1>7, <1>8

\* Behind an empty slot the page goes on with the next one.
LEMMA SlotPassed ==
    ASSUME NEW m, NEW L, Memory(m, L), SoundRows(L), NEW p \in PageIds, NEW o \in Cells, Slot(o),
           Border(L, p, o), m[p][o] = 0
    PROVE  Border(L, p, o + Alignment) /\ RowsOn(L, p, o) = RowsOn(L, p, o + Alignment)
<1>1. o \in Nat /\ Alignment \in Nat
  BY LayoutAssumption DEF Cells
<1>2. ASSUME NEW r \in L, r.page = p
      PROVE  /\ r.offset >= o => r.offset >= o + Alignment
             /\ r.offset >= o + Alignment => r.offset >= o
             /\ End(Piece(r)) <= o => End(Piece(r)) <= o + Alignment
  <2>1. /\ r.offset \in Nat /\ r.len \in Nat /\ r.len > 0 /\ Slot(r.offset)
        /\ Piece(r).page = r.page /\ Piece(r).offset = r.offset
        /\ Footprint(r.len) \in Nat /\ 1 + r.len <= Footprint(r.len)
        /\ End(Piece(r)) = r.offset + Footprint(r.len) /\ End(Piece(r)) \in Nat
    BY RowFields
  <2>2. r.offset # o
    <3> SUFFICES ASSUME r.offset = o PROVE FALSE
      OBVIOUS
    <3>1. In(Piece(r), p, o)
      BY <1>1, <1>2, <2>1 DEF In
    <3>2. m[p][o] = CellOf(r, o)
      BY <3>1 DEF Memory
    <3>3. CellOf(r, o) = r.len
      BY DEF CellOf
    <3> QED
      BY <2>1, <3>2, <3>3
  <2>3. o < r.offset => o + Alignment <= r.offset
    BY <1>1, <2>1, SlotGap
  <2> QED
    BY <1>1, <2>1, <2>2, <2>3
<1> QED
  BY <1>2 DEF Border, RowsOn

\* Behind a row the page goes on where the row ends.
LEMMA RowPassed ==
    ASSUME NEW L, SoundRows(L), NEW r \in L
    PROVE  /\ Border(L, r.page, End(Piece(r)))
           /\ RowsOn(L, r.page, r.offset) = {r} \cup RowsOn(L, r.page, End(Piece(r)))
           /\ {r} \cap RowsOn(L, r.page, End(Piece(r))) = {}
           /\ AlignUp(r.offset + 1 + r.len) = End(Piece(r))
<1>1. /\ r.offset \in Nat /\ r.len \in Nat /\ r.len > 0 /\ Slot(r.offset)
      /\ Piece(r).page = r.page /\ Piece(r).offset = r.offset
      /\ Footprint(r.len) \in Nat /\ 1 + r.len <= Footprint(r.len)
      /\ End(Piece(r)) = r.offset + Footprint(r.len) /\ End(Piece(r)) \in Nat
  BY RowFields
<1>2. ASSUME NEW s \in L, s.page = r.page, s # r
      PROVE  /\ s.offset >= End(Piece(r)) \/ End(Piece(s)) <= r.offset
             /\ s.offset \in Nat /\ End(Piece(s)) \in Nat /\ s.offset < End(Piece(s))
  <2>1. /\ s.offset \in Nat /\ s.len \in Nat /\ Piece(s).page = s.page /\ Piece(s).offset = s.offset
        /\ Footprint(s.len) \in Nat /\ 1 + s.len <= Footprint(s.len)
        /\ End(Piece(s)) = s.offset + Footprint(s.len) /\ End(Piece(s)) \in Nat
    BY RowFields
  <2>2. Apart(Piece(r), Piece(s))
    BY <1>2 DEF SoundRows
  <2>3. End(Piece(r)) <= s.offset \/ End(Piece(s)) <= r.offset
    BY <1>1, <1>2, <2>1, <2>2 DEF Apart
  <2> QED
    BY <1>1, <2>1, <2>3
<1>3. r.offset < End(Piece(r))
  BY <1>1
<1>4. Border(L, r.page, End(Piece(r)))
  <2>1. ASSUME NEW s \in L, s.page = r.page
        PROVE  s.offset >= End(Piece(r)) \/ End(Piece(s)) <= End(Piece(r))
    <3>1. CASE s = r
      BY <1>1, <3>1
    <3>2. CASE s # r
      BY <1>1, <1>2, <1>3, <2>1, <3>2
    <3> QED
      BY <3>1, <3>2
  <2> QED
    BY <2>1 DEF Border
<1>5. RowsOn(L, r.page, r.offset) = {r} \cup RowsOn(L, r.page, End(Piece(r)))
  <2>1. ASSUME NEW s \in L, s.page = r.page
        PROVE  s.offset >= r.offset <=> s = r \/ s.offset >= End(Piece(r))
    <3>1. CASE s = r
      BY <1>1, <3>1
    <3>2. CASE s # r
      BY <1>1, <1>2, <1>3, <2>1, <3>2
    <3> QED
      BY <3>1, <3>2
  <2> QED
    BY <2>1 DEF RowsOn
<1>6. r \notin RowsOn(L, r.page, End(Piece(r)))
  BY <1>1, <1>3 DEF RowsOn
<1>7. AlignUp(r.offset + (1 + r.len)) = r.offset + AlignUp(1 + r.len)
  BY <1>1, AlignUpFacts
<1>8. Footprint(r.len) = AlignUp(1 + r.len)
  BY <1>1, FootprintSlot
<1>9. r.offset + (1 + r.len) = r.offset + 1 + r.len
  BY <1>1
<1> QED
  BY <1>1, <1>4, <1>5, <1>6, <1>7, <1>8, <1>9

\* From an offset on, the reader finds the rows of the page.
Reads(f, L, p, x) == Border(L, p, AlignUp(x)) => Lists(f[x], RowsOn(L, p, AlignUp(x)))

LEMMA ReadsStep ==
    ASSUME NEW m, NEW L, Memory(m, L), SoundRows(L), NEW p \in PageIds,
           NEW cells, cells = m[p], NEW f, Walks(f, cells, p, 0), NEW x \in 0..Top,
           \A y \in x + 1..Top : Reads(f, L, p, y)
    PROVE  Reads(f, L, p, x)
<1> SUFFICES ASSUME Border(L, p, AlignUp(x)) PROVE Lists(f[x], RowsOn(L, p, AlignUp(x)))
  BY DEF Reads
<1>1. /\ Top \in Nat /\ PageSize \in Nat /\ Alignment \in Nat \ {0} /\ x \in Nat
  BY LayoutAssumption DEF Top
<1>2. PICK o : o = AlignUp(x)
  OBVIOUS
<1>3. PageCells(cells)
  BY DEF Memory, PageCells
<1>4. /\ o \in Nat
      /\ o < PageSize => /\ o \in Cells /\ cells[o] \in Nat
                         /\ o + Alignment \in x + 1..Top
                         /\ o + 1 + cells[o] <= PageSize => o + 1 + cells[o] \in x + 1..Top
  BY <1>1, <1>2, <1>3, StepPlace
<1>5. Slot(o)
  BY <1>1, <1>2, AlignUpLeast
<1>6. f[x] = Step(f, cells, p, x)
  BY DEF Walks
<1>7. CASE o >= PageSize
  <2>1. f[x] = <<>>
    BY <1>2, <1>4, <1>6, <1>7, StepOut
  <2>2. RowsOn(L, p, o) = {}
    <3>1. ASSUME NEW r \in L
          PROVE  ~(r.offset >= o)
      <4>1. r.offset \in Cells
        BY RowFields
      <4> QED
        BY <1>1, <1>4, <1>7, <4>1 DEF Cells
    <3> QED
      BY <3>1 DEF RowsOn
  <2> QED
    BY <1>2, <2>1, <2>2, ListsNone
<1>8. CASE o < PageSize /\ cells[o] = 0
  <2>1. f[x] = f[o + Alignment]
    BY <1>2, <1>4, <1>6, <1>8, StepEmpty
  <2>2. Border(L, p, o + Alignment) /\ RowsOn(L, p, o) = RowsOn(L, p, o + Alignment)
    BY <1>2, <1>4, <1>5, <1>8, SlotPassed
  <2>3. AlignUp(o + Alignment) = o + Alignment
    <3>1. Slot(o + Alignment) /\ o + Alignment \in Nat
      BY <1>1, <1>4, <1>5, SlotAlignment, SlotSum
    <3> QED
      BY <3>1, AlignUpFacts
  <2>4. Reads(f, L, p, o + Alignment)
    BY <1>4, <1>8
  <2>5. Lists(f[o + Alignment], RowsOn(L, p, o + Alignment))
    BY <2>2, <2>3, <2>4 DEF Reads
  <2> QED
    BY <1>2, <2>1, <2>2, <2>5
<1>9. CASE o < PageSize /\ cells[o] # 0
  <2>1. PICK r \in L : r.page = p /\ r.offset = o /\ cells[o] = r.len /\ cells[o + 1] = r.fill
    BY <1>2, <1>4, <1>9, HeaderFound
  <2>2. /\ r \in Row /\ r.offset \in Nat /\ r.len \in Nat
        /\ Footprint(r.len) \in Nat /\ 1 + r.len <= Footprint(r.len)
        /\ End(Piece(r)) = r.offset + Footprint(r.len) /\ End(Piece(r)) <= PageSize
    BY RowFields
  <2>3. PICK next : next = o + 1 + cells[o]
    OBVIOUS
  <2>4. next <= PageSize /\ ~(next > PageSize)
    BY <1>1, <2>1, <2>2, <2>3
  <2>5. f[x] = Ahead(RowHere(cells, p, o), f[next])
    BY <1>2, <1>4, <1>6, <1>9, <2>3, <2>4, StepRow
  <2>6. RowHere(cells, p, o) = r
    BY <2>1, <2>2 DEF RowHere, Row
  <2>7. /\ Border(L, p, End(Piece(r)))
        /\ RowsOn(L, p, o) = {r} \cup RowsOn(L, p, End(Piece(r)))
        /\ {r} \cap RowsOn(L, p, End(Piece(r))) = {}
        /\ AlignUp(next) = End(Piece(r))
    BY <2>1, <2>3, RowPassed
  <2>8. Reads(f, L, p, next)
    BY <1>4, <1>9, <2>3, <2>4
  <2>9. Lists(f[next], RowsOn(L, p, End(Piece(r))))
    BY <2>7, <2>8 DEF Reads
  <2>10. Lists(<<r>>, {r})
    BY <2>2, ListsOne
  <2>11. Lists(<<r>> \o f[next], {r} \cup RowsOn(L, p, End(Piece(r))))
    BY <2>7, <2>9, <2>10, ListsJoined
  <2>12. f[x] = <<r>> \o f[next]
    BY <2>5, <2>6 DEF Ahead
  <2> QED
    BY <1>2, <2>7, <2>11, <2>12
<1> QED
  BY <1>1, <1>4, <1>7, <1>8, <1>9

\* The reader finds the rows of a page.
LEMMA PageScanned ==
    ASSUME NEW m, NEW L, Memory(m, L), SoundRows(L), NEW p \in PageIds,
           NEW cells, cells = m[p], NEW f, Walks(f, cells, p, 0)
    PROVE  Lists(f[0], {r \in L : r.page = p})
<1> DEFINE Wrong == {d \in Nat : d <= Top /\ ~Reads(f, L, p, Top - d)}
<1>1. Top \in Nat
  BY LayoutAssumption DEF Top
<1>2. Wrong = {}
  <2> SUFFICES ASSUME Wrong # {} PROVE FALSE
    OBVIOUS
  <2>1. PICK d \in Wrong : \A e \in Wrong : d <= e
    BY LeastNatural
  <2>2. Top - d \in 0..Top
    BY <1>1
  <2>3. ASSUME NEW y \in (Top - d) + 1..Top
        PROVE  Reads(f, L, p, y)
    <3>1. Top - y \in Nat /\ Top - y <= Top /\ Top - y < d /\ Top - (Top - y) = y
      BY <1>1, <2>2
    <3>2. Top - y \notin Wrong
      BY <2>1, <3>1
    <3> QED
      BY <3>1, <3>2
  <2>4. Reads(f, L, p, Top - d)
    <3> HIDE DEF Wrong
    <3> QED
      BY <2>2, <2>3, ReadsStep
  <2> QED
    BY <2>4
<1>3. Reads(f, L, p, 0)
  <2>1. Top \in Nat /\ Top <= Top /\ Top - Top = 0
    BY <1>1
  <2> QED
    BY <1>2, <2>1
<1>4. AlignUp(0) = 0
  BY SlotAlignment, AlignUpFacts
<1>5. Border(L, p, 0)
  <2>1. \A r \in L : r.offset >= 0
    BY RowFields
  <2> QED
    BY <2>1 DEF Border
<1>6. RowsOn(L, p, 0) = {r \in L : r.page = p}
  <2>1. \A r \in L : r.offset >= 0
    BY RowFields
  <2> QED
    BY <2>1 DEF RowsOn
<1> QED
  BY <1>3, <1>4, <1>5, <1>6 DEF Reads

-----------------------------------------------------------------------------
(* Reading a table                                                         *)

\* The union of the first n sets of P.
Upto(P, n) == UNION {P[i] : i \in 1..n}

LEMMA UptoNext ==
    ASSUME NEW P, NEW n \in Nat
    PROVE  Upto(P, n + 1) = Upto(P, n) \cup P[n + 1] /\ Upto(P, 1) = P[1]
<1>1. 1..n + 1 = (1..n) \cup {n + 1} /\ 1..1 = {1}
  OBVIOUS
<1>2. {P[i] : i \in 1..n + 1} = {P[i] : i \in 1..n} \cup {P[n + 1]}
  BY <1>1
<1>3. {P[i] : i \in 1..1} = {P[1]}
  BY <1>1
<1> QED
  BY <1>2, <1>3 DEF Upto

LEMMA FlattenLists ==
    ASSUME NEW seqs, NEW n \in Nat \ {0}, NEW f, Flattens(f, seqs, n), NEW P,
           \A i \in 1..n : Lists(seqs[i], P[i]),
           \A i, j \in 1..n : i # j => P[i] \cap P[j] = {}
    PROVE  Lists(f[n], Upto(P, n))
<1> DEFINE Wrong == {i \in 1..n : ~Lists(f[i], Upto(P, i))}
<1>1. \A i \in 1..n : f[i] = IF i = 1 THEN seqs[i] ELSE f[i - 1] \o seqs[i]
  BY DEF Flattens
<1>2. Wrong = {}
  <2> SUFFICES ASSUME Wrong # {} PROVE FALSE
    OBVIOUS
  <2>1. PICK i \in Wrong : \A j \in Wrong : i <= j
    <3>1. Wrong \in SUBSET Nat
      OBVIOUS
    <3> HIDE DEF Wrong
    <3> QED
      BY <3>1, LeastNatural
  <2>2. i \in 1..n /\ ~Lists(f[i], Upto(P, i))
    OBVIOUS
  <2>3. CASE i = 1
    <3>1. f[1] = seqs[1] /\ Lists(seqs[1], P[1])
      BY <1>1, <2>2, <2>3
    <3>2. Upto(P, 1) = P[1]
      BY UptoNext
    <3> QED
      BY <2>2, <2>3, <3>1, <3>2
  <2>4. CASE i # 1
    <3>1. PICK k \in Nat : i = k + 1 /\ k \in 1..n /\ k = i - 1
      BY <2>2, <2>4
    <3>2. k \notin Wrong
      BY <2>1, <3>1
    <3>3. Lists(f[k], Upto(P, k))
      BY <3>1, <3>2
    <3>4. f[i] = f[k] \o seqs[i] /\ Lists(seqs[i], P[i])
      BY <1>1, <2>2, <2>4, <3>1
    <3>5. Upto(P, k) \cap P[i] = {}
      <4>1. \A j \in 1..k : j \in 1..n /\ j # i
        BY <2>2, <3>1
      <4>2. \A j \in 1..k : P[j] \cap P[i] = {}
        BY <2>2, <4>1
      <4> QED
        BY <4>2 DEF Upto
    <3>6. Upto(P, i) = Upto(P, k) \cup P[i]
      BY <3>1, UptoNext
    <3>7. Lists(f[k] \o seqs[i], Upto(P, k) \cup P[i])
      BY <3>3, <3>4, <3>5, ListsJoined
    <3> QED
      BY <2>2, <3>4, <3>6, <3>7
  <2> QED
    BY <2>3, <2>4
<1>3. n \in 1..n
  OBVIOUS
<1> QED
  BY <1>2, <1>3

\* TableReader finds the rows of the table, each once.
LEMMA ScanLists ==
    ASSUME NEW L, Memory(mem, L), SoundRows(L), SoundLedger(ledger),
           \A r \in L : Fits(ledger, Piece(r))
    PROVE  Lists(ScanPages(Alignment), L)
<1> DEFINE seqs == [i \in DOMAIN ledger |-> RowsFrom(ledger[i].page, Alignment)]
           P == [i \in DOMAIN ledger |-> {r \in L : r.page = ledger[i].page}]
<1>1. /\ ledger \in Seq(PageRecord) /\ Len(ledger) \in Nat /\ DOMAIN ledger = 1..Len(ledger)
      /\ \A k, l \in DOMAIN ledger : ledger[k].page = ledger[l].page => k = l
  BY DEF SoundLedger
<1>2. ASSUME NEW i \in DOMAIN ledger
      PROVE  Lists(seqs[i], P[i])
  <2>1. PICK p \in PageIds : p = ledger[i].page
    BY TakenNumber
  <2>2. PageCells(mem[p])
    BY DEF Memory, PageCells
  <2>3. PICK f : Walks(f, mem[p], p, 0) /\ RowsFrom(p, Alignment) = f[0]
    BY <2>2, RowsFromWalks
  <2>4. Lists(f[0], {r \in L : r.page = p})
    BY <2>3, PageScanned
  <2> QED
    BY <2>1, <2>3, <2>4
<1>3. ASSUME NEW i \in DOMAIN ledger, NEW j \in DOMAIN ledger, i # j
      PROVE  P[i] \cap P[j] = {}
  BY <1>1, <1>3
<1>4. ScanPages(Alignment) = FlattenSeq(seqs)
  BY DEF ScanPages
<1>5. ASSUME NEW r \in L
      PROVE  \E i \in DOMAIN ledger : r \in P[i]
  <2>1. PICK k \in DOMAIN ledger : Piece(r).page = ledger[k].page
    BY DEF Fits
  <2>2. Piece(r).page = r.page
    BY DEF Piece
  <2> QED
    BY <2>1, <2>2
<1>6. \A i \in DOMAIN ledger : P[i] \subseteq L
  OBVIOUS
<1>7. CASE ledger = <<>>
  <2>1. DOMAIN ledger = {} /\ seqs = <<>>
    BY <1>7
  <2>2. L = {}
    BY <1>5, <2>1
  <2>3. FlattenSeq(<<>>) = <<>>
    BY DEF FlattenSeq
  <2> QED
    BY <1>4, <2>1, <2>2, <2>3, ListsNone
<1>8. CASE ledger # <<>>
  <2>1. seqs \in Seq(Seq(Row)) /\ Len(seqs) = Len(ledger) /\ Len(ledger) \in Nat \ {0}
    <3>1. \A i \in 1..Len(ledger) : seqs[i] \in Seq(Row)
      BY <1>1, <1>2 DEF Lists, Enumerates
    <3>2. seqs = [i \in 1..Len(ledger) |-> seqs[i]]
      BY <1>1
    <3> HIDE DEF seqs
    <3>3. seqs \in Seq(Seq(Row)) /\ DOMAIN seqs = 1..Len(ledger)
      BY <1>1, <3>1, <3>2
    <3> QED
      BY <1>1, <1>8, <3>3
  <2> HIDE DEF seqs, P
  <2>2. PICK f : Flattens(f, seqs, Len(seqs)) /\ FlattenSeq(seqs) = f[Len(seqs)]
    BY <2>1, FlattenUnfolded
  <2>3. PICK n \in Nat \ {0} : n = Len(ledger) /\ DOMAIN ledger = 1..n
    <3>1. Len(ledger) \in Nat \ {0} /\ DOMAIN ledger = 1..Len(ledger)
      BY <1>1, <2>1
    <3> QED
      BY <3>1, Zenon
  <2>4. Flattens(f, seqs, n)
    BY <2>1, <2>2, <2>3
  <2>5. \A i \in 1..n : Lists(seqs[i], P[i])
    BY <1>2, <2>3
  <2>6. \A i, j \in 1..n : i # j => P[i] \cap P[j] = {}
    BY <1>3, <2>3
  <2>7. Lists(f[n], Upto(P, n))
    BY <2>4, <2>5, <2>6, FlattenLists
  <2>8. Upto(P, n) = L
    BY <1>5, <1>6, <2>3 DEF Upto
  <2> QED
    BY <1>4, <2>1, <2>2, <2>3, <2>7, <2>8
<1> QED
  BY <1>7, <1>8

\* Rows that are listed once each are as many as the list is long.
LEMMA ListsCount ==
    ASSUME NEW s, NEW S, Lists(s, S)
    PROVE  ToSet(s) = S /\ Len(s) = Cardinality(S)
<1>1. s \in Seq(Row) /\ Len(s) \in Nat /\ DOMAIN s = 1..Len(s)
  BY DEF Lists, Enumerates
<1>2. S = {s[k] : k \in DOMAIN s}
  BY DEF Lists, Enumerates, ToSet
<1>3. s \in [1..Len(s) -> S]
  BY <1>1, <1>2
<1>4. IsInjective(s)
  BY DEF Lists, Enumerates, IsInjective
<1>5. \A t \in S : \E k \in 1..Len(s) : s[k] = t
  BY <1>1, <1>2
<1>6. s \in Bijection(1..Len(s), S)
  BY <1>3, <1>4, <1>5 DEF Bijection, Injection, Surjection
<1>7. ExistsBijection(1..Len(s), S)
  BY <1>6 DEF ExistsBijection
<1>8. Cardinality(S) = Len(s)
  BY <1>1, <1>7, FS_CountingElements
<1> QED
  BY <1>8 DEF Lists, Enumerates

-----------------------------------------------------------------------------
(* What a store that keeps its rows promises                               *)

LEMMA ExtentCells ==
    ASSUME NEW L, SoundRows(L), NEW r \in L
    PROVE  /\ \A c \in Extent(r) : \E o \in Nat : c = <<r.page, o>> /\ In(Piece(r), r.page, o)
           /\ \A p : \A o \in Nat : In(Piece(r), p, o) => <<p, o>> \in Extent(r)
<1>1. /\ r.page \in PageIds /\ r.offset \in Nat /\ Footprint(r.len) \in Nat
      /\ Piece(r).page = r.page /\ Piece(r).offset = r.offset
      /\ End(Piece(r)) = r.offset + Footprint(r.len)
  BY RowFields
<1>2. Extent(r) = {r.page} \X (r.offset..r.offset + Footprint(r.len) - 1)
  BY DEF Extent, Footprint
<1> HIDE DEF Footprint
<1>3. ASSUME NEW c \in Extent(r)
      PROVE  \E o \in Nat : c = <<r.page, o>> /\ In(Piece(r), r.page, o)
  <2>1. PICK o \in r.offset..r.offset + Footprint(r.len) - 1 : c = <<r.page, o>>
    BY <1>2
  <2>2. o \in Nat /\ In(Piece(r), r.page, o)
    BY <1>1 DEF In
  <2> QED
    BY <2>1, <2>2
<1>4. ASSUME NEW p, NEW o \in Nat, In(Piece(r), p, o)
      PROVE  <<p, o>> \in Extent(r)
  <2>1. p = r.page /\ o \in r.offset..r.offset + Footprint(r.len) - 1
    BY <1>1, <1>4 DEF In
  <2> QED
    BY <1>2, <2>1
<1> QED
  BY <1>3, <1>4

LEMMA SegmentExtent ==
    ASSUME NEW g, GoodSegment(g)
    PROVE  /\ \A c \in SegmentCells(g) : \E o \in Nat : c = <<g.page, o>> /\ In(g, g.page, o)
           /\ \A p : \A o \in Cells :
                 In(g, p, o) /\ o # PageSize - 1 => <<p, o>> \in SegmentCells(g)
<1>1. /\ g.offset \in Nat /\ g.size \in Nat /\ End(g) \in Nat /\ g.offset + g.size <= End(g)
      /\ Slot(g.size) => End(g) = g.offset + g.size
  BY SegmentFields
<1>2. Slot(g.size) \/ g.offset + g.size = PageSize - 1
  BY DEF GoodSegment
<1>3. ASSUME NEW c \in SegmentCells(g)
      PROVE  \E o \in Nat : c = <<g.page, o>> /\ In(g, g.page, o)
  <2>1. PICK o \in g.offset..g.offset + g.size - 1 : c = <<g.page, o>>
    BY DEF SegmentCells
  <2>2. o \in Nat /\ In(g, g.page, o)
    BY <1>1 DEF In
  <2> QED
    BY <2>1, <2>2
<1>4. ASSUME NEW p, NEW o \in Cells, In(g, p, o), o # PageSize - 1
      PROVE  <<p, o>> \in SegmentCells(g)
  <2>1. PageSize \in Nat /\ o \in Nat /\ o < PageSize - 1
    BY <1>4, LayoutAssumption DEF Cells
  <2>2. p = g.page /\ g.offset <= o /\ o < End(g)
    BY <1>4 DEF In
  <2>3. o \in g.offset..g.offset + g.size - 1
    BY <1>1, <1>2, <2>1, <2>2
  <2> QED
    BY <2>2, <2>3 DEF SegmentCells
<1> QED
  BY <1>3, <1>4

\* Segments that are apart share no cell.
LEMMA ApartCells ==
    ASSUME NEW a, NEW b, Extended(a), Extended(b), Apart(a, b), NEW p, NEW o \in Nat, In(a, p, o)
    PROVE  ~In(b, p, o)
BY DEF Extended, Apart, In

LEMMA FreeSegmentOf ==
    ASSUME NEW f \in FreeSegments
    PROVE  \E t \in DOMAIN tables : \E i \in DOMAIN tables[t].records :
              f = <<t, i>> /\ SegmentOf(f) = tables[t].records[i]
<1>1. PICK t \in DOMAIN tables : f \in {<<t, i>> : i \in DOMAIN tables[t].records}
  BY DEF FreeSegments
<1>2. PICK i \in DOMAIN tables[t].records : f = <<t, i>>
  BY <1>1
<1> QED
  BY <1>2 DEF SegmentOf

\* A set of cells lies inside a segment.
Within(A, a) == \A c \in A : \E o \in Nat : c = <<a.page, o>> /\ In(a, a.page, o)

LEMMA WithinApart ==
    ASSUME NEW A, NEW a, Within(A, a), NEW B, NEW b, Within(B, b),
           Extended(a), Extended(b), Apart(a, b)
    PROVE  A \cap B = {}
<1> SUFFICES ASSUME NEW c \in A, c \in B PROVE FALSE
  OBVIOUS
<1>1. PICK o \in Nat : c = <<a.page, o>> /\ In(a, a.page, o)
  BY DEF Within
<1>2. PICK q \in Nat : c = <<b.page, q>> /\ In(b, b.page, q)
  BY DEF Within
<1>3. a.page = b.page /\ o = q
  BY <1>1, <1>2
<1> QED
  BY <1>1, <1>2, <1>3, ApartCells

LEMMA WithinTaken ==
    ASSUME NEW ps, SoundLedger(ps), NEW A, NEW a, Within(A, a), Extended(a), Fits(ps, a),
           NEW i \in DOMAIN ps
    PROVE  A \cap ({ps[i].page} \X (Taken(ps[i])..PageSize - 1)) = {}
<1> SUFFICES ASSUME NEW c \in A, c \in {ps[i].page} \X (Taken(ps[i])..PageSize - 1) PROVE FALSE
  OBVIOUS
<1>1. PICK o \in Nat : c = <<a.page, o>> /\ In(a, a.page, o)
  BY DEF Within
<1>2. PICK q \in Taken(ps[i])..PageSize - 1 : c = <<ps[i].page, q>>
  OBVIOUS
<1>3. a.page = ps[i].page /\ o = q
  BY <1>1, <1>2
<1>4. PICK k \in DOMAIN ps : a.page = ps[k].page /\ End(a) <= Taken(ps[k])
  BY DEF Fits
<1>5. k = i
  BY <1>3, <1>4 DEF SoundLedger
<1>6. Taken(ps[i]) \in Nat /\ End(a) \in Nat /\ o < End(a) /\ PageSize \in Nat
  BY <1>1, TakenNumber, LayoutAssumption DEF In, Extended
<1> QED
  BY <1>2, <1>3, <1>4, <1>5, <1>6

LEMMA RowWithin ==
    ASSUME NEW L, SoundRows(L), NEW r \in L
    PROVE  Within(Extent(r), Piece(r)) /\ Extended(Piece(r))
<1>1. r \in Row
  BY DEF SoundRows
<1>2. Piece(r).page = r.page /\ Extended(Piece(r))
  BY <1>1, PieceFields
<1>3. \A c \in Extent(r) : \E o \in Nat : c = <<r.page, o>> /\ In(Piece(r), r.page, o)
  BY ExtentCells
<1> QED
  BY <1>2, <1>3 DEF Within

LEMMA SegmentWithin ==
    ASSUME NEW L, Space(ledger, tables, L), NEW f \in FreeSegments
    PROVE  /\ Within(SegmentCells(SegmentOf(f)), SegmentOf(f)) /\ Extended(SegmentOf(f))
           /\ Fits(ledger, SegmentOf(f)) /\ \A r \in L : Apart(SegmentOf(f), Piece(r))
           /\ \A g \in FreeSegments : f # g => Apart(SegmentOf(f), SegmentOf(g))
<1>0. PICK t \in DOMAIN tables : \E i \in DOMAIN tables[t].records :
          f = <<t, i>> /\ SegmentOf(f) = tables[t].records[i]
  BY FreeSegmentOf
<1>1. PICK i \in DOMAIN tables[t].records : f = <<t, i>> /\ SegmentOf(f) = tables[t].records[i]
  BY <1>0
<1>2. GoodSegment(SegmentOf(f)) /\ Fits(ledger, SegmentOf(f)) /\ Sound(tables)
  BY <1>1 DEF Space, Sound, Good
<1>3. Within(SegmentCells(SegmentOf(f)), SegmentOf(f))
  BY <1>2, SegmentExtent DEF Within
<1>4. Extended(SegmentOf(f))
  BY <1>2, SegmentFields
<1>5. \A r \in L : Apart(SegmentOf(f), Piece(r))
  BY <1>1 DEF Space, ClearAll, Clear
<1>6. ASSUME NEW g \in FreeSegments, f # g
      PROVE  Apart(SegmentOf(f), SegmentOf(g))
  <2>0. PICK u \in DOMAIN tables : \E j \in DOMAIN tables[u].records :
          g = <<u, j>> /\ SegmentOf(g) = tables[u].records[j]
    BY FreeSegmentOf
  <2>1. PICK j \in DOMAIN tables[u].records : g = <<u, j>> /\ SegmentOf(g) = tables[u].records[j]
    BY <2>0
  <2>2. CASE t = u
    <3>1. i # j
      BY <1>1, <1>6, <2>1, <2>2
    <3> QED
      BY <1>1, <1>2, <2>1, <2>2, <3>1 DEF Sound, Good
  <2>3. CASE t # u
    <3>1. Clear(tables[t].records, tables[u].records[j])
      BY <1>2, <2>3 DEF Sound
    <3> QED
      BY <1>1, <2>1, <3>1 DEF Clear
  <2> QED
    BY <2>2, <2>3
<1> QED
  BY <1>2, <1>3, <1>4, <1>5, <1>6

\* Nothing shares a cell.
LEMMA SpaceNotShared ==
    ASSUME Space(ledger, tables, live)
    PROVE  NoDoubleUse
<1>1. SoundRows(live) /\ SoundLedger(ledger) /\ \A r \in live : Fits(ledger, Piece(r))
  BY DEF Space
<1>2. ASSUME NEW r \in live, NEW s \in live, r # s
      PROVE  Extent(r) \cap Extent(s) = {}
  <2>1. Apart(Piece(r), Piece(s))
    BY <1>1, <1>2 DEF SoundRows
  <2> QED
    BY <1>1, <2>1, RowWithin, WithinApart
<1>3. ASSUME NEW r \in live, NEW f \in FreeSegments
      PROVE  Extent(r) \cap SegmentCells(SegmentOf(f)) = {}
  <2>1. Apart(Piece(r), SegmentOf(f))
    BY SegmentWithin, ApartSymmetric
  <2> QED
    BY <1>1, <2>1, RowWithin, SegmentWithin, WithinApart
<1>4. ASSUME NEW f \in FreeSegments, NEW g \in FreeSegments, f # g
      PROVE  SegmentCells(SegmentOf(f)) \cap SegmentCells(SegmentOf(g)) = {}
  <2>1. Apart(SegmentOf(f), SegmentOf(g))
    BY <1>4, SegmentWithin
  <2> QED
    BY <2>1, SegmentWithin, WithinApart
<1>5. ASSUME NEW i \in DOMAIN ledger, NEW r \in live
      PROVE  Extent(r) \cap ({ledger[i].page} \X (Taken(ledger[i])..PageSize - 1)) = {}
  BY <1>1, RowWithin, WithinTaken
<1>6. ASSUME NEW i \in DOMAIN ledger, NEW f \in FreeSegments
      PROVE  SegmentCells(SegmentOf(f)) \cap ({ledger[i].page} \X (Taken(ledger[i])..PageSize - 1)) = {}
  BY <1>1, SegmentWithin, WithinTaken
<1> QED
  BY <1>2, <1>3, <1>4, <1>5, <1>6 DEF NoDoubleUse

\* Nothing is lost but the last cell of a page.
LEMMA SpaceNotLost ==
    ASSUME Space(ledger, tables, live)
    PROVE  NoSpaceLost
<1> DEFINE owned == UNION ({Extent(r) : r \in live}
                             \cup {SegmentCells(SegmentOf(f)) : f \in FreeSegments})
<1>1. SoundRows(live) /\ SoundLedger(ledger) /\ Sound(tables)
  BY DEF Space
<1>2. ASSUME NEW i \in DOMAIN ledger, NEW o \in 0..Taken(ledger[i]) - 1
      PROVE  <<ledger[i].page, o>> \in owned \/ o = PageSize - 1
  <2>1. o \in Nat /\ o \in Cells /\ o < Taken(ledger[i])
    BY <1>1, TakenNumber, LayoutAssumption DEF Cells
  <2>2. InRow(live, ledger[i].page, o) \/ InAny(tables, ledger[i].page, o) \/ o = PageSize - 1
    BY <2>1 DEF Space
  <2>3. CASE InRow(live, ledger[i].page, o)
    <3>1. PICK r \in live : In(Piece(r), ledger[i].page, o)
      BY <2>3 DEF InRow
    <3>2. <<ledger[i].page, o>> \in Extent(r)
      BY <1>1, <2>1, <3>1, ExtentCells
    <3> QED
      BY <3>2
  <2>4. CASE InAny(tables, ledger[i].page, o) /\ o # PageSize - 1
    <3>1. PICK t \in DOMAIN tables : InSome(tables[t].records, ledger[i].page, o)
      BY <2>4 DEF InAny
    <3>2. PICK j \in DOMAIN tables[t].records : In(tables[t].records[j], ledger[i].page, o)
      BY <3>1 DEF InSome
    <3>3. GoodSegment(tables[t].records[j])
      BY <1>1, <3>2 DEF Sound, Good
    <3>4. <<ledger[i].page, o>> \in SegmentCells(tables[t].records[j])
      BY <2>1, <2>4, <3>2, <3>3, SegmentExtent
    <3>5. <<t, j>> \in FreeSegments /\ SegmentOf(<<t, j>>) = tables[t].records[j]
      BY <3>1, <3>2 DEF FreeSegments, SegmentOf
    <3> QED
      BY <3>4, <3>5
  <2> QED
    BY <2>2, <2>3, <2>4
<1> QED
  BY <1>2 DEF NoSpaceLost

\* The pages of a ledger.
PagesOf(ps) == [i \in DOMAIN ps |-> ps[i].page]

LEMMA PagesListed ==
    ASSUME NEW ps, Len(ps) \in Nat, DOMAIN ps = 1..Len(ps),
           \A i \in DOMAIN ps : ps[i].page \in PageIds,
           \A i, j \in DOMAIN ps : ps[i].page = ps[j].page => i = j
    PROVE  /\ Enumerates(PageIds, PagesOf(ps), {ps[i].page : i \in DOMAIN ps})
           /\ Len(PagesOf(ps)) = Len(ps)
<1> DEFINE q == PagesOf(ps)
<1>1. q = [i \in 1..Len(ps) |-> ps[i].page]
  BY DEF PagesOf
<1>2. DOMAIN q = 1..Len(ps) /\ \A i \in 1..Len(ps) : q[i] = ps[i].page /\ q[i] \in PageIds
  BY <1>1
<1>3. q \in Seq(PageIds) /\ Len(q) = Len(ps)
  BY <1>1, <1>2
<1> HIDE DEF q
<1>4. ToSet(q) = {ps[i].page : i \in DOMAIN ps}
  BY <1>2 DEF ToSet
<1>5. \A i, j \in DOMAIN q : q[i] = q[j] => i = j
  BY <1>2
<1> QED
  BY <1>3, <1>4, <1>5 DEF q, Enumerates

LEMMA JoinedLength ==
    ASSUME NEW E, NEW s \in Seq(E), NEW t \in Seq(E)
    PROVE  s \o t \in Seq(E) /\ Len(s \o t) = Len(s) + Len(t)
OBVIOUS

\* The pool, the ledger and the tables enumerate the pages.
LEMMA PagesJoined ==
    ASSUME NEW ps \in Seq(PageRecord), NEW ts \in Seq(SegmentTable), NEW pl, Owners(ps, ts, pl)
    PROVE  /\ Enumerates(PageIds, pl \o PagesOf(ps) \o PagesOf(ts), PageIds)
           /\ Len(pl \o PagesOf(ps) \o PagesOf(ts)) = Len(PagePool)
           /\ Enumerates(PageIds, pl \o (PagesOf(ps) \o PagesOf(ts)), PageIds)
           /\ Len(pl \o (PagesOf(ps) \o PagesOf(ts))) = Len(PagePool)
           /\ ToSet(PagesOf(ps) \o PagesOf(ts))
                = {ps[i].page : i \in DOMAIN ps} \cup {ts[i].page : i \in DOMAIN ts}
<1> DEFINE A == PagesOf(ps)
           B == PagesOf(ts)
           P == {ps[i].page : i \in DOMAIN ps}
           T == {ts[i].page : i \in DOMAIN ts}
           O == {pl[i] : i \in DOMAIN pl}
<1>0. (\A i \in DOMAIN ps : ps[i].page \in PageIds) /\ \A i \in DOMAIN ts : ts[i].page \in PageIds
  <2>1. ASSUME NEW i \in DOMAIN ps
        PROVE  ps[i].page \in PageIds
    <3>1. ps[i] \in PageRecord
      OBVIOUS
    <3> QED
      BY <3>1 DEF PageRecord
  <2>2. ASSUME NEW i \in DOMAIN ts
        PROVE  ts[i].page \in PageIds
    <3>1. ts[i] \in SegmentTable
      OBVIOUS
    <3> QED
      BY <3>1 DEF SegmentTable
  <2> QED
    BY <2>1, <2>2
<1>1. Enumerates(PageIds, A, P) /\ Len(A) = Len(ps) /\ Len(ps) \in Nat
  <2>1. Len(ps) \in Nat /\ DOMAIN ps = 1..Len(ps)
    OBVIOUS
  <2>3. \A i \in DOMAIN ps : ps[i].page \in PageIds
    BY <1>0
  <2>2. \A i, j \in DOMAIN ps : ps[i].page = ps[j].page => i = j
    BY DEF Owners
  <2> QED
    BY <2>1, <2>2, <2>3, PagesListed
<1>2. Enumerates(PageIds, B, T) /\ Len(B) = Len(ts) /\ Len(ts) \in Nat
  <2>1. Len(ts) \in Nat /\ DOMAIN ts = 1..Len(ts)
    OBVIOUS
  <2>3. \A i \in DOMAIN ts : ts[i].page \in PageIds
    BY <1>0
  <2>2. \A i, j \in DOMAIN ts : ts[i].page = ts[j].page => i = j
    BY DEF Owners
  <2> QED
    BY <2>1, <2>2, <2>3, PagesListed
<1>3. pl \in Seq(PageIds) /\ Len(pl) + Len(ps) + Len(ts) = Len(PagePool)
  BY DEF Owners
<1>4. Enumerates(PageIds, pl, O)
  BY <1>3 DEF Enumerates, Owners, ToSet
<1>5. O \cap P = {} /\ O \cap T = {} /\ P \cap T = {}
  BY DEF Owners
<1>6. O \cup P \cup T = PageIds
  <2>1. \A p \in PageIds : p \in O \/ p \in P \/ p \in T
    BY DEF Owners
  <2>2. O \subseteq PageIds
    BY <1>3
  <2>3. P \subseteq PageIds /\ T \subseteq PageIds
    BY <1>0
  <2> QED
    BY <2>1, <2>2, <2>3
<1> HIDE DEF A, B, P, T, O
<1>7. A \in Seq(PageIds) /\ B \in Seq(PageIds)
  BY <1>1, <1>2 DEF Enumerates
<1>8. Enumerates(PageIds, pl \o A, O \cup P) /\ Enumerates(PageIds, A \o B, P \cup T)
  BY <1>1, <1>2, <1>4, <1>5, EnumerationJoined
<1>9. (O \cup P) \cap T = {} /\ O \cap (P \cup T) = {} /\ O \cup (P \cup T) = PageIds
  BY <1>5, <1>6
<1>10. Enumerates(PageIds, (pl \o A) \o B, PageIds)
  <2>1. Enumerates(PageIds, (pl \o A) \o B, (O \cup P) \cup T)
    BY <1>2, <1>8, <1>9, EnumerationJoined
  <2> QED
    BY <1>6, <2>1
<1>11. Enumerates(PageIds, pl \o (A \o B), PageIds)
  <2>1. Enumerates(PageIds, pl \o (A \o B), O \cup (P \cup T))
    BY <1>4, <1>8, <1>9, EnumerationJoined
  <2> QED
    BY <1>9, <2>1
<1>12. Len((pl \o A) \o B) = Len(PagePool) /\ Len(pl \o (A \o B)) = Len(PagePool)
  <2>1. pl \o A \in Seq(PageIds) /\ Len(pl \o A) = Len(pl) + Len(A)
    BY <1>3, <1>7, JoinedLength
  <2>2. A \o B \in Seq(PageIds) /\ Len(A \o B) = Len(A) + Len(B)
    BY <1>7, JoinedLength
  <2>3. Len((pl \o A) \o B) = Len(pl \o A) + Len(B)
    BY <1>7, <2>1, JoinedLength
  <2>4. Len(pl \o (A \o B)) = Len(pl) + Len(A \o B)
    BY <1>3, <2>2, JoinedLength
  <2>5. Len(pl) \in Nat
    BY <1>3
  <2> QED
    BY <1>1, <1>2, <1>3, <2>1, <2>2, <2>3, <2>4, <2>5
<1>13. ToSet(A \o B) = P \cup T
  BY <1>8 DEF Enumerates
<1> QED
  BY <1>10, <1>11, <1>12, <1>13 DEF A, B, P, T

LEMMA PagesKept ==
    ASSUME NEW L, Space(ledger, tables, L), Owners(ledger, tables, pool)
    PROVE  PagesConserved
<1>1. ledger \in Seq(PageRecord) /\ tables \in Seq(SegmentTable)
  BY DEF Space, SoundLedger, Sound
<1>2. /\ Enumerates(PageIds, pool \o PagesOf(ledger) \o PagesOf(tables), PageIds)
      /\ Len(pool \o PagesOf(ledger) \o PagesOf(tables)) = Len(PagePool)
  BY <1>1, PagesJoined
<1> QED
  BY <1>2 DEF PagesConserved, PagesOf, Enumerates

\* All pages are in the pool.
LEMMA OwnersOfPool ==
    ASSUME NEW q, Enumerates(PageIds, q, PageIds), Len(q) = Len(PagePool)
    PROVE  Owners(<<>>, <<>>, q)
<1>1. q \in Seq(PageIds) /\ PageIds = {q[i] : i \in DOMAIN q}
  BY DEF Enumerates, ToSet
<1>2. Len(<<>>) = 0 /\ DOMAIN <<>> = {}
  OBVIOUS
<1>3. Len(q) + Len(<<>>) + Len(<<>>) = Len(PagePool)
  BY <1>1, <1>2
<1> QED
  BY <1>1, <1>2, <1>3 DEF Owners, Enumerates

LEMMA SpaceOfNothing == Space(<<>>, <<>>, {})
<1>1. DOMAIN <<>> = {} /\ <<>> \in Seq(PageRecord) /\ <<>> \in Seq(SegmentTable)
  OBVIOUS
<1> QED
  BY <1>1 DEF Space, SoundLedger, Sound, SoundRows

LEMMA MemoryOfNothing ==
    ASSUME NEW m, m \in [PageIds -> [Cells -> Nat]],
           \A p \in PageIds : \A o \in Cells : m[p][o] = 0
    PROVE  Memory(m, {})
BY DEF Memory

-----------------------------------------------------------------------------
(* Rewriting a table                                                       *)

\* A rewrite with the rows R still to come.
Underway(acc, R) ==
    /\ acc = [st |-> acc.st, rows |-> acc.rows]
    /\ \/ Refused(acc.st) /\ acc.st.err # "ok"
       \/ Keeps(acc.st, R \cup acc.rows) /\ R \cap acc.rows = {}

LEMMA RowRewritten ==
    ASSUME SnapshotAlignment = Alignment, NEW acc, NEW R, Underway(acc, R), NEW row \in R,
           NEW growth, Grown(row, growth) \in Body
    PROVE  Underway(RewriteRow(acc, row, growth), R \ {row})
<1> DEFINE d == delete_raw(acc.st, row)
           g == Grown(row, growth)
           st == insert_raw(d, g)
           n == RewriteRow(acc, row, growth)
           L == R \cup acc.rows
<1>1. n = CASE acc.st.err # "ok" -> acc
            [] acc.st.err = "ok" /\ st.err # "ok" -> [acc EXCEPT !.st = st]
            [] OTHER -> [st |-> st, rows |-> acc.rows \cup {At(st, g)}]
  BY Zenon DEF RewriteRow
<1>2. CASE Refused(acc.st) /\ acc.st.err # "ok"
  <2>1. n = acc
    BY <1>1, <1>2, Zenon
  <2> HIDE DEF n
  <2> QED
    BY <1>2, <2>1 DEF Underway, n
<1>3. CASE Keeps(acc.st, L) /\ R \cap acc.rows = {}
  <2>1. acc.st.err = "ok" /\ row \in L
    BY <1>3 DEF Keeps
  <2>2. Ends(d, L \ {row})
    BY <1>3, <2>1, RawDeleted
  <2>3. d.err # "ok" => st = d
    BY Zenon DEF insert_raw
  <2>4. Keeps(d, L \ {row}) => (Refused(st) /\ st.err # "ok") \/ Stores(st, L \ {row}, g)
    BY RawInserted
  <2>5. (Refused(st) /\ st.err # "ok") \/ Stores(st, L \ {row}, g)
    <3> HIDE DEF st, d
    <3> QED
      BY <2>2, <2>3, <2>4 DEF Ends
  <2> HIDE DEF st, n, g
  <2>6. CASE Refused(st) /\ st.err # "ok"
    <3>1. n = [acc EXCEPT !.st = st]
      BY <1>1, <2>1, <2>6, Zenon
    <3>2. n = [st |-> st, rows |-> acc.rows]
      BY <3>1 DEF Underway
    <3> QED
      BY <2>6, <3>2 DEF Underway, n
  <2>7. CASE Stores(st, L \ {row}, g)
    <3>1. st.err = "ok"
      BY <2>7 DEF Stores, Keeps
    <3>2. n = [st |-> st, rows |-> acc.rows \cup {At(st, g)}]
      BY <1>1, <2>1, <3>1, Zenon
    <3>3. PICK new : new = At(st, g)
      OBVIOUS
    <3>4. Keeps(st, (L \ {row}) \cup {new}) /\ new \notin L \ {row}
      BY <2>7, <3>3 DEF Stores
    <3>5. n.st = st /\ n.rows = acc.rows \cup {new} /\ n = [st |-> n.st, rows |-> n.rows]
      BY <3>2, <3>3
    <3>6. (L \ {row}) \cup {new} = (R \ {row}) \cup n.rows /\ (R \ {row}) \cap n.rows = {}
      BY <1>3, <3>4, <3>5
    <3> HIDE DEF L
    <3> QED
      BY <3>4, <3>5, <3>6 DEF Underway, n
  <2> QED
    BY <2>5, <2>6, <2>7
<1> QED
  BY <1>2, <1>3 DEF Underway

\* f holds the first n steps of a rewrite.
Rewrites(f, start, s, growth, n) ==
    f = [k \in 0..n |-> IF k = 0 THEN [st |-> start, rows |-> {}]
                        ELSE RewriteRow(f[k - 1], s[k], growth)]

LEMMA RewriteGrows ==
    ASSUME NEW start, NEW s, NEW growth, NEW n \in Nat, NEW f, Rewrites(f, start, s, growth, n)
    PROVE  \E g : Rewrites(g, start, s, growth, n + 1)
<1> DEFINE first == [st |-> start, rows |-> {}]
           g == [k \in 0..n + 1 |-> IF k = n + 1 THEN RewriteRow(f[n], s[n + 1], growth) ELSE f[k]]
<1>1. \A k \in 0..n : f[k] = IF k = 0 THEN first ELSE RewriteRow(f[k - 1], s[k], growth)
  BY DEF Rewrites
<1>2. ASSUME NEW k \in 0..n + 1
      PROVE  g[k] = IF k = 0 THEN first ELSE RewriteRow(g[k - 1], s[k], growth)
  <2>1. CASE k = n + 1
    <3>1. k # 0 /\ k - 1 = n /\ n \in 0..n + 1 /\ n # n + 1
      BY <2>1
    <3>2. g[n] = f[n] /\ g[k] = RewriteRow(f[n], s[n + 1], growth)
      BY <2>1, <3>1
    <3> HIDE DEF g
    <3> QED
      BY <2>1, <3>1, <3>2
  <2>2. CASE k # n + 1
    <3>1. k \in 0..n /\ (k # 0 => k - 1 \in 0..n /\ k - 1 # n + 1 /\ k - 1 \in 0..n + 1)
      BY <2>2
    <3>2. g[k] = f[k] /\ (k # 0 => g[k - 1] = f[k - 1])
      BY <2>2, <3>1
    <3> HIDE DEF g
    <3> QED
      BY <1>1, <3>1, <3>2
  <2> QED
    BY <2>1, <2>2
<1>3. g = [k \in 0..n + 1 |-> g[k]]
  OBVIOUS
<1> HIDE DEF g
<1>4. Rewrites(g, start, s, growth, n + 1)
  BY <1>2, <1>3 DEF Rewrites
<1> QED
  BY <1>4

LEMMA RewriteDefined ==
    ASSUME NEW start, NEW s, NEW growth, NEW N \in Nat
    PROVE  \E f : Rewrites(f, start, s, growth, N)
<1> DEFINE Missing == {n \in Nat : ~\E f : Rewrites(f, start, s, growth, n)}
<1> SUFFICES ASSUME Missing # {} PROVE FALSE
  OBVIOUS
<1>1. PICK n \in Missing : \A m \in Missing : n <= m
  BY LeastNatural
<1>2. n # 0
  <2> DEFINE f == [k \in 0..0 |-> [st |-> start, rows |-> {}]]
  <2>1. Rewrites(f, start, s, growth, 0)
    BY DEF Rewrites
  <2> HIDE DEF f
  <2> QED
    BY <2>1
<1>3. n - 1 \in Nat /\ n - 1 \notin Missing /\ n = (n - 1) + 1
  BY <1>1, <1>2
<1>4. \E f : Rewrites(f, start, s, growth, n)
  BY <1>3, RewriteGrows
<1> QED
  BY <1>4

LEMMA RewriteUnfolded ==
    ASSUME NEW start, NEW s, Len(s) \in Nat, NEW growth
    PROVE  \E f : Rewrites(f, start, s, growth, Len(s)) /\ RewriteRows(start, s, growth) = f[Len(s)]
<1> DEFINE F == CHOOSE f : Rewrites(f, start, s, growth, Len(s))
<1>1. \E f : Rewrites(f, start, s, growth, Len(s))
  BY RewriteDefined
<1>2. Rewrites(F, start, s, growth, Len(s))
  BY <1>1
<1>3. RewriteRows(start, s, growth) = F[Len(s)]
  BY Zenon DEF RewriteRows, Rewrites
<1> QED
  BY <1>2, <1>3

LEMMA RewriteSteps ==
    ASSUME NEW start, NEW s, NEW growth, NEW n \in Nat, NEW f, Rewrites(f, start, s, growth, n)
    PROVE  /\ f[0] = [st |-> start, rows |-> {}]
           /\ \A k \in 1..n : f[k] = RewriteRow(f[k - 1], s[k], growth)
<1>1. \A k \in 0..n : f[k] = IF k = 0 THEN [st |-> start, rows |-> {}]
                             ELSE RewriteRow(f[k - 1], s[k], growth)
  BY DEF Rewrites
<1>2. 0 \in 0..n /\ \A k \in 1..n : k \in 0..n /\ k # 0
  OBVIOUS
<1> QED
  BY <1>1, <1>2

\* Every row that was read is deleted and inserted once.
LEMMA TableRewritten ==
    ASSUME SnapshotAlignment = Alignment, NEW start, NEW L, Keeps(start, L), NEW s, Lists(s, L),
           NEW growth, \A r \in L : Grown(r, growth) \in Body
    PROVE  Underway(RewriteRows(start, s, growth), {})
<1> DEFINE Waiting(k) == L \ {s[i] : i \in 1..k}
<1>1. /\ s \in Seq(Row) /\ Len(s) \in Nat /\ DOMAIN s = 1..Len(s) /\ L = {s[i] : i \in 1..Len(s)}
      /\ \A i, j \in 1..Len(s) : s[i] = s[j] => i = j
  BY DEF Lists, Enumerates, ToSet
<1>2. PICK f : /\ Rewrites(f, start, s, growth, Len(s))
               /\ RewriteRows(start, s, growth) = f[Len(s)]
  BY <1>1, RewriteUnfolded
<1>3. /\ f[0] = [st |-> start, rows |-> {}]
      /\ \A k \in 1..Len(s) : f[k] = RewriteRow(f[k - 1], s[k], growth)
  BY <1>1, <1>2, RewriteSteps
<1>4. Underway(f[0], Waiting(0))
  <2>1. Waiting(0) = L /\ L \cup {} = L /\ L \cap {} = {}
    OBVIOUS
  <2>2. f[0].st = start /\ f[0].rows = {} /\ f[0] = [st |-> f[0].st, rows |-> f[0].rows]
    BY <1>3
  <2> QED
    BY <2>1, <2>2 DEF Underway
<1>5. ASSUME NEW k \in 1..Len(s), Underway(f[k - 1], Waiting(k - 1))
      PROVE  Underway(f[k], Waiting(k))
  <2>1. k \in Nat /\ k - 1 \in Nat /\ 1..k = (1..k - 1) \cup {k}
    BY <1>1
  <2>2. \A i \in 1..k - 1 : i \in 1..Len(s) /\ i # k
    BY <1>1, <2>1
  <2>3. s[k] \in Waiting(k - 1)
    BY <1>1, <2>2
  <2>4. Waiting(k) = Waiting(k - 1) \ {s[k]}
    BY <2>1
  <2>5. Grown(s[k], growth) \in Body
    BY <2>3
  <2> HIDE DEF Waiting
  <2>6. Underway(RewriteRow(f[k - 1], s[k], growth), Waiting(k - 1) \ {s[k]})
    BY <1>5, <2>3, <2>5, RowRewritten
  <2> QED
    BY <1>3, <2>4, <2>6
<1> DEFINE Wrong == {k \in 0..Len(s) : ~Underway(f[k], Waiting(k))}
<1>6. Waiting(Len(s)) = {}
  BY <1>1
<1> HIDE DEF Waiting
<1>7. Wrong = {}
  <2> SUFFICES ASSUME Wrong # {} PROVE FALSE
    OBVIOUS
  <2>1. PICK k \in Wrong : \A j \in Wrong : k <= j
    <3>1. Wrong \in SUBSET Nat
      BY <1>1
    <3> HIDE DEF Wrong
    <3> QED
      BY <3>1, LeastNatural
  <2>2. k \in 0..Len(s) /\ ~Underway(f[k], Waiting(k)) /\ k # 0
    BY <1>4
  <2>3. k \in 1..Len(s) /\ k - 1 \in 0..Len(s) /\ k - 1 < k
    BY <1>1, <2>2
  <2>4. k - 1 \notin Wrong
    <3> HIDE DEF Wrong
    <3> QED
      BY <1>1, <2>1, <2>3
  <2>5. Underway(f[k - 1], Waiting(k - 1))
    BY <2>3, <2>4
  <2> QED
    BY <1>5, <2>2, <2>3, <2>5
<1>8. Len(s) \in 0..Len(s)
  BY <1>1
<1>9. Underway(f[Len(s)], Waiting(Len(s)))
  BY <1>7, <1>8
<1> QED
  BY <1>2, <1>6, <1>9

-----------------------------------------------------------------------------
(* The inductive invariant                                                 *)

\* Records, free segments and untouched tails divide the pages of the
\* ledger between them; a cell outside every record is blank; every page has
\* one owner.
TableInv ==
    /\ Space(ledger, tables, live)
    /\ Memory(mem, live)
    /\ Owners(ledger, tables, pool)
    /\ result \in {"ok", "DataTooLarge", "FailedToAllocatePage"}

LEMMA StoreKeeps ==
    ASSUME TableInv
    PROVE  Keeps(Store, live)
<1>1. IsStore(Store) /\ Store.err = "ok" /\ Store.mem = mem /\ Store.ledger = ledger
      /\ Store.tables = tables /\ Store.pool = pool
  BY DEF Store, IsStore
<1> QED
  BY <1>1 DEF Keeps, TableInv

\* A refused operation is rolled back, another one leaves what it did.
LEMMA Finished ==
    ASSUME TableInv, NEW st, NEW rows, Finish(st, rows), Ends(st, rows)
    PROVE  TableInv'
<1>1. CASE st.err # "ok"
  <2>1. UNCHANGED <<mem, ledger, tables, pool, live>> /\ result' = st.err
    BY <1>1 DEF Finish
  <2>2. st.err \in {"DataTooLarge", "FailedToAllocatePage"}
    BY <1>1 DEF Ends, Refused, Keeps
  <2> QED
    BY <2>1, <2>2 DEF TableInv
<1>2. CASE st.err = "ok"
  <2>1. /\ mem' = st.mem /\ ledger' = st.ledger /\ tables' = st.tables /\ pool' = st.pool
        /\ live' = rows /\ result' = "ok"
    BY <1>2 DEF Finish
  <2>2. Keeps(st, rows)
    BY <1>2 DEF Ends
  <2>3. Space(st.ledger, st.tables, rows) /\ Memory(st.mem, rows) /\ Owners(st.ledger, st.tables, st.pool)
    BY <2>2 DEF Keeps
  <2> QED
    BY <2>1, <2>3 DEF TableInv
<1> QED
  BY <1>1, <1>2

LEMMA BodyOf ==
    ASSUME NEW len \in Lengths, NEW fill \in Fills
    PROVE  [len |-> len, fill |-> fill] \in Body
<1>1. len \in Nat \ {0} /\ fill \in Nat
  BY LayoutAssumption
<1> QED
  BY <1>1 DEF Body

LEMMA InsertKeeps ==
    ASSUME TableInv, Insert
    PROVE  TableInv'
<1>1. PICK len \in Lengths, fill \in Fills :
          LET row == [len |-> len, fill |-> fill]
              st  == InsertRecord(Store, row)
          IN Finish(st, live \cup {At(st, row)})
  BY Zenon DEF Insert
<1>2. PICK row : row = [len |-> len, fill |-> fill]
  OBVIOUS
<1>3. PICK st : st = InsertRecord(Store, row)
  OBVIOUS
<1>4. Finish(st, live \cup {At(st, row)})
  BY <1>1, <1>2, <1>3
<1>5. row \in Body
  BY <1>2, BodyOf
<1>6. (Refused(st) /\ st.err # "ok") \/ Stores(st, live, row)
  BY <1>3, <1>5, StoreKeeps, RecordInserted
<1>7. Ends(st, live \cup {At(st, row)})
  BY <1>6 DEF Ends, Stores
<1> QED
  BY <1>4, <1>7, Finished

LEMMA DeleteKeeps ==
    ASSUME TableInv, Delete
    PROVE  TableInv'
<1>1. PICK row \in live : Finish(DeleteRecord(Store, row), live \ {row})
  BY DEF Delete
<1>2. Ends(DeleteRecord(Store, row), live \ {row})
  BY StoreKeeps, RecordDeleted
<1> QED
  BY <1>1, <1>2, Finished

\* A row of the same length is written over the old one.
LEMMA RowOverwritten ==
    ASSUME NEW st, NEW L, Keeps(st, L), NEW old \in L, NEW row \in Body, row.len = old.len,
           ensure_record_fits(row.len, Alignment)
    PROVE  LET n == write_at(st, old.page, old.offset, row)
           IN  Keeps(n, (L \ {old}) \cup {At(n, row)})
<1>1. PICK n : n = write_at(st, old.page, old.offset, row)
  OBVIOUS
<1>2. /\ IsStore(st) /\ st.err = "ok" /\ Space(st.ledger, st.tables, L) /\ Memory(st.mem, L)
      /\ Owners(st.ledger, st.tables, st.pool) /\ SoundRows(L)
  BY DEF Keeps, Space
<1>3. /\ old \in Row /\ old.page \in PageIds /\ old.offset \in Nat /\ old.len \in Nat
      /\ End(Piece(old)) = old.offset + Footprint(old.len) /\ End(Piece(old)) <= PageSize
      /\ Slot(old.offset)
  BY <1>2, RowFields
<1>4. old.offset + Footprint(row.len) <= PageSize
  BY <1>3
<1>5. row.len \in Nat
  BY DEF Body
<1>6. WritesTo(st, n, old.page, old.offset, row)
  BY <1>1, <1>2, <1>3, <1>4, <1>5, WrittenTyped
<1>7. /\ IsStore(n) /\ n.err = st.err /\ n.ledger = st.ledger /\ n.tables = st.tables
      /\ n.pool = st.pool /\ n.mem = Written(st.mem, old.page, old.offset, Encoded(row, Alignment))
      /\ n.at = [page |-> old.page, offset |-> old.offset]
  BY <1>6 DEF WritesTo
<1>8. PICK new : new = At(n, row)
  OBVIOUS
<1>9. /\ new \in Row /\ new.page = old.page /\ new.offset = old.offset /\ new.len = row.len
      /\ Encoded(new, Alignment) = Encoded(row, Alignment)
  BY <1>3, <1>4, <1>7, <1>8, AtFields
<1>10. Piece(new) = Piece(old)
  BY <1>9 DEF Piece
<1>11. Space(n.ledger, n.tables, (L \ {old}) \cup {new})
  BY <1>2, <1>7, <1>9, <1>10, SpaceOverwritten
<1>12. Memory(n.mem, (L \ {old}) \cup {new})
  <2> DEFINE K == L \ {old}
  <2>1. K \in SUBSET L /\ \A r \in L : r \notin K => Piece(r) = Piece(new)
    BY <1>10
  <2>2. ASSUME NEW r \in K
        PROVE  Apart(Piece(r), Piece(new)) /\ Extended(Piece(r))
    <3>1. Apart(Piece(r), Piece(old)) /\ r \in Row
      BY <1>2 DEF SoundRows
    <3> QED
      BY <1>10, <3>1, PieceFields
  <2> HIDE DEF K
  <2>3. Memory(Written(st.mem, new.page, new.offset, Encoded(new, Alignment)), K \cup {new})
    BY <1>2, <1>9, <2>1, <2>2, MemoryWritten
  <2> QED
    BY <1>7, <1>9, <2>3 DEF K
<1>13. Keeps(n, (L \ {old}) \cup {new})
  BY <1>2, <1>7, <1>11, <1>12 DEF Keeps
<1> QED
  BY <1>1, <1>8, <1>13

\* A row of another length moves.
LEMMA RowMoved ==
    ASSUME NEW st, NEW L, Keeps(st, L), NEW old \in L, NEW row \in Body
    PROVE  LET n == InsertRecord(DeleteRecord(st, old), row)
           IN  Ends(n, (L \ {old}) \cup {At(n, row)})
<1>1. PICK d : d = DeleteRecord(st, old)
  OBVIOUS
<1>2. PICK n : n = InsertRecord(d, row)
  OBVIOUS
<1>3. Ends(d, L \ {old})
  BY <1>1, RecordDeleted
<1>4. d.err # "ok" => n = d
  BY <1>2, Zenon DEF InsertRecord
<1>5. Keeps(d, L \ {old}) => (Refused(n) /\ n.err # "ok") \/ Stores(n, L \ {old}, row)
  BY <1>2, RecordInserted
<1>6. Ends(n, (L \ {old}) \cup {At(n, row)})
  BY <1>3, <1>4, <1>5 DEF Ends, Stores
<1> QED
  BY <1>1, <1>2, <1>6

LEMMA UpdateKeeps ==
    ASSUME TableInv, Update
    PROVE  TableInv'
<1>1. PICK old \in live, len \in Lengths, fill \in Fills :
          LET row == [len |-> len, fill |-> fill]
              st  == CASE ~ensure_record_fits(len, Alignment) -> Fail(Store, "DataTooLarge")
                       [] ensure_record_fits(len, Alignment) /\ len = old.len ->
                            write_at(Store, old.page, old.offset, row)
                       [] OTHER -> InsertRecord(DeleteRecord(Store, old), row)
          IN Finish(st, (live \ {old}) \cup {At(st, row)})
  BY Zenon DEF Update
<1>2. PICK row : row = [len |-> len, fill |-> fill]
  OBVIOUS
<1>3. PICK st :
         st = CASE ~ensure_record_fits(len, Alignment) -> Fail(Store, "DataTooLarge")
                [] ensure_record_fits(len, Alignment) /\ len = old.len ->
                     write_at(Store, old.page, old.offset, row)
                [] OTHER -> InsertRecord(DeleteRecord(Store, old), row)
  OBVIOUS
<1>4. Finish(st, (live \ {old}) \cup {At(st, row)})
  BY <1>1, <1>2, <1>3, Zenon
<1>5. row \in Body /\ row.len = len
  BY <1>2, BodyOf
<1>6. Keeps(Store, live) /\ IsStore(Store) /\ Store.err = "ok"
  BY StoreKeeps DEF Keeps
<1>7. Ends(st, (live \ {old}) \cup {At(st, row)})
  <2>1. CASE ~ensure_record_fits(len, Alignment)
    <3>1. st = Fail(Store, "DataTooLarge")
      BY <1>3, <2>1, Zenon
    <3> QED
      BY <1>6, <3>1, FailRefused DEF Ends
  <2>2. CASE ensure_record_fits(len, Alignment) /\ len = old.len
    <3>1. st = write_at(Store, old.page, old.offset, row)
      BY <1>3, <2>2, Zenon
    <3>2. Keeps(st, (live \ {old}) \cup {At(st, row)})
      BY <1>5, <1>6, <2>2, <3>1, RowOverwritten
    <3> QED
      BY <3>2 DEF Ends
  <2>3. CASE ensure_record_fits(len, Alignment) /\ len # old.len
    <3>1. st = InsertRecord(DeleteRecord(Store, old), row)
      BY <1>3, <2>3, Zenon
    <3> QED
      BY <1>5, <1>6, <3>1, RowMoved
  <2> QED
    BY <2>1, <2>2, <2>3
<1> QED
  BY <1>4, <1>7, Finished

\* A scan with the alignment of the records finds the live rows, each once.
LEMMA ScansList ==
    ASSUME TableInv
    PROVE  /\ Lists(read, live)
           /\ SnapshotAlignment = Alignment => Lists(iter_raw, live)
<1>1. Memory(mem, live) /\ SoundRows(live) /\ SoundLedger(ledger)
      /\ \A r \in live : Fits(ledger, Piece(r))
  BY DEF TableInv, Space
<1>2. Lists(ScanPages(Alignment), live)
  BY <1>1, ScanLists
<1>3. /\ read = ScanPages(Alignment)
      /\ SnapshotAlignment = Alignment => iter_raw = ScanPages(Alignment)
  BY DEF read, iter_raw
<1> QED
  BY <1>2, <1>3

LEMMA RewriteKeeps ==
    ASSUME SnapshotAlignment = Alignment, TableInv, RewriteTable
    PROVE  TableInv'
<1>1. PICK growth \in Growths :
          LET done == RewriteRows(Store, iter_raw, growth)
          IN /\ \A row \in ToSet(iter_raw) : row.len + growth > 0
             /\ Finish(done.st, done.rows)
  BY Zenon DEF RewriteTable
<1>2. PICK done : done = RewriteRows(Store, iter_raw, growth)
  OBVIOUS
<1>3. Lists(iter_raw, live)
  BY ScansList
<1>4. ToSet(iter_raw) = live
  BY <1>3, ListsCount
<1>5. (\A row \in live : row.len + growth > 0) /\ Finish(done.st, done.rows)
  BY <1>1, <1>2, <1>4
<1>6. growth \in Int
  BY LayoutAssumption
<1>7. ASSUME NEW r \in live
      PROVE  Grown(r, growth) \in Body
  <2>1. r.len \in Nat /\ r.fill \in Nat
    BY RowFields DEF TableInv, Space
  <2>2. r.len + growth \in Nat \ {0}
    BY <1>5, <1>6, <2>1
  <2> QED
    BY <2>1, <2>2 DEF Grown, Body
<1>8. Underway(done, {})
  BY <1>2, <1>3, <1>7, StoreKeeps, TableRewritten
<1>9. Ends(done.st, done.rows)
  BY <1>8 DEF Underway, Ends
<1> QED
  BY <1>5, <1>9, Finished

LEMMA ReleaseKeeps ==
    ASSUME TableInv, ReleasePages
    PROVE  TableInv'
<1> DEFINE pages == PagesOf(ledger) \o PagesOf(tables)
<1>1. /\ mem' = [p \in PageIds |-> IF p \in ToSet(pages) THEN [o \in Cells |-> 0] ELSE mem[p]]
      /\ pool' = pool \o pages /\ ledger' = <<>> /\ tables' = <<>> /\ live' = {} /\ result' = "ok"
  BY Zenon DEF ReleasePages, PagesOf
<1>2. /\ ledger \in Seq(PageRecord) /\ tables \in Seq(SegmentTable)
      /\ Owners(ledger, tables, pool) /\ Memory(mem, live) /\ SoundRows(live)
      /\ \A r \in live : Fits(ledger, Piece(r))
  BY DEF TableInv, Space, SoundLedger, Sound
<1>3. /\ Enumerates(PageIds, pool \o pages, PageIds) /\ Len(pool \o pages) = Len(PagePool)
      /\ ToSet(pages) = {ledger[i].page : i \in DOMAIN ledger} \cup {tables[i].page : i \in DOMAIN tables}
  BY <1>2, PagesJoined
<1> HIDE DEF pages
<1>4. Owners(<<>>, <<>>, pool \o pages)
  BY <1>3, OwnersOfPool
<1>5. PICK m : m = [p \in PageIds |-> IF p \in ToSet(pages) THEN [o \in Cells |-> 0] ELSE mem[p]]
  OBVIOUS
<1>6. ASSUME NEW p \in PageIds, NEW o \in Cells
      PROVE  m[p][o] = 0 /\ m[p] \in [Cells -> Nat]
  <2>1. CASE p \in ToSet(pages)
    BY <1>5, <2>1
  <2>2. CASE p \notin ToSet(pages)
    <3>1. m[p] = mem[p]
      BY <1>5, <2>2
    <3>2. ~InRow(live, p, o)
      <4> SUFFICES ASSUME NEW r \in live, In(Piece(r), p, o) PROVE FALSE
        BY DEF InRow
      <4>1. PICK k \in DOMAIN ledger : Piece(r).page = ledger[k].page
        BY <1>2 DEF Fits
      <4>2. p = ledger[k].page
        BY <4>1 DEF In
      <4> QED
        BY <1>3, <2>2, <4>1, <4>2
    <3>3. mem[p][o] = 0 /\ mem[p] \in [Cells -> Nat]
      BY <1>2, <3>2 DEF Memory
    <3> QED
      BY <3>1, <3>3
  <2> QED
    BY <2>1, <2>2
<1>7. m \in [PageIds -> [Cells -> Nat]]
  <2>1. 0 \in Cells
    BY LayoutAssumption DEF Cells
  <2>2. \A p \in PageIds : m[p] \in [Cells -> Nat]
    BY <1>6, <2>1
  <2>3. DOMAIN m = PageIds /\ m = [p \in PageIds |-> m[p]]
    BY <1>5
  <2> QED
    BY <2>2, <2>3
<1>8. Memory(m, {})
  BY <1>6, <1>7, MemoryOfNothing
<1> QED
  BY <1>1, <1>4, <1>5, <1>8, SpaceOfNothing DEF TableInv

LEMMA InitKeeps ==
    ASSUME \A i, j \in DOMAIN PagePool : PagePool[i] = PagePool[j] => i = j, Init
    PROVE  TableInv
<1>1. PagePool \in Seq(PageIds)
  <2>1. PagePool \in Seq(Nat) /\ PageIds = {PagePool[i] : i \in DOMAIN PagePool}
    BY LayoutAssumption DEF PageIds, ToSet
  <2>2. Len(PagePool) \in Nat /\ DOMAIN PagePool = 1..Len(PagePool)
        /\ PagePool = [i \in 1..Len(PagePool) |-> PagePool[i]]
    BY <2>1
  <2>3. \A i \in 1..Len(PagePool) : PagePool[i] \in PageIds
    BY <2>1, <2>2
  <2> QED
    BY <2>2, <2>3
<1>2. Enumerates(PageIds, PagePool, PageIds)
  BY <1>1 DEF Enumerates, PageIds
<1>3. Owners(<<>>, <<>>, PagePool)
  BY <1>2, OwnersOfPool
<1>4. PICK m : m = [p \in PageIds |-> [o \in Cells |-> 0]]
  OBVIOUS
<1>5. m \in [PageIds -> [Cells -> Nat]] /\ \A p \in PageIds : \A o \in Cells : m[p][o] = 0
  BY <1>4
<1>6. Memory(m, {})
  BY <1>5, MemoryOfNothing
<1> QED
  BY <1>3, <1>4, <1>6, SpaceOfNothing DEF Init, TableInv

\* The memory manager hands out no page twice, and a table that is ever
\* migrated is read by migrations with the alignment that CRUD writes with.
\* The stored snapshot has that alignment for every table with a column of
\* dynamic size; for one with fixed-size columns only it leaves out the record
\* header, so the second part does not hold and RawScanIsExact fails.
Layout ==
    /\ \A i, j \in DOMAIN PagePool : PagePool[i] = PagePool[j] => i = j
    /\ SnapshotAlignment = Alignment \/ Growths = {}

LEMMA TableKept ==
    ASSUME Layout, TableInv, [Next]_vars
    PROVE  TableInv'
<1>1. CASE Insert
  BY <1>1, InsertKeeps
<1>2. CASE Delete
  BY <1>2, DeleteKeeps
<1>3. CASE Update
  BY <1>3, UpdateKeeps
<1>4. CASE RewriteTable
  <2>1. Growths # {}
    BY <1>4 DEF RewriteTable
  <2> QED
    BY <1>4, <2>1, RewriteKeeps DEF Layout
<1>5. CASE ReleasePages
  BY <1>5, ReleaseKeeps
<1>6. CASE UNCHANGED vars
  BY <1>6 DEF vars, TableInv
<1> QED
  BY <1>1, <1>2, <1>3, <1>4, <1>5, <1>6 DEF Next

\* The pages of a table stay divided between records, free segments and
\* untouched tails, whatever CRUD, migrations and drops do (TableRegistry
\* insert, update, delete, insert_raw, delete_raw, release_pages).
THEOREM TableInvariant ==
    ASSUME Layout
    PROVE  Spec => []TableInv
<1>1. Init => TableInv
  BY InitKeeps DEF Layout
<1>2. TableInv /\ [Next]_vars => TableInv'
  BY TableKept
<1> QED
  BY <1>1, <1>2, PTL DEF Spec

\* The state keeps its shape, and no free-segment table holds more segments
\* than its page has room for (FreeSegmentsTable::is_full).
THEOREM TypeCorrect ==
    ASSUME Layout
    PROVE  Spec => []TypeOK
<1>1. TableInv => TypeOK
  <2> SUFFICES ASSUME TableInv PROVE TypeOK
    OBVIOUS
  <2>1. /\ mem \in [PageIds -> [Cells -> Nat]] /\ ledger \in Seq(PageRecord)
        /\ pool \in Seq(PageIds)
    BY DEF TableInv, Memory, Space, SoundLedger, Owners
  <2>2. ASSUME NEW i \in DOMAIN tables
        PROVE  /\ tables[i].page \in PageIds /\ tables[i].records \in Seq(FreeSegment)
               /\ Len(tables[i].records) <= TableCapacity
    <3>1. tables \in Seq(SegmentTable) /\ Len(tables[i].records) <= TableCapacity
      BY DEF TableInv, Space, Sound
    <3>2. tables[i] \in SegmentTable
      BY <3>1
    <3> QED
      BY <3>1, <3>2 DEF SegmentTable
  <2>3. ASSUME NEW row \in live
        PROVE  [page |-> row.page, offset |-> row.offset] \in RecordAddress /\ row.len \in Nat
    <3>1. row.page \in PageIds /\ row.offset \in Cells /\ row.len \in Nat
      BY RowFields DEF TableInv, Space
    <3> QED
      BY <3>1 DEF RecordAddress
  <2> QED
    BY <2>1, <2>2, <2>3 DEF TypeOK
<1> QED
  BY <1>1, TableInvariant, PTL

\* Every cell of a table has one use, no space and no page is lost, and the
\* allocator never runs into an internal error, for every page size,
\* alignment, capacity and pool.
THEOREM CellsAreUsedOnce ==
    ASSUME Layout
    PROVE  Spec => []CellsHaveOneUse
<1>1. TableInv => CellsHaveOneUse
  <2> SUFFICES ASSUME TableInv PROVE CellsHaveOneUse
    OBVIOUS
  <2>1. Space(ledger, tables, live) /\ Owners(ledger, tables, pool) /\ NoInternalError
    BY DEF TableInv, NoInternalError
  <2> QED
    BY <2>1, SpaceNotShared, SpaceNotLost, PagesKept DEF CellsHaveOneUse
<1> QED
  BY <1>1, TableInvariant, PTL

\* The scan of a query returns the live rows, each once, at their addresses
\* and with their values (TableReader), also in a table that migrations
\* would misread as long as none runs.
THEOREM QueriesFindTheRows ==
    ASSUME Layout
    PROVE  Spec => []ScanIsExact
<1>1. TableInv => ScanIsExact
  BY ScansList, ListsCount DEF ScanIsExact
<1> QED
  BY <1>1, TableInvariant, PTL

\* So do the scans of queries and of migrations both, when the stored
\* snapshot has the alignment of the records (TableReader, RawTableReader).
THEOREM ScansFindTheRows ==
    ASSUME Layout, SnapshotAlignment = Alignment
    PROVE  Spec => []ScansAreExact
<1>1. TableInv => ScansAreExact
  BY ScansList, ListsCount DEF ScansAreExact, ScanIsExact, RawScanIsExact
<1> QED
  BY <1>1, TableInvariant, PTL
=============================================================================
