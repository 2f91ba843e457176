------------------------- MODULE PageOwnershipProofs -------------------------
(***************************************************************************)
(* Proofs about JournaledMemory: no page is in two hands between two       *)
(* operations, and claim_page hands out blank pages only.                  *)
(*                                                                         *)
(* Inside a block a page may be in two places at once: a page that is      *)
(* being dropped is on the ledger of unclaimed pages before the registry   *)
(* forgets it, and may even be claimed and linked again before that.  The  *)
(* invariant therefore counts: a page is in one place, or in two when it   *)
(* was released and not unlinked yet.                                      *)
(***************************************************************************)
EXTENDS JournaledMemoryProofs

\* p has been claimed or is on the ledger U of unclaimed pages.
Elsewhere(U, c, p) == p \in c \/ \E j \in 1 .. Len(U) : U[j] = p

\* An unclaimed page is listed once and in no operation's hands.
UnclaimedOnce(U, c) ==
    \A i \in 1 .. Len(U) :
        /\ U[i] \notin c
        /\ \A j \in 1 .. Len(U) : i # j => U[i] # U[j]

\* A linked page that was not released is in one place.
LinkedOnce(L, U, c, r) ==
    \A i \in 1 .. Len(L) :
        L[i] \notin r =>
            /\ ~Elsewhere(U, c, L[i])
            /\ \A j \in 1 .. Len(L) : i # j => L[i] # L[j]

\* A page that is linked twice is in those two places only.
LinkedTwice(L, U, c) ==
    \A i, j \in 1 .. Len(L) :
        i # j /\ L[i] = L[j] =>
            /\ ~Elsewhere(U, c, L[i])
            /\ \A k \in 1 .. Len(L) : k # i /\ k # j => L[k] # L[i]

Apart(L, U, c, r) == UnclaimedOnce(U, c) /\ LinkedOnce(L, U, c, r) /\ LinkedTwice(L, U, c)

BlankPages(m, U) == \A i \in 1 .. Len(U) : \A o \in Offset : m[U[i]][o] = 0

Owned(m, c, r) ==
    /\ Apart(decode(m, SCHEMA_PAGE), decode(m, UNCLAIMED_PAGES_PAGE), c, r)
    /\ BlankPages(m, decode(m, UNCLAIMED_PAGES_PAGE))

\* The inductive invariant, beside IInv.
OInv ==
    /\ phase = "run" => Owned(mem, claimed, released)
    /\ Owned(saved, {}, {})
    /\ depth = 0 => claimed = {} /\ released = {}

-----------------------------------------------------------------------------
(* The two lists                                                           *)

\* claim_page pops the ledger.
LEMMA ClaimApart ==
    ASSUME NEW L \in Seq(Nat), NEW U \in Seq(Nat), NEW c, NEW r, Apart(L, U, c, r), U # <<>>
    PROVE  Apart(L, SubSeq(U, 1, Len(U) - 1), c \union {U[Len(U)]}, r)
<1> DEFINE n == Len(U)
           V == SubSeq(U, 1, n - 1)
           d == c \union {U[n]}
<1>1. /\ n \in Nat /\ n >= 1 /\ Len(V) = n - 1
      /\ \A i \in 1 .. n - 1 : V[i] = U[i]
  BY FrontOf
<1> HIDE DEF V, n
<1>2. Len(U) = n /\ n \in 1 .. n /\ \A i \in 1 .. n - 1 : i \in 1 .. n /\ i # n
  BY <1>1 DEF n
<1>3. UnclaimedOnce(V, d)
  BY <1>1, <1>2 DEF Apart, UnclaimedOnce
<1>4. \A p : Elsewhere(V, d, p) => Elsewhere(U, c, p)
  BY <1>1, <1>2 DEF Elsewhere
<1>5. LinkedOnce(L, V, d, r) /\ LinkedTwice(L, V, d)
  BY <1>4 DEF Apart, LinkedOnce, LinkedTwice
<1> QED
  BY <1>3, <1>5 DEF Apart, V, n

\* claim_page returns a page that is on no list.
LEMMA GrowApart ==
    ASSUME NEW L, NEW U, NEW c, NEW r, NEW p, Apart(L, U, c, r),
           \A i \in 1 .. Len(L) : L[i] # p, \A i \in 1 .. Len(U) : U[i] # p
    PROVE  Apart(L, U, c \union {p}, r)
BY DEF Apart, UnclaimedOnce, LinkedOnce, LinkedTwice, Elsewhere

\* A claimed page is linked.
LEMMA LinkApart ==
    ASSUME NEW L \in Seq(Nat), NEW U, NEW c, NEW r, NEW p \in c, p \in Nat, Apart(L, U, c, r)
    PROVE  Apart(Append(L, p), U, c \ {p}, r)
<1> DEFINE M == Append(L, p)
           n == Len(L)
           d == c \ {p}
<1>1. /\ n \in Nat /\ Len(M) = n + 1 /\ M[n + 1] = p
      /\ \A i \in 1 .. n : M[i] = L[i]
  BY AppendTo
<1> HIDE DEF M
<1>2. \A i \in 1 .. Len(M) : i \in 1 .. n \/ i = n + 1
  BY <1>1
<1>3. UnclaimedOnce(U, d) /\ ~Elsewhere(U, d, p) /\ \A q : Elsewhere(U, d, q) => Elsewhere(U, c, q)
  BY DEF Apart, UnclaimedOnce, Elsewhere
<1>4. \A i \in 1 .. n : L[i] = p => p \in r /\ \A j \in 1 .. n : i # j => L[j] # p
  BY DEF Apart, LinkedOnce, LinkedTwice, Elsewhere
<1>5. LinkedOnce(M, U, d, r)
  <2> SUFFICES ASSUME NEW i \in 1 .. Len(M), M[i] \notin r
               PROVE  /\ ~Elsewhere(U, d, M[i])
                      /\ \A j \in 1 .. Len(M) : i # j => M[i] # M[j]
    BY DEF LinkedOnce
  <2>1. CASE i = n + 1
    BY <1>1, <1>2, <1>3, <1>4, <2>1
  <2>2. CASE i \in 1 .. n
    <3>1. L[i] \notin r /\ L[i] # p
      BY <1>1, <1>4, <2>2 DEF Apart, LinkedOnce, Elsewhere
    <3> QED
      BY <1>1, <1>2, <1>3, <2>2, <3>1 DEF Apart, LinkedOnce
  <2> QED
    BY <1>2, <2>1, <2>2
<1>6. LinkedTwice(M, U, d)
  <2> SUFFICES ASSUME NEW i \in 1 .. Len(M), NEW j \in 1 .. Len(M), i # j, M[i] = M[j]
               PROVE  /\ ~Elsewhere(U, d, M[i])
                      /\ \A k \in 1 .. Len(M) : k # i /\ k # j => M[k] # M[i]
    BY DEF LinkedTwice
  <2>1. CASE M[i] = p
    BY <1>1, <1>2, <1>3, <1>4, <2>1
  <2>2. CASE M[i] # p
    BY <1>1, <1>2, <1>3, <2>2 DEF Apart, LinkedTwice
  <2> QED
    BY <2>1, <2>2
<1> QED
  BY <1>3, <1>5, <1>6 DEF Apart, M

\* unclaim_page pushes a linked page on the ledger.
LEMMA UnclaimApart ==
    ASSUME NEW L \in Seq(Nat), NEW U \in Seq(Nat), NEW c, NEW r, NEW h \in 1 .. Len(L),
           L[h] \notin r, Apart(L, U, c, r)
    PROVE  Apart(L, Append(U, L[h]), c, r \union {L[h]})
<1> DEFINE p == L[h]
           V == Append(U, p)
           n == Len(U)
<1>1. p \in Nat
  OBVIOUS
<1> HIDE DEF p
<1>2. /\ n \in Nat /\ Len(V) = n + 1 /\ V[n + 1] = p
      /\ \A i \in 1 .. n : V[i] = U[i]
  BY <1>1, AppendTo
<1> HIDE DEF V
<1>3. \A i \in 1 .. Len(V) : i \in 1 .. n \/ i = n + 1
  BY <1>2
<1>4. ~Elsewhere(U, c, p) /\ \A j \in 1 .. Len(L) : j # h => L[j] # p
  BY DEF Apart, LinkedOnce, p
<1>5. \A q : q # p /\ Elsewhere(V, c, q) => Elsewhere(U, c, q)
  BY <1>2, <1>3 DEF Elsewhere
<1>6. UnclaimedOnce(V, c)
  BY <1>2, <1>3, <1>4 DEF Apart, UnclaimedOnce, Elsewhere
<1>7. LinkedOnce(L, V, c, r \union {p})
  BY <1>5 DEF Apart, LinkedOnce
<1>8. LinkedTwice(L, V, c)
  <2> SUFFICES ASSUME NEW i \in 1 .. Len(L), NEW j \in 1 .. Len(L), i # j, L[i] = L[j]
               PROVE  /\ ~Elsewhere(V, c, L[i])
                      /\ \A k \in 1 .. Len(L) : k # i /\ k # j => L[k] # L[i]
    BY DEF LinkedTwice
  <2>1. L[i] # p
    BY <1>4
  <2> QED
    BY <1>5, <2>1 DEF Apart, LinkedTwice
<1> QED
  BY <1>6, <1>7, <1>8 DEF Apart, V, p

\* The registry forgets a released page.
LEMMA UnlinkApart ==
    ASSUME NEW L \in Seq(Nat), NEW U, NEW c, NEW r, NEW i \in 1 .. Len(L), L[i] \in r,
           Apart(L, U, c, r)
    PROVE  Apart(Without(L, i), U, c, r \ {L[i]})
<1> DEFINE n == Len(L)
           W == Without(L, i)
           at == [k \in 1 .. n - 1 |-> IF k < i THEN k ELSE k + 1]
           p == L[i]
<1>1. n \in Nat /\ Len(W) = n - 1
  BY WithoutOne
<1>2. \A k \in 1 .. n - 1 : at[k] \in 1 .. n /\ at[k] # i /\ W[k] = L[at[k]]
  BY <1>1 DEF Without
<1>3. \A k, l \in 1 .. n - 1 : k # l => at[k] # at[l]
  BY <1>1
<1> HIDE DEF W, at, p, n
<1>4. Len(L) = n
  BY DEF n
<1>5. UnclaimedOnce(U, c)
  BY DEF Apart
<1>6. LinkedOnce(W, U, c, r \ {p})
  <2> SUFFICES ASSUME NEW k \in 1 .. n - 1, W[k] \notin r \ {p}
               PROVE  /\ ~Elsewhere(U, c, W[k])
                      /\ \A l \in 1 .. n - 1 : k # l => W[k] # W[l]
    BY <1>1 DEF LinkedOnce
  <2>1. CASE W[k] \notin r
    <3>1. at[k] \in 1 .. n /\ W[k] = L[at[k]] /\ L[at[k]] \notin r
      BY <1>2, <2>1
    <3>2. ~Elsewhere(U, c, L[at[k]]) /\ \A l \in 1 .. n : at[k] # l => L[at[k]] # L[l]
      BY <1>4, <3>1 DEF Apart, LinkedOnce
    <3> QED
      BY <1>2, <1>3, <3>1, <3>2
  <2>2. CASE W[k] = p
    <3>1. i # at[k] /\ L[i] = L[at[k]] /\ at[k] \in 1 .. n /\ i \in 1 .. n
      BY <1>2, <1>4, <2>2 DEF p
    <3>2. ~Elsewhere(U, c, L[i]) /\ \A l \in 1 .. n : l # i /\ l # at[k] => L[l] # L[i]
      BY <1>4, <3>1 DEF Apart, LinkedTwice
    <3> QED
      BY <1>2, <1>3, <2>2, <3>2 DEF p
  <2> QED
    BY <2>1, <2>2
<1>7. LinkedTwice(W, U, c)
  <2> SUFFICES ASSUME NEW k \in 1 .. n - 1, NEW l \in 1 .. n - 1, k # l, W[k] = W[l]
               PROVE  /\ ~Elsewhere(U, c, W[k])
                      /\ \A h \in 1 .. n - 1 : h # k /\ h # l => W[h] # W[k]
    BY <1>1 DEF LinkedTwice
  <2>1. at[k] # at[l] /\ L[at[k]] = L[at[l]] /\ at[k] \in 1 .. n /\ at[l] \in 1 .. n
    BY <1>2, <1>3
  <2>2. ~Elsewhere(U, c, L[at[k]]) /\ \A h \in 1 .. n : h # at[k] /\ h # at[l] => L[h] # L[at[k]]
    BY <1>4, <2>1 DEF Apart, LinkedTwice
  <2> QED
    BY <1>2, <1>3, <2>2
<1> QED
  BY <1>5, <1>6, <1>7 DEF Apart, W, p

-----------------------------------------------------------------------------
(* Lists in memory                                                         *)

\* An encoded list is decoded as it was, and the other ledger is left alone.
LEMMA DecodeWritten ==
    ASSUME NEW m \in Memory, NEW p \in Page, NEW list \in Seq(Nat), Len(list) + 1 < PageCells
    PROVE  decode(write_at_raw(m, p, 0, encode(list)), p) = list
<1> DEFINE w == write_at_raw(m, p, 0, encode(list))
<1>1. /\ encode(list) \in Seq(Nat)
      /\ Len(encode(list)) = Len(list) + 1
      /\ encode(list)[1] = Len(list)
      /\ \A i \in 1 .. Len(list) : encode(list)[i + 1] = list[i]
  BY EncodeCells
<1>2. Len(list) \in Nat
  OBVIOUS
<1>3. 0 \in Offset /\ \A i \in 1 .. Len(list) : i \in Offset
  BY <1>2, SizesAssumption DEF Offset
<1>4. w[p][0] = Len(list)
  <2>1. 0 \in Offset /\ 0 \in Nat /\ 0 <= 0 /\ 0 < 0 + Len(encode(list))
    BY <1>1, <1>2, <1>3
  <2>2. w[p][0] = encode(list)[0 - 0 + 1]
    BY <1>1, <2>1, WriteCell
  <2> QED
    BY <1>1, <2>2
<1>5. ASSUME NEW i \in 1 .. Len(list)
      PROVE  w[p][i] = list[i]
  <2>1. i \in Offset /\ 0 <= i /\ i < 0 + Len(encode(list))
    BY <1>1, <1>2, <1>3
  <2>2. w[p][i] = encode(list)[i - 0 + 1]
    BY <1>1, <2>1, WriteCell
  <2> QED
    BY <1>1, <2>2
<1> HIDE DEF w
<1>6. decode(w, p) = [i \in 1 .. Len(list) |-> list[i]]
  BY <1>4, <1>5 DEF decode
<1> QED
  BY <1>6 DEF w

\* A write to one page leaves the list on another page.
LEMMA DecodeElsewhere ==
    ASSUME NEW m \in Memory, NEW p \in Page, NEW offset \in Nat, NEW buf \in Seq(Nat),
           NEW q \in Page, q # p
    PROVE  decode(write_at_raw(m, p, offset, buf), q) = decode(m, q)
BY WriteElsewhere DEF decode

\* A write to a page that is not on the ledger leaves its pages blank.
LEMMA BlankElsewhere ==
    ASSUME NEW m \in Memory, NEW p \in Page, NEW offset \in Nat, NEW buf \in Seq(Nat), NEW U,
           BlankPages(m, U), \A i \in 1 .. Len(U) : U[i] \in Page /\ U[i] # p
    PROVE  BlankPages(write_at_raw(m, p, offset, buf), U)
BY WriteElsewhere DEF BlankPages

-----------------------------------------------------------------------------
(* One step                                                                *)

\* The pages of the two lists are pages, none of them reserved.
LEMMA OwnedPages ==
    ASSUME LedgersFitPages, IInv, phase = "run"
    PROVE  /\ Linked \in Seq(Nat) /\ Unclaimed \in Seq(Nat)
           /\ Len(Linked) \in Nat /\ Len(Linked) <= MaxLinked
           /\ Len(Unclaimed) \in Nat /\ Len(Unclaimed) <= UNCLAIMED_PAGES_CAPACITY
           /\ \A i \in 1 .. Len(Linked) :
                 /\ Linked[i] \in Page /\ Linked[i] < pages
                 /\ Linked[i] # SCHEMA_PAGE /\ Linked[i] # UNCLAIMED_PAGES_PAGE
           /\ \A i \in 1 .. Len(Unclaimed) :
                 /\ Unclaimed[i] \in Page /\ Unclaimed[i] < pages
                 /\ Unclaimed[i] # SCHEMA_PAGE /\ Unclaimed[i] # UNCLAIMED_PAGES_PAGE
           /\ \A p \in claimed :
                 /\ p \in Page /\ p < pages
                 /\ p # SCHEMA_PAGE /\ p # UNCLAIMED_PAGES_PAGE
<1>1. TypeOK /\ Ledgers(mem, pages) /\ claimed \subseteq RESERVED_PAGES .. pages - 1
  BY DEF IInv
<1>2. ASSUME NEW p \in RESERVED_PAGES .. pages - 1
      PROVE  p \in Page /\ p < pages /\ p # SCHEMA_PAGE /\ p # UNCLAIMED_PAGES_PAGE
  BY <1>1, SizesAssumption DEF TypeOK, Page, RESERVED_PAGES, SCHEMA_PAGE, UNCLAIMED_PAGES_PAGE
<1> QED
  BY <1>1, <1>2, CurrentLedgers

\* What Owned says of the current memory.
LEMMA OwnedNow ==
    ASSUME NEW c, NEW r
    PROVE  Owned(mem, c, r) <=> Apart(Linked, Unclaimed, c, r) /\ BlankPages(mem, Unclaimed)
BY DEF Owned, Linked, Unclaimed

\* A step that leaves the memory and what operations hold.
LEMMA OwnedKept ==
    ASSUME OInv, UNCHANGED <<mem, saved, claimed, released>>,
           phase' = "run" => phase = "run", depth' = 0 => depth = 0
    PROVE  OInv'
BY DEF OInv, Owned

\* The registry is written inside a block.
LEMMA RegistryWritten ==
    ASSUME LedgersFitPages, IInv, OInv, Active, NEW list \in Seq(Nat), Len(list) <= MaxLinked,
           mem' = write_at_raw(mem, SCHEMA_PAGE, 0, encode(list)),
           Apart(list, Unclaimed, claimed', released'), UNCHANGED <<depth, phase, saved>>
    PROVE  OInv'
<1>1. /\ SCHEMA_PAGE \in Page /\ UNCLAIMED_PAGES_PAGE \in Page
      /\ UNCLAIMED_PAGES_PAGE # SCHEMA_PAGE /\ mem \in Memory
      /\ MaxLinked \in Nat /\ MaxLinked + 1 < PageCells /\ 0 \in Nat
  BY Basics DEF IInv
<1>2. encode(list) \in Seq(Nat) /\ Len(list) + 1 < PageCells
  BY <1>1, EncodeCells, SizesAssumption
<1>3. decode(mem', SCHEMA_PAGE) = list
  BY <1>1, <1>2, DecodeWritten
<1>4. decode(mem', UNCLAIMED_PAGES_PAGE) = Unclaimed
  BY <1>1, <1>2, DecodeElsewhere DEF Unclaimed
<1>5. BlankPages(mem', Unclaimed)
  <2>1. \A i \in 1 .. Len(Unclaimed) : Unclaimed[i] \in Page /\ Unclaimed[i] # SCHEMA_PAGE
    BY OwnedPages DEF Active
  <2>2. BlankPages(mem, Unclaimed)
    BY OwnedNow DEF OInv, Active
  <2> QED
    BY <1>1, <1>2, <2>1, <2>2, BlankElsewhere
<1>6. Owned(mem', claimed', released')
  BY <1>3, <1>4, <1>5 DEF Owned
<1>7. depth' # 0
  BY DEF Active, IInv, TypeOK
<1> QED
  BY <1>6, <1>7 DEF OInv, Owned

\* The ledger of unclaimed pages is written inside a block, after a page that
\* is no ledger was written or not.
LEMMA UnclaimedWritten ==
    ASSUME LedgersFitPages, IInv, OInv, Active, NEW m \in Memory, NEW list \in Seq(Nat),
           Len(list) <= UNCLAIMED_PAGES_CAPACITY,
           \A i \in 1 .. Len(list) : list[i] \in Page /\ list[i] # UNCLAIMED_PAGES_PAGE,
           decode(m, SCHEMA_PAGE) = Linked, BlankPages(m, list),
           mem' = write_at_raw(m, UNCLAIMED_PAGES_PAGE, 0, encode(list)),
           Apart(Linked, list, claimed', released'), UNCHANGED <<depth, phase, saved>>
    PROVE  OInv'
<1>1. /\ SCHEMA_PAGE \in Page /\ UNCLAIMED_PAGES_PAGE \in Page
      /\ UNCLAIMED_PAGES_PAGE # SCHEMA_PAGE /\ 0 \in Nat
      /\ UNCLAIMED_PAGES_CAPACITY \in Nat /\ UNCLAIMED_PAGES_CAPACITY + 1 < PageCells
  BY Basics DEF IInv
<1>2. encode(list) \in Seq(Nat) /\ Len(list) + 1 < PageCells
  BY <1>1, EncodeCells, SizesAssumption
<1>3. decode(mem', UNCLAIMED_PAGES_PAGE) = list
  BY <1>1, <1>2, DecodeWritten
<1>4. decode(mem', SCHEMA_PAGE) = Linked
  BY <1>1, <1>2, DecodeElsewhere
<1>5. BlankPages(mem', list)
  BY <1>1, <1>2, BlankElsewhere
<1>6. Owned(mem', claimed', released')
  BY <1>3, <1>4, <1>5 DEF Owned
<1>7. depth' # 0
  BY DEF Active, IInv, TypeOK
<1> QED
  BY <1>6, <1>7 DEF OInv, Owned

\* A page in use is written: neither list changes and no unclaimed page does.
LEMMA PageWritten ==
    ASSUME LedgersFitPages, IInv, phase = "run", NEW c, NEW r, Owned(mem, c, r),
           NEW p \in Page, p # SCHEMA_PAGE, p # UNCLAIMED_PAGES_PAGE,
           ~\E j \in 1 .. Len(Unclaimed) : Unclaimed[j] = p,
           NEW o \in Nat, NEW buf \in Seq(Nat)
    PROVE  /\ Owned(write_at_raw(mem, p, o, buf), c, r)
           /\ decode(write_at_raw(mem, p, o, buf), SCHEMA_PAGE) = Linked
           /\ decode(write_at_raw(mem, p, o, buf), UNCLAIMED_PAGES_PAGE) = Unclaimed
           /\ BlankPages(write_at_raw(mem, p, o, buf), Unclaimed)
<1>1. SCHEMA_PAGE \in Page /\ UNCLAIMED_PAGES_PAGE \in Page /\ mem \in Memory
  BY Basics DEF IInv
<1>2. /\ decode(write_at_raw(mem, p, o, buf), SCHEMA_PAGE) = Linked
      /\ decode(write_at_raw(mem, p, o, buf), UNCLAIMED_PAGES_PAGE) = Unclaimed
  BY <1>1, DecodeElsewhere DEF Linked, Unclaimed
<1>3. \A i \in 1 .. Len(Unclaimed) : Unclaimed[i] \in Page /\ Unclaimed[i] # p
  BY OwnedPages
<1>4. Apart(Linked, Unclaimed, c, r) /\ BlankPages(mem, Unclaimed)
  BY OwnedNow
<1>5. BlankPages(write_at_raw(mem, p, o, buf), Unclaimed)
  BY <1>1, <1>3, <1>4, BlankElsewhere
<1> QED
  BY <1>2, <1>4, <1>5 DEF Owned

-----------------------------------------------------------------------------
(* The invariant                                                           *)

LEMMA InitOInv ==
    ASSUME LedgersFitPages, Init
    PROVE  OInv
<1>1. mem = saved /\ phase = "run" /\ claimed = {} /\ released = {}
  BY DEF Init
<1>2. SCHEMA_PAGE \in Page /\ UNCLAIMED_PAGES_PAGE \in Page /\ 0 \in Offset
  BY InitIInv, Basics DEF IInv
<1>3. decode(mem, SCHEMA_PAGE) = <<>> /\ decode(mem, UNCLAIMED_PAGES_PAGE) = <<>>
  BY <1>2 DEF Init, decode
<1>4. Owned(mem, {}, {})
  BY <1>3 DEF Owned, Apart, UnclaimedOnce, LinkedOnce, LinkedTwice, BlankPages
<1> QED
  BY <1>1, <1>4 DEF OInv

LEMMA NextOInv ==
    ASSUME LedgersFitPages, IInv, OInv, [Next]_vars
    PROVE  OInv'
<1>0. /\ TypeOK /\ mem \in Memory /\ saved \in Memory /\ 0 \in Nat
      /\ UNCLAIMED_PAGES_CAPACITY \in Nat /\ MaxLinked \in Nat
      /\ SCHEMA_PAGE \in Page /\ UNCLAIMED_PAGES_PAGE \in Page
      /\ UNCLAIMED_PAGES_PAGE # SCHEMA_PAGE
  BY Basics DEF IInv
<1>a. ASSUME phase = "run"
      PROVE  /\ Owned(mem, claimed, released)
             /\ Apart(Linked, Unclaimed, claimed, released) /\ BlankPages(mem, Unclaimed)
  BY <1>a, OwnedNow DEF OInv
<1>1. CASE BeginAtomic
  BY <1>1, OwnedKept DEF BeginAtomic
<1>2. CASE BeginNested
  <2>1. depth' # 0
    BY <1>0, <1>2 DEF BeginNested, TypeOK
  <2> QED
    BY <1>2, <2>1, OwnedKept DEF BeginNested
<1>3. CASE EndNested
  <2>1. depth' # 0
    BY <1>0, <1>3 DEF EndNested, TypeOK
  <2> QED
    BY <1>3, <2>1, OwnedKept DEF EndNested
<1>4. CASE EndAtomic
  BY <1>4 DEF EndAtomic, Active, OInv, Owned
<1>5. CASE Fail
  BY <1>5 DEF Fail, OInv, Owned
<1>6. CASE RollbackEntry
  BY <1>6 DEF RollbackEntry, OInv, Owned
<1>7. CASE RollbackDone
  <2>1. mem = saved
    BY <1>0, <1>7, NothingLeft DEF RollbackDone, IInv
  <2>2. claimed = {} /\ released = {}
    BY <1>7 DEF RollbackDone, IInv, OInv
  <2> QED
    BY <1>7, <2>1, <2>2 DEF RollbackDone, OInv, Owned
<1>8. CASE ClaimUnclaimed
  <2> DEFINE n == Len(Unclaimed)
             list == SubSeq(Unclaimed, 1, n - 1)
  <2>1. /\ Active /\ Unclaimed # <<>> /\ claimed' = claimed \union {Unclaimed[n]}
        /\ mem' = write_at_raw(mem, UNCLAIMED_PAGES_PAGE, 0, encode(list))
        /\ UNCHANGED <<pages, depth, phase, released, saved>>
    BY <1>8 DEF ClaimUnclaimed, write_at
  <2>2. phase = "run"
    BY <2>1 DEF Active
  <2>3. /\ Linked \in Seq(Nat) /\ Unclaimed \in Seq(Nat)
        /\ n \in Nat /\ n <= UNCLAIMED_PAGES_CAPACITY
        /\ \A i \in 1 .. n : Unclaimed[i] \in Page /\ Unclaimed[i] # UNCLAIMED_PAGES_PAGE
    BY <2>2, OwnedPages
  <2>4. /\ list \in Seq(Nat) /\ Len(list) = n - 1 /\ n >= 1
        /\ \A i \in 1 .. n - 1 : list[i] = Unclaimed[i]
    BY <2>1, <2>3, FrontOf
  <2>5. Apart(Linked, list, claimed', released')
    BY <1>a, <2>1, <2>2, <2>3, ClaimApart
  <2> HIDE DEF n, list
  <2>6. /\ Len(list) <= UNCLAIMED_PAGES_CAPACITY
        /\ \A i \in 1 .. Len(list) : i \in 1 .. n
    BY <1>0, <2>3, <2>4
  <2>7. /\ \A i \in 1 .. Len(list) : list[i] \in Page /\ list[i] # UNCLAIMED_PAGES_PAGE
        /\ BlankPages(mem, list)
    BY <1>a, <2>2, <2>3, <2>4, <2>6 DEF BlankPages, n
  <2>8. decode(mem, SCHEMA_PAGE) = Linked
    BY DEF Linked
  <2> QED
    BY <1>0, <2>1, <2>4, <2>5, <2>6, <2>7, <2>8, UnclaimedWritten
<1>9. CASE ClaimGrown
  <2>1. /\ Active /\ Unclaimed = <<>> /\ pages < MaxPages
        /\ mem' = write_at_raw(mem, pages, 0, Zeros(PageCells))
        /\ claimed' = claimed \union {pages}
        /\ UNCHANGED <<depth, phase, released, saved>>
    BY <1>9 DEF ClaimGrown
  <2>2. phase = "run"
    BY <2>1 DEF Active
  <2>3. pages \in Page /\ pages # SCHEMA_PAGE /\ pages # UNCLAIMED_PAGES_PAGE
    BY <1>0, <2>1, SizesAssumption
    DEF TypeOK, Page, RESERVED_PAGES, SCHEMA_PAGE, UNCLAIMED_PAGES_PAGE
  <2>4. /\ \A i \in 1 .. Len(Linked) : Linked[i] # pages
        /\ \A i \in 1 .. Len(Unclaimed) : Unclaimed[i] # pages
    <3>1. \A p \in Page : p < pages => p # pages
      BY <2>3 DEF Page
    <3> QED
      BY <2>2, <3>1, OwnedPages
  <2>5. Apart(Linked, Unclaimed, claimed \union {pages}, released)
    BY <1>a, <2>2, <2>4, GrowApart
  <2>6. Owned(mem, claimed', released')
    BY <1>a, <2>1, <2>2, <2>5, OwnedNow
  <2>7. Zeros(PageCells) \in Seq(Nat)
    BY SizesAssumption DEF Zeros
  <2>8. Owned(mem', claimed', released')
    BY <1>0, <2>1, <2>2, <2>3, <2>4, <2>6, <2>7, PageWritten
  <2>9. depth' # 0
    BY <1>0, <2>1 DEF Active, TypeOK
  <2> QED
    BY <2>1, <2>8, <2>9 DEF OInv, Owned
<1>10. ASSUME NEW p \in Page, LinkPage(p)
       PROVE  OInv'
  <2>1. /\ Active /\ p \in claimed /\ Len(Linked) < MaxLinked
        /\ mem' = write_at_raw(mem, SCHEMA_PAGE, 0, encode(Append(Linked, p)))
        /\ claimed' = claimed \ {p}
        /\ UNCHANGED <<pages, depth, phase, released, saved>>
    BY <1>10 DEF LinkPage, write_at
  <2>2. phase = "run" /\ p \in Nat
    BY <2>1 DEF Active, Page
  <2>3. Linked \in Seq(Nat) /\ Len(Linked) \in Nat
    BY <2>2, OwnedPages
  <2>4. Append(Linked, p) \in Seq(Nat) /\ Len(Append(Linked, p)) = Len(Linked) + 1
    BY <2>2, <2>3, AppendTo
  <2>5. Len(Append(Linked, p)) <= MaxLinked
    BY <1>0, <2>1, <2>3, <2>4
  <2>6. Apart(Append(Linked, p), Unclaimed, claimed', released')
    BY <1>a, <2>1, <2>2, <2>3, LinkApart
  <2> QED
    BY <2>1, <2>4, <2>5, <2>6, RegistryWritten
<1>11. ASSUME NEW p \in Page, UnclaimPage(p)
       PROVE  OInv'
  <2> DEFINE zeroed == write_at_raw(mem, p, 0, Zeros(PageCells))
             list == Append(decode(zeroed, UNCLAIMED_PAGES_PAGE), p)
  <2>1. /\ Active /\ p \in Elems(Linked) \ released
        /\ Len(Unclaimed) < UNCLAIMED_PAGES_CAPACITY
        /\ mem' = write_at_raw(zeroed, UNCLAIMED_PAGES_PAGE, 0, encode(list))
        /\ released' = released \union {p}
        /\ UNCHANGED <<pages, depth, phase, claimed, saved>>
    BY <1>11 DEF UnclaimPage
  <2>2. phase = "run"
    BY <2>1 DEF Active
  <2>3. /\ Linked \in Seq(Nat) /\ Unclaimed \in Seq(Nat) /\ Len(Unclaimed) \in Nat
        /\ \A i \in 1 .. Len(Linked) :
              Linked[i] # SCHEMA_PAGE /\ Linked[i] # UNCLAIMED_PAGES_PAGE
        /\ \A i \in 1 .. Len(Unclaimed) :
              Unclaimed[i] \in Page /\ Unclaimed[i] # UNCLAIMED_PAGES_PAGE
    BY <2>2, OwnedPages
  <2>4. PICK h \in 1 .. Len(Linked) : p = Linked[h]
    BY <2>1, <2>3 DEF Elems
  <2>5. p \notin released /\ p # SCHEMA_PAGE /\ p # UNCLAIMED_PAGES_PAGE /\ p \in Nat
    BY <2>1, <2>3, <2>4 DEF Page
  <2>6. ~\E j \in 1 .. Len(Unclaimed) : Unclaimed[j] = p
    BY <1>a, <2>2, <2>4, <2>5 DEF Apart, LinkedOnce, Elsewhere
  <2>7. /\ Zeros(PageCells) \in Seq(Nat) /\ Len(Zeros(PageCells)) = PageCells
        /\ \A k \in 1 .. PageCells : Zeros(PageCells)[k] = 0
    BY SizesAssumption DEF Zeros
  <2>8. zeroed \in Memory
    BY <1>0, <2>7, WriteType
  <2>9. /\ decode(zeroed, SCHEMA_PAGE) = Linked
        /\ decode(zeroed, UNCLAIMED_PAGES_PAGE) = Unclaimed
        /\ BlankPages(zeroed, Unclaimed)
    BY <1>0, <1>a, <2>2, <2>5, <2>6, <2>7, PageWritten
  <2>10. \A o \in Offset : zeroed[p][o] = 0
    <3> SUFFICES ASSUME NEW o \in Offset PROVE zeroed[p][o] = 0
      OBVIOUS
    <3>1. 0 <= o /\ o < 0 + PageCells /\ o - 0 + 1 \in 1 .. PageCells
      BY SizesAssumption DEF Offset
    <3>2. zeroed[p][o] = Zeros(PageCells)[o - 0 + 1]
      BY <1>0, <2>7, <3>1, WriteCell
    <3> QED
      BY <2>7, <3>1, <3>2
  <2>11. list = Append(Unclaimed, p)
    BY <2>9
  <2> HIDE DEF zeroed, list
  <2>12. /\ list \in Seq(Nat) /\ Len(list) = Len(Unclaimed) + 1
         /\ \A i \in 1 .. Len(Unclaimed) : list[i] = Unclaimed[i]
         /\ list[Len(Unclaimed) + 1] = p
    BY <2>3, <2>5, <2>11, AppendTo
  <2>13. /\ \A i \in 1 .. Len(list) : i \in 1 .. Len(Unclaimed) \/ i = Len(Unclaimed) + 1
         /\ Len(list) <= UNCLAIMED_PAGES_CAPACITY
    BY <1>0, <2>1, <2>3, <2>12
  <2>14. /\ \A i \in 1 .. Len(list) : list[i] \in Page /\ list[i] # UNCLAIMED_PAGES_PAGE
         /\ BlankPages(zeroed, list)
    <3>1. ASSUME NEW i \in 1 .. Len(list)
          PROVE  /\ list[i] \in Page /\ list[i] # UNCLAIMED_PAGES_PAGE
                 /\ \A o \in Offset : zeroed[list[i]][o] = 0
      <4>1. CASE i \in 1 .. Len(Unclaimed)
        BY <2>3, <2>9, <2>12, <4>1, ZenonT(40) DEF BlankPages
      <4>2. CASE i = Len(Unclaimed) + 1
        BY <2>5, <2>10, <2>12, <4>2
      <4> QED
        BY <2>13, <4>1, <4>2
    <3> QED
      BY <3>1 DEF BlankPages
  <2>15. Apart(Linked, list, claimed', released')
    <3>1. Apart(Linked, Append(Unclaimed, Linked[h]), claimed, released \union {Linked[h]})
      BY <1>a, <2>2, <2>3, <2>4, <2>5, UnclaimApart
    <3> QED
      BY <2>1, <2>4, <2>11, <3>1
  <2> QED
    BY <2>1, <2>8, <2>9, <2>12, <2>13, <2>14, <2>15, UnclaimedWritten
<1>12. ASSUME NEW i \in Offset, UnlinkPage(i)
       PROVE  OInv'
  <2>1. /\ Active /\ i \in 1 .. Len(Linked) /\ Linked[i] \in released
        /\ mem' = write_at_raw(mem, SCHEMA_PAGE, 0, encode(Without(Linked, i)))
        /\ released' = released \ {Linked[i]}
        /\ UNCHANGED <<pages, depth, phase, claimed, saved>>
    BY <1>12 DEF UnlinkPage, write_at
  <2>2. phase = "run"
    BY <2>1 DEF Active
  <2>3. Linked \in Seq(Nat) /\ Len(Linked) \in Nat /\ Len(Linked) <= MaxLinked
    BY <2>2, OwnedPages
  <2>4. Without(Linked, i) \in Seq(Nat) /\ Len(Without(Linked, i)) = Len(Linked) - 1
    BY <2>1, <2>3, WithoutOne
  <2>5. Len(Without(Linked, i)) <= MaxLinked
    BY <1>0, <2>3, <2>4
  <2>6. Apart(Without(Linked, i), Unclaimed, claimed', released')
    BY <1>a, <2>1, <2>2, <2>3, UnlinkApart
  <2> QED
    BY <2>1, <2>4, <2>5, <2>6, RegistryWritten
<1>13. ASSUME NEW p \in Page, NEW o \in Slots, NEW buf \in Records, WriteRecord(p, o, buf)
       PROVE  OInv'
  <2>1. /\ Active /\ p \in (Elems(Linked) \ released) \union claimed
        /\ mem' = write_at_raw(mem, p, o, buf)
        /\ UNCHANGED <<pages, depth, phase, claimed, released, saved>>
    BY <1>13 DEF WriteRecord, write_at
  <2>2. phase = "run"
    BY <2>1 DEF Active
  <2>3. o \in Nat /\ buf \in Seq(Nat)
    BY RecordsAssumption, SizesAssumption
  <2>4. /\ p # SCHEMA_PAGE /\ p # UNCLAIMED_PAGES_PAGE
        /\ ~\E j \in 1 .. Len(Unclaimed) : Unclaimed[j] = p
    <3>1. CASE p \in claimed
      BY <1>a, <2>2, <3>1, OwnedPages DEF Apart, UnclaimedOnce
    <3>2. CASE p \in Elems(Linked) \ released
      <4>1. PICK h \in 1 .. Len(Linked) : p = Linked[h]
        BY <2>2, <3>2, OwnedPages DEF Elems
      <4> QED
        BY <1>a, <2>2, <3>2, <4>1, OwnedPages DEF Apart, LinkedOnce, Elsewhere
    <3> QED
      BY <2>1, <3>1, <3>2
  <2>5. Owned(mem', claimed', released')
    BY <1>a, <2>1, <2>2, <2>3, <2>4, PageWritten
  <2>6. depth' # 0
    BY <1>0, <2>1 DEF Active, TypeOK
  <2> QED
    BY <2>1, <2>5, <2>6 DEF OInv, Owned
<1>14. ASSUME NEW p \in Page, NEW o \in Slots, NEW buf \in Records, WriteUnjournaled(p, o, buf)
       PROVE  OInv'
  <2>1. /\ Idle /\ p \in Elems(Linked)
        /\ mem' = write_at_raw(mem, p, o, buf) /\ saved' = mem'
        /\ UNCHANGED <<pages, journal, depth, phase, claimed, released>>
    BY <1>14 DEF WriteUnjournaled
  <2>2. phase = "run" /\ claimed = {} /\ released = {}
    BY <2>1 DEF Idle, OInv
  <2>3. o \in Nat /\ buf \in Seq(Nat)
    BY RecordsAssumption, SizesAssumption
  <2>4. PICK h \in 1 .. Len(Linked) : p = Linked[h]
    BY <2>1, <2>2, OwnedPages DEF Elems
  <2>5. /\ p # SCHEMA_PAGE /\ p # UNCLAIMED_PAGES_PAGE
        /\ ~\E j \in 1 .. Len(Unclaimed) : Unclaimed[j] = p
    BY <1>a, <2>2, <2>4, OwnedPages DEF Apart, LinkedOnce, Elsewhere
  <2>6. Owned(mem', claimed', released')
    BY <1>a, <2>1, <2>2, <2>3, <2>5, PageWritten
  <2> QED
    BY <2>1, <2>2, <2>6 DEF OInv, Owned
<1>15. CASE UNCHANGED vars
  BY <1>15, OwnedKept DEF vars
<1> QED
  BY <1>1, <1>2, <1>3, <1>4, <1>5, <1>6, <1>7, <1>8, <1>9, <1>10, <1>11, <1>12, <1>13,
     <1>14, <1>15 DEF Next

-----------------------------------------------------------------------------
(* Theorems                                                                *)

\* Both inductive invariants hold in every reachable state.
THEOREM Ownership ==
    ASSUME LedgersFitPages
    PROVE  Spec => [](IInv /\ OInv)
<1>1. Init => OInv
  BY InitOInv
<1>2. IInv /\ OInv /\ [Next]_vars => OInv'
  BY NextOInv
<1>3. Spec => []IInv
  BY Invariance
<1> QED
  BY <1>1, <1>2, <1>3, PTL DEF Spec

\* MemoryManager: between two operations every page the registry, a table or
\* the ledger of unclaimed pages lists exists, is not reserved and is listed
\* once, whatever was dropped, claimed again or rolled back.
THEOREM OnePageOneOwner ==
    ASSUME LedgersFitPages
    PROVE  Spec => []PagesHaveOneOwner
<1>1. ASSUME IInv, OInv
      PROVE  PagesHaveOneOwner
  <2> DEFINE owned == Linked \o Unclaimed
             n == Len(Linked)
             k == Len(Unclaimed)
  <2> SUFFICES ASSUME Idle, NEW i \in 1 .. Len(owned), NEW j \in 1 .. Len(owned)
               PROVE  /\ owned[i] \in RESERVED_PAGES .. pages - 1
                      /\ i # j => owned[i] # owned[j]
    BY DEF PagesHaveOneOwner
  <2>1. /\ Linked \in Seq(Nat) /\ Unclaimed \in Seq(Nat) /\ n \in Nat /\ k \in Nat
        /\ \A h \in 1 .. n : Linked[h] \in RESERVED_PAGES .. pages - 1
        /\ \A h \in 1 .. k : Unclaimed[h] \in RESERVED_PAGES .. pages - 1
    BY <1>1, CurrentLedgers DEF IInv, Idle
  <2>2. Apart(Linked, Unclaimed, {}, {})
    BY <1>1, OwnedNow DEF OInv, Idle
  <2>3. /\ Len(owned) = n + k
        /\ \A h \in 1 .. n : owned[h] = Linked[h]
        /\ \A h \in n + 1 .. n + k : owned[h] = Unclaimed[h - n]
    BY <2>1
  <2> HIDE DEF owned, n, k
  <2>4. ASSUME NEW h \in 1 .. n + k
        PROVE  \/ h \in 1 .. n /\ owned[h] = Linked[h]
               \/ h \in n + 1 .. n + k /\ h - n \in 1 .. k /\ owned[h] = Unclaimed[h - n]
    BY <2>1, <2>3
  <2>5. owned[i] \in RESERVED_PAGES .. pages - 1
    BY <2>1, <2>3, <2>4
  <2>6. ASSUME i # j
        PROVE  owned[i] # owned[j]
    <3>1. /\ \A a, b \in 1 .. n : a # b => Linked[a] # Linked[b]
          /\ \A a, b \in 1 .. k : a # b => Unclaimed[a] # Unclaimed[b]
          /\ \A a \in 1 .. n, b \in 1 .. k : Linked[a] # Unclaimed[b]
      BY <2>2 DEF Apart, LinkedOnce, UnclaimedOnce, Elsewhere, n, k
    <3>2. i \in 1 .. n + k /\ j \in 1 .. n + k
      BY <2>3
    <3>3. i \in n + 1 .. n + k /\ j \in n + 1 .. n + k => i - n # j - n
      BY <2>1, <2>6
    <3> QED
      BY <2>4, <2>6, <3>1, <3>2, <3>3
  <2> QED
    BY <2>5, <2>6
<1> QED
  BY <1>1, Ownership, PTL

\* claim_page hands out blank pages only, whether the page is new or comes
\* back from a dropped table or a block that was rolled back.
THEOREM ClaimsAreBlank ==
    ASSUME LedgersFitPages
    PROVE  Spec => ClaimedPagesAreBlank
<1>1. IInv /\ OInv /\ [Next]_vars =>
         [\A p \in claimed' \ claimed : \A o \in Offset : mem'[p][o] = 0]_vars
  <2> SUFFICES ASSUME IInv, OInv, Next, NEW p \in claimed' \ claimed, NEW o \in Offset
               PROVE  mem'[p][o] = 0
    BY DEF vars
  <2>1. ClaimUnclaimed \/ ClaimGrown
    BY DEF Next, BeginAtomic, BeginNested, EndNested, EndAtomic, Fail, RollbackEntry,
       RollbackDone, LinkPage, UnclaimPage, UnlinkPage, WriteRecord, WriteUnjournaled
  <2>2. phase = "run" /\ mem \in Memory /\ UNCLAIMED_PAGES_PAGE \in Page /\ 0 \in Nat
    BY <2>1, Basics DEF ClaimUnclaimed, ClaimGrown, Active, IInv
  <2>3. CASE ClaimUnclaimed
    <3> DEFINE n == Len(Unclaimed)
               list == SubSeq(Unclaimed, 1, n - 1)
    <3>1. /\ Unclaimed # <<>> /\ p = Unclaimed[n]
          /\ mem' = write_at_raw(mem, UNCLAIMED_PAGES_PAGE, 0, encode(list))
      BY <2>3 DEF ClaimUnclaimed, write_at
    <3>2. Unclaimed \in Seq(Nat)
      BY <2>2, OwnedPages
    <3>3. n \in 1 .. n /\ encode(list) \in Seq(Nat)
      <4>1. n \in Nat /\ n >= 1 /\ list \in Seq(Nat)
        BY <3>1, <3>2, FrontOf
      <4> HIDE DEF n, list
      <4> QED
        BY <4>1, EncodeCells
    <3>4. p \in Page /\ p # UNCLAIMED_PAGES_PAGE
      BY <2>2, <3>1, <3>3, OwnedPages
    <3>5. mem[p][o] = 0
      BY <2>2, <3>1, <3>3, OwnedNow DEF OInv, BlankPages
    <3>6. mem'[p] = mem[p]
      BY <2>2, <3>1, <3>3, <3>4, WriteElsewhere
    <3> QED
      BY <3>5, <3>6
  <2>4. CASE ClaimGrown
    <3>1. p = pages /\ mem' = write_at_raw(mem, pages, 0, Zeros(PageCells)) /\ pages < MaxPages
      BY <2>4 DEF ClaimGrown
    <3>2. p \in Page
      BY <3>1, SizesAssumption DEF IInv, TypeOK, Page, RESERVED_PAGES
    <3>3. /\ Zeros(PageCells) \in Seq(Nat) /\ Len(Zeros(PageCells)) = PageCells
          /\ \A k \in 1 .. PageCells : Zeros(PageCells)[k] = 0
      BY SizesAssumption DEF Zeros
    <3>4. 0 <= o /\ o < 0 + PageCells /\ o - 0 + 1 \in 1 .. PageCells
      BY SizesAssumption DEF Offset
    <3>5. mem'[p][o] = Zeros(PageCells)[o - 0 + 1]
      BY <2>2, <3>1, <3>2, <3>3, <3>4, WriteCell
    <3> QED
      BY <3>3, <3>4, <3>5
  <2> QED
    BY <2>1, <2>3, <2>4
<1> QED
  BY <1>1, Ownership, PTL DEF Spec, ClaimedPagesAreBlank
=============================================================================
