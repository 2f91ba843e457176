--------------------------- MODULE JournaledMemory ---------------------------
(***************************************************************************)
(* Page memory written through the undo journal.                           *)
(*                                                                         *)
(* MemoryManager gives access to a growing array of pages.  Page 0 holds   *)
(* the schema registry, page 1 the ledger of unclaimed pages.              *)
(* JournaledWriter records the bytes under every write before it happens,  *)
(* so that a failed atomic block is undone by replaying the journal        *)
(* backwards.  Growing the memory is not journaled.                        *)
(*                                                                         *)
(* A cell stands for one aligned word of a page, so a ledger entry, a      *)
(* length prefix or a record field is one number.  Ledgers are encoded     *)
(* into cells the way the code lays them out: length first, then entries.  *)
(* The graph of pages reachable from the schema registry (registry page ->  *)
(* table ledgers -> record and index pages) is one list of linked pages on *)
(* page 0.                                                                 *)
(***************************************************************************)
EXTENDS Integers, Sequences

CONSTANTS
    MaxPages,    \* bound: pages the provider can grow to
    PageCells,   \* cells of one page
    Records,     \* encoded records; a zero cell is a blank one
    Slots,       \* offsets records are written at
    MaxLinked,   \* bound: pages the registry and table ledgers list
    MaxEntries,  \* bound: journal entries of one atomic block
    MaxDepth     \* bound: nesting of atomic calls

ASSUME SizesAssumption ==
    /\ MaxPages \in Nat /\ MaxPages >= 2
    /\ PageCells \in Nat /\ PageCells >= 3
    /\ MaxLinked \in Nat
    /\ MaxEntries \in Nat
    /\ MaxDepth \in Nat /\ MaxDepth >= 1
ASSUME RecordsAssumption ==
    /\ \A buf \in Records : buf \in Seq(Nat) /\ Len(buf) < PageCells
    /\ Slots \subseteq 0 .. PageCells - 1

SCHEMA_PAGE == 0
UNCLAIMED_PAGES_PAGE == 1
RESERVED_PAGES == 2

Page == 0 .. MaxPages - 1
Offset == 0 .. PageCells - 1

\* MSize is a u16 and a page has 2^16 bytes: a size in cells wraps at PageCells.
MSize(n) == n % PageCells

\* The largest ledger whose size, length prefix included, is an MSize.
UNCLAIMED_PAGES_CAPACITY == (PageCells - 1) - 1

VARIABLES
    pages,     \* provider.pages(): the high-water mark
    mem,       \* content of every cell of every page
    journal,   \* entries of the journal in DbmsContext, oldest first
    depth,     \* atomic() calls on the stack; 0 when no journal is active
    phase,     \* "run" or, while Journal::rollback replays, "rollback"
    claimed,   \* pages an operation got from claim_page and has not linked
    released,  \* linked pages an operation has unclaimed and not unlinked
    saved      \* history: mem when the current atomic block began

vars == <<pages, mem, journal, depth, phase, claimed, released, saved>>

-----------------------------------------------------------------------------
(* Reading, writing and encoding                                           *)

Bytes == Seq(Nat)

JournalEntry == [page : Page, offset : Offset, original_bytes : Bytes]

\* write_at_raw: cells offset, offset + 1, ... of page p become buf.
write_at_raw(m, p, offset, buf) ==
    [m EXCEPT ![p] = [o \in Offset |->
        IF offset <= o /\ o < offset + Len(buf) THEN buf[o - offset + 1] ELSE m[p][o]]]

read_at_raw(m, p, offset, len) == [k \in 1 .. len |-> m[p][offset + k - 1]]

Zeros(n) == [k \in 1 .. n |-> 0]

encode(list) == <<Len(list)>> \o list

decode(m, p) == [i \in 1 .. m[p][0] |-> m[p][i]]

Unclaimed == decode(mem, UNCLAIMED_PAGES_PAGE)

Linked == decode(mem, SCHEMA_PAGE)

Elems(list) == {list[i] : i \in DOMAIN list}

Without(list, i) ==
    [k \in 1 .. Len(list) - 1 |-> IF k < i THEN list[k] ELSE list[k + 1]]

-----------------------------------------------------------------------------
(* State                                                                   *)

\* Values stay in their types; the journal is a list of page, offset, bytes.
TypeOK ==
    /\ pages \in RESERVED_PAGES .. MaxPages
    /\ mem \in [Page -> [Offset -> Nat]]
    /\ journal \in Seq(JournalEntry)
    /\ depth \in 0 .. MaxDepth
    /\ phase \in {"run", "rollback"}
    /\ claimed \in SUBSET Page
    /\ released \in SUBSET Page
    /\ saved \in [Page -> [Offset -> Nat]]

Init ==
    /\ pages = RESERVED_PAGES
    /\ mem = [p \in Page |-> [o \in Offset |-> 0]]
    /\ journal = <<>>
    /\ depth = 0
    /\ phase = "run"
    /\ claimed = {}
    /\ released = {}
    /\ saved = mem

Idle == depth = 0 /\ phase = "run"
Active == depth > 0 /\ phase = "run"

-----------------------------------------------------------------------------
(* Atomic blocks                                                           *)

BeginAtomic ==
    /\ Idle
    /\ depth' = 1
    /\ journal' = <<>>
    /\ UNCHANGED <<pages, mem, phase, claimed, released, saved>>

BeginNested ==
    /\ Active /\ depth < MaxDepth
    /\ depth' = depth + 1
    /\ UNCHANGED <<pages, mem, journal, phase, claimed, released, saved>>

\* Mutant of EndNested: a nested Ok drops the journal of the outer call.
EndNestedCommits ==
    /\ Active /\ depth > 1
    /\ depth' = depth - 1
    /\ journal' = <<>>
    /\ UNCHANGED <<pages, mem, phase, claimed, released, saved>>

\* A nested Ok leaves the outer journal alone.
EndNested ==
    /\ Active /\ depth > 1
    /\ depth' = depth - 1
    /\ UNCHANGED <<pages, mem, journal, phase, claimed, released, saved>>

\* The outermost Ok drops the journal.  An operation returns Ok only with its
\* registry and ledgers written back.
EndAtomic ==
    /\ Active /\ depth = 1 /\ claimed = {} /\ released = {}
    /\ depth' = 0
    /\ journal' = <<>>
    /\ saved' = mem
    /\ UNCHANGED <<pages, mem, phase, claimed, released>>

\* An Err of any step travels to the outermost call, which takes the journal.
Fail ==
    /\ Active
    /\ phase' = "rollback"
    /\ depth' = 0
    /\ claimed' = {}
    /\ released' = {}
    /\ UNCHANGED <<pages, mem, journal, saved>>

\* Mutant of RollbackEntry: entries are replayed oldest first.
RollbackOldestFirst ==
    /\ phase = "rollback" /\ journal # <<>>
    /\ LET e == journal[1] IN
       mem' = write_at_raw(mem, e.page, e.offset, e.original_bytes)
    /\ journal' = Tail(journal)
    /\ UNCHANGED <<pages, depth, phase, claimed, released, saved>>

\* One iteration of Journal::rollback: the newest entry is written back.
RollbackEntry ==
    /\ phase = "rollback" /\ journal # <<>>
    /\ LET e == journal[Len(journal)] IN
       mem' = write_at_raw(mem, e.page, e.offset, e.original_bytes)
    /\ journal' = SubSeq(journal, 1, Len(journal) - 1)
    /\ UNCHANGED <<pages, depth, phase, claimed, released, saved>>

RollbackDone ==
    /\ phase = "rollback" /\ journal = <<>>
    /\ phase' = "run"
    /\ UNCHANGED <<pages, mem, journal, depth, claimed, released, saved>>

-----------------------------------------------------------------------------
(* Operations inside an atomic block                                       *)

record(m, p, offset, len) ==
    [page |-> p, offset |-> offset, original_bytes |-> read_at_raw(m, p, offset, len)]

\* Mutant of write_at: the bytes are recorded after the write.
RecordAfterWrite(p, offset, buf) ==
    /\ Len(journal) < MaxEntries
    /\ offset + Len(buf) <= PageCells
    /\ mem' = write_at_raw(mem, p, offset, buf)
    /\ journal' = Append(journal, record(mem', p, offset, MSize(Len(buf))))

\* JournaledWriter::write_at: journal.record of data.size() cells, then the
\* write, which takes its length from the encoded bytes and must fit the page.
write_at(p, offset, buf) ==
    /\ Len(journal) < MaxEntries
    /\ offset + Len(buf) <= PageCells
    /\ journal' = Append(journal, record(mem, p, offset, MSize(Len(buf))))
    /\ mem' = write_at_raw(mem, p, offset, buf)

\* write_at and zero of a record, on a page the operation may touch.
WriteRecord(p, offset, buf) ==
    /\ Active
    /\ p \in (Elems(Linked) \ released) \union claimed
    /\ write_at(p, offset, buf)
    /\ UNCHANGED <<pages, depth, phase, claimed, released, saved>>

\* Mutant of ClaimUnclaimed: the popped ledger is not written back.
ClaimWithoutWrite ==
    /\ Active /\ Unclaimed # <<>>
    /\ claimed' = claimed \union {Unclaimed[Len(Unclaimed)]}
    /\ UNCHANGED <<pages, mem, journal, depth, phase, released, saved>>

\* claim_page, first branch: pop the ledger and write it back shorter.
ClaimUnclaimed ==
    /\ Active /\ Unclaimed # <<>>
    /\ LET n == Len(Unclaimed) IN
       /\ write_at(UNCLAIMED_PAGES_PAGE, 0, encode(SubSeq(Unclaimed, 1, n - 1)))
       /\ claimed' = claimed \union {Unclaimed[n]}
    /\ UNCHANGED <<pages, depth, phase, released, saved>>

\* Mutant of ClaimGrown: the new page count is returned as the page number.
ClaimPageCount ==
    /\ Active /\ Unclaimed = <<>>
    /\ pages < MaxPages
    /\ pages' = pages + 1
    /\ mem' = write_at_raw(mem, pages, 0, Zeros(PageCells))
    /\ claimed' = claimed \union {pages + 1}
    /\ UNCHANGED <<journal, depth, phase, released, saved>>

\* claim_page, second branch: grow_one_page, which zeroes the new page itself.
ClaimGrown ==
    /\ Active /\ Unclaimed = <<>>
    /\ pages < MaxPages
    /\ pages' = pages + 1
    /\ mem' = write_at_raw(mem, pages, 0, Zeros(PageCells))
    /\ claimed' = claimed \union {pages}
    /\ UNCHANGED <<journal, depth, phase, released, saved>>

\* The registry or a ledger of a table is written with the claimed page in it.
LinkPage(p) ==
    /\ Active /\ p \in claimed
    /\ Len(Linked) < MaxLinked
    /\ write_at(SCHEMA_PAGE, 0, encode(Append(Linked, p)))
    /\ claimed' = claimed \ {p}
    /\ UNCHANGED <<pages, depth, phase, released, saved>>

\* Mutant of UnclaimPage: the page goes on the ledger as it is.
UnclaimWithoutZero(p) ==
    /\ Active /\ p \in Elems(Linked) \ released
    /\ Len(Unclaimed) < UNCLAIMED_PAGES_CAPACITY
    /\ write_at(UNCLAIMED_PAGES_PAGE, 0, encode(Append(Unclaimed, p)))
    /\ released' = released \union {p}
    /\ UNCHANGED <<pages, depth, phase, claimed, saved>>

\* unclaim_page: zero the page, then push it on the ledger.  Dropping a table
\* checks the remaining capacity before it releases its first page.
UnclaimPage(p) ==
    /\ Active /\ p \in Elems(Linked) \ released
    /\ Len(Unclaimed) < UNCLAIMED_PAGES_CAPACITY
    /\ Len(journal) + 1 < MaxEntries
    /\ LET zeroed == write_at_raw(mem, p, 0, Zeros(PageCells))
           ledger == encode(Append(decode(zeroed, UNCLAIMED_PAGES_PAGE), p))
       IN  /\ journal' = Append(Append(journal, record(mem, p, 0, PageCells)),
                 record(zeroed, UNCLAIMED_PAGES_PAGE, 0, MSize(Len(ledger))))
           /\ mem' = write_at_raw(zeroed, UNCLAIMED_PAGES_PAGE, 0, ledger)
    /\ released' = released \union {p}
    /\ UNCHANGED <<pages, depth, phase, claimed, saved>>

\* The schema registry is saved without the pages of the dropped table.
UnlinkPage(i) ==
    /\ Active /\ i \in 1 .. Len(Linked) /\ Linked[i] \in released
    /\ write_at(SCHEMA_PAGE, 0, encode(Without(Linked, i)))
    /\ released' = released \ {Linked[i]}
    /\ UNCHANGED <<pages, depth, phase, claimed, saved>>

\* Autoincrement counters are written before the atomic block, unjournaled.
WriteUnjournaled(p, offset, buf) ==
    /\ Idle
    /\ p \in Elems(Linked)
    /\ offset + Len(buf) <= PageCells
    /\ mem' = write_at_raw(mem, p, offset, buf)
    /\ saved' = mem'
    /\ UNCHANGED <<pages, journal, depth, phase, claimed, released>>

Next ==
    \/ BeginAtomic \/ BeginNested \/ EndNested \/ EndAtomic
    \/ Fail \/ RollbackEntry \/ RollbackDone
    \/ ClaimUnclaimed \/ ClaimGrown
    \/ \E p \in Page : LinkPage(p) \/ UnclaimPage(p)
    \/ \E i \in Offset : UnlinkPage(i)
    \/ \E p \in Page, o \in Slots, buf \in Records : WriteRecord(p, o, buf)
    \/ \E p \in Page, o \in Slots, buf \in Records : WriteUnjournaled(p, o, buf)

Spec == Init /\ [][Next]_vars

\* The same system over a write-through provider, which may be killed at any
\* point: the file keeps every write, the heap with the journal is lost.
Restart ==
    /\ journal' = <<>>
    /\ depth' = 0
    /\ phase' = "run"
    /\ claimed' = {}
    /\ released' = {}
    /\ saved' = mem
    /\ UNCHANGED <<pages, mem>>

SpecFile == Init /\ [][Next \/ Restart]_vars

-----------------------------------------------------------------------------
(* Properties                                                              *)

Covers(e, p, o) ==
    e.page = p /\ e.offset <= o /\ o < e.offset + Len(e.original_bytes)

\* Whatever the block has overwritten so far, in whatever order and however
\* often, the journal still holds what is needed to undo it: a cell no entry
\* covers is unchanged since the block began, and the oldest entry covering a
\* cell holds the content it had then.
UndoComplete ==
    depth > 0 \/ phase = "rollback" =>
        \A p \in Page, o \in Offset :
            /\ (\A i \in 1 .. Len(journal) : ~Covers(journal[i], p, o))
                  => mem[p][o] = saved[p][o]
            /\ \A i \in 1 .. Len(journal) :
                  /\ Covers(journal[i], p, o)
                  /\ \A j \in 1 .. i - 1 : ~Covers(journal[j], p, o)
                  => journal[i].original_bytes[o - journal[i].offset + 1] = saved[p][o]

\* Journal::rollback ends with every byte of every page as it was when the
\* failed block began, pages grown meanwhile included.
RollbackRestores ==
    [][phase = "rollback" /\ phase' = "run" => mem' = saved]_vars

\* Between operations no page is in two hands: reserved pages, linked pages
\* and unclaimed pages are disjoint, nothing is listed twice, and every listed
\* page exists.
PagesHaveOneOwner ==
    Idle =>
        LET owned == Linked \o Unclaimed IN
        \A i, j \in 1 .. Len(owned) :
            /\ owned[i] \in RESERVED_PAGES .. pages - 1
            /\ i # j => owned[i] # owned[j]

\* claim_page hands out blank pages only, whether it grows the memory or takes
\* back a page that a dropped table or a rolled back block once filled.
ClaimedPagesAreBlank ==
    [][\A p \in claimed' \ claimed : \A o \in Offset : mem'[p][o] = 0]_vars

\* The journal implements what AtomicMemory promises: readers between two
\* operations see whole blocks only.
Promise == INSTANCE AtomicMemory WITH
    content <- IF Idle THEN mem ELSE saved,
    status <- IF Idle THEN "idle" ELSE IF phase = "rollback" THEN "failed" ELSE "open"

ImplementsAtomicMemory == Promise!Spec

\* docs/technical/atomicity.md on a page allocated by a block that rolled
\* back: "it will be reused by subsequent allocations".  The memory then only
\* grows when no page is left over.
LeakedPagesAreReused ==
    [][pages' # pages =>
          RESERVED_PAGES .. pages - 1 \subseteq Elems(Linked) \union claimed]_vars

\* docs/technical/atomicity.md: "either all transaction operations are
\* applied, or none of them persist, regardless of the WASM runtime".
RestartKeepsWholeBlocks ==
    [][Restart /\ ~Idle => mem' = saved]_vars
=============================================================================
