---------------------------- MODULE KvCheckpoint ----------------------------
(***************************************************************************)
(* WasiKeyValueMemoryProvider: a whole-memory cache published to a         *)
(* key-value store as checkpoints.                                         *)
(*                                                                         *)
(* Every page has two slots in the store.  A flush writes the dirty pages  *)
(* to the slots the published checkpoint does not use, batch by batch, and *)
(* then replaces the head manifest, which names the slot and the hash of   *)
(* every page.  Opening reads the head and loads its current checkpoint,   *)
(* or the previous one when some page of the current one is stale or       *)
(* missing.  Any call to the store may fail, the process may stop between  *)
(* any two calls, and reads of pages may be answered by a lagging replica. *)
(* One provider is open at a time (the host coordinates a single writer)   *)
(* and the head is read up to date (the host gives read-your-writes).      *)
(*                                                                         *)
(* Pages are numbered from 1.  The content of a page is one value.         *)
(***************************************************************************)
EXTENDS Integers, Sequences

CONSTANTS
    Content,          \* contents a page can have
    Blank,            \* the zeroed page
    Missing,          \* a key without a value
    Hash(_),          \* xxh3_64
    MaxPages,         \* bound: pages of the memory
    MAX_BATCH_PAGES   \* pages written by one set_many

ASSUME ContentAssumption == Blank \in Content /\ Missing \notin Content
ASSUME HashAssumption == \A a, b \in Content : Hash(a) = Hash(b) => a = b
ASSUME SizesAssumption ==
    /\ MaxPages \in Nat
    /\ MAX_BATCH_PAGES \in Nat /\ MAX_BATCH_PAGES >= 1

Page == 1 .. MaxPages
Slot == 0 .. 1

VARIABLES
    kv,          \* the page keys of the store
    head,        \* the head manifest
    mode,        \* "closed", "open", or "flushing" inside flush_inner
    memory,      \* the cached pages
    published,   \* the checkpoint the cache started from or last flushed
    dirty,       \* dirty_pages
    fallback,    \* fallback_checkpoint
    poisoned,
    manifest,    \* flush_inner's manifest
    queue,       \* dirty pages flush_inner has not written yet
    prior,       \* history: the memory that head.previous was taken from
    overwritten  \* history: a page was written since the head was replaced

provider == <<mode, memory, published, dirty, fallback, poisoned>>
store == <<kv, head, prior, overwritten>>
vars == <<provider, store, manifest, queue>>

-----------------------------------------------------------------------------
(* Checkpoints and manifests                                               *)

Hashes == {Hash(c) : c \in Content}

Checkpoint == [slots : Seq(Slot), hashes : Seq(Hashes)]

EmptyCheckpoint == [slots |-> <<>>, hashes |-> <<>>]

\* An absent previous checkpoint is an empty one: opening uses neither.
Manifest == [current : Checkpoint, previous : Checkpoint]

EmptyManifest == [current |-> EmptyCheckpoint, previous |-> EmptyCheckpoint]

Pages(checkpoint) == 1 .. Len(checkpoint.slots)

\* load_memory over the answers in view: every page there, with its hash.
Loads(checkpoint, view) ==
    \A p \in Pages(checkpoint) :
        LET value == view[p][checkpoint.slots[p]] IN
        value # Missing /\ Hash(value) = checkpoint.hashes[p]

load_memory(checkpoint, view) ==
    [p \in Pages(checkpoint) |-> view[p][checkpoint.slots[p]]]

\* What get_many may answer.  A lagging replica returns older values of a key
\* or none; nothing below depends on which, so any answer is allowed.
Views == [Page -> [Slot -> Content \union {Missing}]]

-----------------------------------------------------------------------------
(* State                                                                   *)

TypeOK ==
    /\ kv \in [Page -> [Slot -> Content \union {Missing}]]
    /\ head \in Manifest
    /\ mode \in {"closed", "open", "flushing"}
    /\ memory \in Seq(Content) /\ Len(memory) <= MaxPages
    /\ published \in Checkpoint
    /\ dirty \subseteq Page
    /\ fallback \in BOOLEAN /\ poisoned \in BOOLEAN
    /\ manifest \in Manifest
    /\ queue \subseteq Page
    /\ prior \in Seq(Content)
    /\ overwritten \in BOOLEAN

Init ==
    /\ kv = [p \in Page |-> [s \in Slot |-> Missing]]
    /\ head = EmptyManifest
    /\ prior = <<>>
    /\ overwritten = FALSE
    /\ mode = "closed" /\ memory = <<>> /\ published = EmptyCheckpoint
    /\ dirty = {} /\ fallback = FALSE /\ poisoned = FALSE
    /\ manifest = EmptyManifest /\ queue = {}

-----------------------------------------------------------------------------
(* Opening, and losing the process                                         *)

OpenWith(checkpoint, view, isFallback) ==
    /\ mode = "closed" /\ mode' = "open"
    /\ memory' = load_memory(checkpoint, view)
    /\ published' = checkpoint
    /\ dirty' = {}
    /\ fallback' = isFallback
    /\ poisoned' = FALSE
    /\ UNCHANGED <<store, manifest, queue>>

\* with_store.  When neither checkpoint loads it fails and nothing is open.
OpenCurrent ==
    \E view \in Views :
        /\ Loads(head.current, view)
        /\ OpenWith(head.current, view, FALSE)

OpenPrevious ==
    \E view \in Views :
        /\ ~Loads(head.current, view)
        /\ head.previous.slots # <<>> /\ Loads(head.previous, view)
        /\ OpenWith(head.previous, view, TRUE)

\* The process stops or drops the provider, inside a flush or not.
Close ==
    /\ mode # "closed" /\ mode' = "closed"
    /\ memory' = <<>> /\ published' = EmptyCheckpoint
    /\ dirty' = {} /\ fallback' = FALSE /\ poisoned' = FALSE
    /\ manifest' = EmptyManifest /\ queue' = {}
    /\ UNCHANGED store

-----------------------------------------------------------------------------
(* The cache                                                               *)

check_writable == mode = "open" /\ ~poisoned /\ ~fallback

Grow ==
    /\ check_writable
    /\ Len(memory) < MaxPages
    /\ memory' = Append(memory, Blank)
    /\ dirty' = dirty \union {Len(memory) + 1}
    /\ UNCHANGED <<mode, published, fallback, poisoned, store, manifest, queue>>

\* write: a range of bytes, so any run of pages.
Write(first, last, content) ==
    /\ check_writable
    /\ first <= last /\ last <= Len(memory)
    /\ memory' = [p \in 1 .. Len(memory) |->
                     IF p \in first .. last THEN content ELSE memory[p]]
    /\ dirty' = dirty \union (first .. last)
    /\ UNCHANGED <<mode, published, fallback, poisoned, store, manifest, queue>>

import_snapshot(bytes) ==
    /\ check_writable
    /\ memory = <<>>
    /\ memory' = bytes
    /\ published' = EmptyCheckpoint
    /\ dirty' = 1 .. Len(bytes)
    /\ UNCHANGED <<mode, fallback, poisoned, store, manifest, queue>>

-----------------------------------------------------------------------------
(* flush_inner                                                             *)

\* Mutant of CandidateSlot: pages are written in place.
SameSlot(p) == IF p \in Pages(published) THEN published.slots[p] ELSE 0

\* The slot a dirty page is written to: the one published does not use.
CandidateSlot(p) ==
    IF p \in Pages(published) THEN 1 - published.slots[p] ELSE 0

Candidate ==
    [slots  |-> [p \in 1 .. Len(memory) |->
                    IF p \in dirty THEN CandidateSlot(p) ELSE published.slots[p]],
     hashes |-> [p \in 1 .. Len(memory) |->
                    IF p \in dirty THEN Hash(memory[p]) ELSE published.hashes[p]]]

FlushStart ==
    /\ check_writable
    /\ dirty # {}
    /\ mode' = "flushing"
    /\ manifest' = [current |-> Candidate, previous |-> published]
    /\ queue' = dirty
    /\ UNCHANGED <<memory, published, dirty, fallback, poisoned, store>>

\* dirty_pages.chunks: the next pages in ascending order.
Batch ==
    {p \in queue : Len(SelectSeq([i \in 1 .. p |-> i], LAMBDA q : q \in queue)) <= MAX_BATCH_PAGES}

WritePages(batch) ==
    /\ kv' = [p \in Page |-> [s \in Slot |->
                IF p \in batch /\ s = manifest.current.slots[p] THEN memory[p] ELSE kv[p][s]]]
    /\ overwritten' = (overwritten \/ batch # {})
    /\ UNCHANGED <<head, prior>>

WriteBatch ==
    /\ mode = "flushing" /\ queue # {}
    /\ WritePages(Batch)
    /\ queue' = queue \ Batch
    /\ UNCHANGED <<provider, manifest>>

\* Mutant of BatchFails: the dirty flags of the failed flush are gone.
BatchFailsClean ==
    /\ mode = "flushing" /\ queue # {}
    /\ \E part \in SUBSET Batch : WritePages(part)
    /\ mode' = "open"
    /\ manifest' = EmptyManifest
    /\ queue' = {} /\ dirty' = {}
    /\ UNCHANGED <<memory, published, fallback, poisoned>>

\* set_many fails after some of its writes: flush returns Err, nothing else
\* of the provider changes and the dirty flags stay.
BatchFails ==
    /\ mode = "flushing" /\ queue # {}
    /\ \E part \in SUBSET Batch : WritePages(part)
    /\ mode' = "open"
    /\ manifest' = EmptyManifest
    /\ queue' = {}
    /\ UNCHANGED <<memory, published, dirty, fallback, poisoned>>

ReplaceHead ==
    /\ head' = manifest
    /\ prior' = load_memory(head.current, kv)
    /\ overwritten' = FALSE
    /\ UNCHANGED kv

EndFlush ==
    /\ mode = "flushing" /\ queue = {}
    /\ mode' = "open"
    /\ manifest' = EmptyManifest
    /\ UNCHANGED <<memory, queue>>

SetHead ==
    /\ EndFlush
    /\ ReplaceHead
    /\ published' = manifest.current
    /\ dirty' = {}
    /\ fallback' = FALSE
    /\ UNCHANGED poisoned

\* Mutant of SetHeadFails: the provider stays usable after an unclear answer.
SetHeadFailsUnpoisoned ==
    /\ EndFlush
    /\ ReplaceHead \/ UNCHANGED store
    /\ UNCHANGED <<published, dirty, fallback, poisoned>>

\* set reports an error: the head may have been replaced or not.
SetHeadFails ==
    /\ EndFlush
    /\ ReplaceHead \/ UNCHANGED store
    /\ poisoned' = TRUE
    /\ UNCHANGED <<published, dirty, fallback>>

Next ==
    \/ OpenCurrent \/ OpenPrevious \/ Close
    \/ Grow
    \/ \E first, last \in Page, c \in Content : Write(first, last, c)
    \/ \E n \in Page : \E bytes \in [1 .. n -> Content] : import_snapshot(bytes)
    \/ FlushStart \/ WriteBatch \/ BatchFails \/ SetHead \/ SetHeadFails

Spec == Init /\ [][Next]_vars

-----------------------------------------------------------------------------
(* Properties                                                              *)

\* However many flushes fail half-way, are retried with other content or are
\* cut off by a crash, every page of the current checkpoint is in the store
\* with the hash the head names: an up-to-date open succeeds.
CurrentLoadable == Loads(head.current, kv)

\* The checkpoint to fall back to stays complete until a later flush reuses
\* its slots.
PreviousLoadable == ~overwritten => Loads(head.previous, kv)

\* A page that is not marked dirty is in the store as it is in the cache, in
\* the slot the next manifest will name for it.
CleanPagesAreDurable ==
    mode # "closed" /\ ~poisoned /\ ~fallback =>
        \A p \in 1 .. Len(memory) \ dirty :
            p \in Pages(published) /\ kv[p][published.slots[p]] = memory[p]

\* What a provider in this state may do.
Role ==
    CASE mode = "closed" -> "closed"
      [] mode # "closed" /\ poisoned -> "poisoned"
      [] mode # "closed" /\ ~poisoned /\ fallback -> "reader"
      [] OTHER -> "writer"

\* The checkpoints are atomic: what can be loaded changes only when the head
\* is replaced, then equals the whole cache, and an open provider never holds
\* pages of two checkpoints.
Promise == INSTANCE CheckpointedMemory WITH
    durable <- load_memory(head.current, kv),
    mode <- Role

ImplementsCheckpointedMemory == Promise!Spec

\* Whatever the store lost, delayed or half wrote, opening finds the current
\* checkpoint whole, and the previous one until a flush reuses its slots.
HeadsAreLoadable == CurrentLoadable /\ PreviousLoadable
=============================================================================
