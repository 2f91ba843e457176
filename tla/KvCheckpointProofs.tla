------------------------- MODULE KvCheckpointProofs -------------------------
(***************************************************************************)
(* Proofs about KvCheckpoint, for every number of pages, every set of      *)
(* contents and every batch size: whichever calls of the store fail and    *)
(* wherever the process stops, the published checkpoint stays loadable,    *)
(* and the provider implements CheckpointedMemory.  The hash is assumed to *)
(* tell contents apart (HashAssumption).                                   *)
(***************************************************************************)
EXTENDS KvCheckpoint, TLAPS

Values == Content \union {Missing}

Storage == [Page -> [Slot -> Values]]

\* A checkpoint with a slot and a hash for every page it has.
Sound(checkpoint) ==
    /\ checkpoint \in Checkpoint
    /\ Len(checkpoint.slots) = Len(checkpoint.hashes)
    /\ Len(checkpoint.slots) <= MaxPages

\* A provider that may still publish.
Writer == mode # "closed" /\ ~poisoned /\ ~fallback

\* The manifest to fall back to describes the memory that was published then.
PriorIsPrevious ==
    /\ Len(prior) = Len(head.previous.slots)
    /\ \A p \in Pages(head.previous) : Hash(prior[p]) = head.previous.hashes[p]

\* A writer builds on the current checkpoint, which it can only extend.
WriterIsCurrent ==
    Writer => /\ published = head.current
              /\ Len(published.slots) <= Len(memory)
              /\ dirty \subseteq 1 .. Len(memory)

\* Inside a flush: the manifest to publish, with the pages written so far.
FlushIsExact ==
    mode = "flushing" =>
        /\ Writer
        /\ manifest = [current |-> Candidate, previous |-> published]
        /\ queue \subseteq dirty
        /\ \A p \in dirty \ queue : kv[p][manifest.current.slots[p]] = memory[p]

\* The inductive invariant.
IInv ==
    /\ TypeOK
    /\ Sound(head.current) /\ Sound(head.previous) /\ Sound(published)
    /\ CurrentLoadable
    /\ PreviousLoadable
    /\ PriorIsPrevious
    /\ WriterIsCurrent
    /\ CleanPagesAreDurable
    /\ FlushIsExact

-----------------------------------------------------------------------------
(* Checkpoints                                                             *)

\* The pages of a sound checkpoint are pages, and its slots are slots.
LEMMA SoundPages ==
    ASSUME NEW c, Sound(c)
    PROVE  /\ Pages(c) = 1 .. Len(c.slots)
           /\ Len(c.slots) \in Nat
           /\ Pages(c) \subseteq Page
           /\ \A p \in Pages(c) : c.slots[p] \in Slot /\ c.hashes[p] \in Hashes
<1>1. c.slots \in Seq(Slot) /\ c.hashes \in Seq(Hashes) /\ Len(c.slots) = Len(c.hashes)
  BY DEF Sound, Checkpoint
<1>2. Len(c.slots) \in Nat /\ Len(c.slots) <= MaxPages
  BY <1>1 DEF Sound
<1> QED
  BY <1>1, <1>2, SizesAssumption DEF Pages, Page

\* What is loaded is a memory of contents.
LEMMA LoadType ==
    ASSUME NEW c, Sound(c), NEW view \in Storage, Loads(c, view)
    PROVE  /\ load_memory(c, view) \in Seq(Content)
           /\ Len(load_memory(c, view)) = Len(c.slots)
           /\ \A p \in Pages(c) : /\ load_memory(c, view)[p] = view[p][c.slots[p]]
                                  /\ Hash(load_memory(c, view)[p]) = c.hashes[p]
<1>1. /\ Pages(c) = 1 .. Len(c.slots) /\ Len(c.slots) \in Nat /\ Pages(c) \subseteq Page
      /\ \A p \in Pages(c) : c.slots[p] \in Slot
  BY SoundPages
<1>2. ASSUME NEW p \in Pages(c)
      PROVE  view[p][c.slots[p]] \in Content /\ Hash(view[p][c.slots[p]]) = c.hashes[p]
  <2>1. view[p][c.slots[p]] \in Values
    BY <1>1 DEF Storage
  <2>2. view[p][c.slots[p]] # Missing /\ Hash(view[p][c.slots[p]]) = c.hashes[p]
    BY DEF Loads
  <2> QED
    BY <2>1, <2>2 DEF Values
<1> QED
  BY <1>1, <1>2 DEF load_memory

\* Two answers that both have the hashes of a checkpoint are the same memory.
LEMMA LoadsOneMemory ==
    ASSUME NEW c, Sound(c), NEW m \in Seq(Content), Len(m) = Len(c.slots),
           \A p \in Pages(c) : Hash(m[p]) = c.hashes[p],
           NEW view \in Storage, Loads(c, view)
    PROVE  load_memory(c, view) = m
<1> DEFINE l == load_memory(c, view)
<1>1. /\ l \in Seq(Content) /\ Len(l) = Len(c.slots)
      /\ \A p \in Pages(c) : Hash(l[p]) = c.hashes[p]
  BY LoadType
<1>2. Pages(c) = 1 .. Len(c.slots)
  BY SoundPages
<1> HIDE DEF l
<1>3. \A p \in 1 .. Len(c.slots) : l[p] \in Content /\ m[p] \in Content /\ Hash(l[p]) = Hash(m[p])
  BY <1>1, <1>2
<1>4. \A p \in 1 .. Len(c.slots) : l[p] = m[p]
  BY <1>3, HashAssumption
<1>5. l = m
  BY <1>1, <1>4
<1> QED
  BY <1>5 DEF l

\* Writes to other slots leave a checkpoint as it is.
LEMMA OtherSlots ==
    ASSUME NEW c, NEW view, NEW other,
           \A p \in Pages(c) : other[p][c.slots[p]] = view[p][c.slots[p]]
    PROVE  /\ Loads(c, view) => Loads(c, other)
           /\ load_memory(c, other) = load_memory(c, view)
BY DEF Loads, load_memory

-----------------------------------------------------------------------------
(* One flush                                                               *)

\* What a flush is about to publish is sound, and writes no slot in use.
LEMMA CandidateIsFree ==
    ASSUME IInv, Writer
    PROVE  /\ Sound(Candidate)
           /\ Len(Candidate.slots) = Len(memory)
           /\ \A p \in 1 .. Len(memory) :
                 /\ Candidate.slots[p] \in Slot
                 /\ p \in dirty => Candidate.hashes[p] = Hash(memory[p])
                 /\ p \notin dirty => /\ p \in Pages(published)
                                      /\ Candidate.slots[p] = published.slots[p]
                                      /\ Candidate.hashes[p] = published.hashes[p]
           /\ \A p \in dirty : p \in Pages(published) => Candidate.slots[p] # published.slots[p]
<1>1. /\ memory \in Seq(Content) /\ Len(memory) \in Nat /\ Len(memory) <= MaxPages
      /\ \A p \in 1 .. Len(memory) : memory[p] \in Content
  BY DEF IInv, TypeOK
<1>2. /\ Pages(published) = 1 .. Len(published.slots) /\ Len(published.slots) \in Nat
      /\ \A p \in Pages(published) : published.slots[p] \in Slot /\ published.hashes[p] \in Hashes
  BY SoundPages DEF IInv
<1>3. /\ \A p \in 1 .. Len(memory) \ dirty : p \in Pages(published)
      /\ dirty \subseteq 1 .. Len(memory)
  BY DEF IInv, CleanPagesAreDurable, WriterIsCurrent, Writer
<1> DEFINE S == [p \in 1 .. Len(memory) |->
                    IF p \in dirty THEN CandidateSlot(p) ELSE published.slots[p]]
           H == [p \in 1 .. Len(memory) |->
                    IF p \in dirty THEN Hash(memory[p]) ELSE published.hashes[p]]
<1>4. \A p \in 1 .. Len(memory) : CandidateSlot(p) \in Slot
  BY <1>2 DEF CandidateSlot, Slot
<1>5. S \in Seq(Slot) /\ Len(S) = Len(memory)
  BY <1>1, <1>2, <1>3, <1>4
<1>6. \A p \in 1 .. Len(memory) : H[p] \in Hashes
  BY <1>1, <1>2, <1>3 DEF Hashes
<1>7. H \in Seq(Hashes) /\ Len(H) = Len(memory)
  BY <1>1, <1>6
<1>8. Candidate.slots = S /\ Candidate.hashes = H /\ Candidate = [slots |-> S, hashes |-> H]
  BY DEF Candidate
<1>9. \A p \in 1 .. Len(memory) : S[p] \in Slot
  BY <1>2, <1>3, <1>4
<1>10. Sound(Candidate)
  BY <1>1, <1>5, <1>7, <1>8 DEF Sound, Checkpoint
<1>11. \A p \in dirty : p \in Pages(published) => S[p] # published.slots[p]
  <2> SUFFICES ASSUME NEW p \in dirty, p \in Pages(published)
               PROVE  S[p] # published.slots[p]
    OBVIOUS
  <2>1. S[p] = 1 - published.slots[p] /\ published.slots[p] \in 0 .. 1
    BY <1>2, <1>3 DEF CandidateSlot, Slot
  <2> QED
    BY <2>1
<1> QED
  BY <1>1, <1>3, <1>5, <1>8, <1>9, <1>10, <1>11

\* Inside a flush, part of the queued pages is written.
LEMMA WritePagesKeeps ==
    ASSUME IInv, mode = "flushing", NEW part, part \subseteq queue, WritePages(part)
    PROVE  /\ kv' \in Storage
           /\ \A p \in Pages(head.current) :
                 kv'[p][head.current.slots[p]] = kv[p][head.current.slots[p]]
           /\ Loads(head.current, kv')
           /\ load_memory(head.current, kv') = load_memory(head.current, kv)
           /\ ~overwritten' => Loads(head.previous, kv')
           /\ \A p \in 1 .. Len(memory) \ dirty :
                 kv'[p][published.slots[p]] = kv[p][published.slots[p]]
           /\ \A p \in part : kv'[p][manifest.current.slots[p]] = memory[p]
           /\ \A p \in Page : p \notin part => kv'[p] = kv[p]
           /\ overwritten' \in BOOLEAN
<1>1. /\ Writer /\ manifest.current = Candidate /\ part \subseteq dirty
      /\ published = head.current /\ dirty \subseteq 1 .. Len(memory)
      /\ dirty \subseteq Page /\ kv \in Storage
  BY DEF IInv, FlushIsExact, WriterIsCurrent, TypeOK, Storage, Values
<1>2. /\ \A p \in 1 .. Len(memory) : Candidate.slots[p] \in Slot
      /\ \A p \in dirty : p \in Pages(published) => Candidate.slots[p] # published.slots[p]
  BY <1>1, CandidateIsFree
<1>3. memory \in Seq(Content) /\ \A p \in dirty : memory[p] \in Content
  BY <1>1 DEF IInv, TypeOK
<1>4. kv' = [p \in Page |-> [s \in Slot |->
                IF p \in part /\ s = Candidate.slots[p] THEN memory[p] ELSE kv[p][s]]]
  BY <1>1 DEF WritePages
<1>5. \A p \in Page, s \in Slot :
         kv'[p][s] = IF p \in part /\ s = Candidate.slots[p] THEN memory[p] ELSE kv[p][s]
  BY <1>4
<1>6. kv' \in Storage
  <2>1. \A p \in Page, s \in Slot :
           (IF p \in part /\ s = Candidate.slots[p] THEN memory[p] ELSE kv[p][s]) \in Values
    BY <1>1, <1>3 DEF Storage, Values
  <2> QED
    BY <1>4, <2>1 DEF Storage
<1>7. Pages(published) \subseteq Page /\ \A p \in Pages(published) : published.slots[p] \in Slot
  BY SoundPages DEF IInv
<1>8. ASSUME NEW p \in Pages(head.current)
      PROVE  kv'[p][head.current.slots[p]] = kv[p][head.current.slots[p]]
  BY <1>1, <1>2, <1>5, <1>7
<1>9. /\ Loads(head.current, kv')
      /\ load_memory(head.current, kv') = load_memory(head.current, kv)
  BY <1>8, OtherSlots DEF IInv, CurrentLoadable
<1>10. \A p \in Page : p \notin part => kv'[p] = kv[p]
  <2> SUFFICES ASSUME NEW p \in Page, p \notin part
               PROVE  kv'[p] = kv[p]
    OBVIOUS
  <2>1. kv[p] \in [Slot -> Values] /\ kv'[p] = [s \in Slot |-> kv[p][s]]
    BY <1>1, <1>4 DEF Storage
  <2> QED
    BY <2>1
<1>11. ASSUME ~overwritten'
       PROVE  Loads(head.previous, kv')
  <2>1. ~overwritten /\ part = {}
    BY <1>11 DEF WritePages
  <2>2. Pages(head.previous) \subseteq Page
    BY SoundPages DEF IInv
  <2>3. \A p \in Pages(head.previous) :
           kv'[p][head.previous.slots[p]] = kv[p][head.previous.slots[p]]
    BY <1>10, <2>1, <2>2
  <2>4. Loads(head.previous, kv)
    BY <2>1 DEF IInv, PreviousLoadable
  <2> QED
    BY <2>3, <2>4, OtherSlots
<1>12. \A p \in 1 .. Len(memory) \ dirty : kv'[p][published.slots[p]] = kv[p][published.slots[p]]
  <2>1. \A p \in 1 .. Len(memory) \ dirty : p \in Pages(published)
    BY <1>1 DEF IInv, CleanPagesAreDurable, Writer
  <2> QED
    BY <1>1, <1>8, <2>1
<1>13. \A p \in part : kv'[p][manifest.current.slots[p]] = memory[p]
  BY <1>1, <1>2, <1>5
<1>14. overwritten' \in BOOLEAN
  BY DEF WritePages, IInv, TypeOK
<1> QED
  BY <1>6, <1>8, <1>9, <1>10, <1>11, <1>12, <1>13, <1>14

\* When the last page is written the manifest describes exactly the cache.
LEMMA FlushedPages ==
    ASSUME IInv, mode = "flushing", queue = {}
    PROVE  /\ Sound(manifest.current) /\ manifest.previous = published
           /\ manifest \in Manifest
           /\ Loads(manifest.current, kv)
           /\ load_memory(manifest.current, kv) = memory
           /\ Len(manifest.current.slots) = Len(memory)
<1> DEFINE c == Candidate
<1>1. /\ Writer /\ manifest = [current |-> c, previous |-> published]
      /\ \A p \in dirty : kv[p][c.slots[p]] = memory[p]
  BY DEF IInv, FlushIsExact
<1>2. /\ Sound(c) /\ Len(c.slots) = Len(memory)
      /\ \A p \in 1 .. Len(memory) :
            /\ p \in dirty => c.hashes[p] = Hash(memory[p])
            /\ p \notin dirty => /\ p \in Pages(published)
                                 /\ c.slots[p] = published.slots[p]
                                 /\ c.hashes[p] = published.hashes[p]
  BY <1>1, CandidateIsFree
<1> HIDE DEF c
<1>3. /\ memory \in Seq(Content)
      /\ \A p \in 1 .. Len(memory) : memory[p] \in Content /\ memory[p] # Missing
  BY ContentAssumption DEF IInv, TypeOK
<1>4. \A p \in 1 .. Len(memory) \ dirty : kv[p][published.slots[p]] = memory[p]
  BY <1>1 DEF IInv, CleanPagesAreDurable, Writer
<1>5. \A p \in Pages(published) : Hash(kv[p][published.slots[p]]) = published.hashes[p]
  BY <1>1 DEF IInv, WriterIsCurrent, CurrentLoadable, Loads
<1>6. Pages(c) = 1 .. Len(memory)
  BY <1>2 DEF Pages
<1>7. \A p \in Pages(c) : kv[p][c.slots[p]] = memory[p] /\ Hash(memory[p]) = c.hashes[p]
  BY <1>1, <1>2, <1>4, <1>5, <1>6
<1>8. Loads(c, kv)
  BY <1>3, <1>6, <1>7 DEF Loads
<1>9. load_memory(c, kv) = memory
  BY <1>3, <1>6, <1>7 DEF load_memory
<1>10. manifest.current = c /\ manifest.previous = published /\ manifest \in Manifest
  BY <1>1, <1>2 DEF Manifest, Sound, IInv, TypeOK
<1> QED
  BY <1>2, <1>8, <1>9, <1>10

-----------------------------------------------------------------------------
(* The invariant                                                           *)

LEMMA InitIInv == Init => IInv
<1> SUFFICES ASSUME Init PROVE IInv
  OBVIOUS
<1> USE DEF Init
<1>1. EmptyCheckpoint \in Checkpoint /\ Sound(EmptyCheckpoint)
  BY SizesAssumption DEF EmptyCheckpoint, Checkpoint, Sound
<1>2. TypeOK
  <2>1. kv \in [Page -> [Slot -> Content \union {Missing}]]
    OBVIOUS
  <2>2. EmptyManifest \in Manifest
    BY <1>1 DEF EmptyManifest, Manifest
  <2>3. <<>> \in Seq(Content) /\ Len(<<>>) <= MaxPages
    BY SizesAssumption
  <2> QED
    BY <1>1, <2>1, <2>2, <2>3 DEF TypeOK
<1>3. Pages(EmptyCheckpoint) = {}
  BY DEF EmptyCheckpoint, Pages
<1>4. CurrentLoadable /\ PreviousLoadable
  BY <1>3 DEF CurrentLoadable, PreviousLoadable, Loads, EmptyManifest
<1>5. PriorIsPrevious
  BY <1>3 DEF PriorIsPrevious, EmptyManifest, EmptyCheckpoint
<1>6. WriterIsCurrent /\ CleanPagesAreDurable /\ FlushIsExact
  BY DEF WriterIsCurrent, CleanPagesAreDurable, FlushIsExact, Writer
<1> QED
  BY <1>1, <1>2, <1>4, <1>5, <1>6 DEF IInv, EmptyManifest

\* The parts that only speak of the store survive a step that leaves it.
LEMMA StoreKept ==
    ASSUME IInv, UNCHANGED store
    PROVE  /\ Sound(head.current)' /\ Sound(head.previous)'
           /\ CurrentLoadable' /\ PreviousLoadable' /\ PriorIsPrevious'
<1>1. kv' = kv /\ head' = head /\ prior' = prior /\ overwritten' = overwritten
  BY DEF store
<1> QED
  BY <1>1 DEF IInv, Sound, CurrentLoadable, PreviousLoadable, PriorIsPrevious, Loads, Pages

\* A provider that starts from one of the two checkpoints.
LEMMA OpenIInv ==
    ASSUME IInv, NEW c, NEW view \in Views, NEW b \in BOOLEAN,
           Sound(c), Loads(c, view), OpenWith(c, view, b),
           ~b => c = head.current /\ load_memory(c, view) = load_memory(c, kv)
    PROVE  IInv'
<1> DEFINE m == load_memory(c, view)
<1>1. view \in Storage
  BY DEF Views, Storage, Values
<1>2. m \in Seq(Content) /\ Len(m) = Len(c.slots)
  BY <1>1, LoadType
<1>3. /\ mode' = "open" /\ memory' = m /\ published' = c /\ dirty' = {}
      /\ fallback' = b /\ poisoned' = FALSE
      /\ UNCHANGED store /\ manifest' = manifest /\ queue' = queue
  BY DEF OpenWith
<1>4. UNCHANGED <<kv, head, prior, overwritten>>
  BY <1>3 DEF store
<1>5. /\ Sound(head.current)' /\ Sound(head.previous)'
      /\ CurrentLoadable' /\ PreviousLoadable' /\ PriorIsPrevious'
  BY <1>3, StoreKept
<1>6. Sound(published)'
  BY <1>3 DEF Sound
<1> HIDE DEF m
<1>7. TypeOK'
  BY <1>2, <1>3, <1>4 DEF IInv, TypeOK, Sound
<1>8. WriterIsCurrent'
  BY <1>2, <1>3, <1>4 DEF WriterIsCurrent, Writer, IInv, TypeOK, Sound, Checkpoint
<1>9. CleanPagesAreDurable'
  <2> SUFFICES ASSUME ~b, NEW p \in 1 .. Len(m)
               PROVE  p \in Pages(c) /\ kv[p][c.slots[p]] = m[p]
    BY <1>3, <1>4 DEF CleanPagesAreDurable, Pages
  <2>1. p \in Pages(c)
    BY <1>2 DEF Pages
  <2>2. m = load_memory(c, kv)
    BY DEF m
  <2> QED
    BY <2>1, <2>2 DEF load_memory
<1>10. FlushIsExact'
  BY <1>3 DEF FlushIsExact
<1> QED
  BY <1>5, <1>6, <1>7, <1>8, <1>9, <1>10 DEF IInv

\* Both checkpoints that opening may load hold the memory the store says.
LEMMA OpenedMemory ==
    ASSUME IInv, NEW view \in Views
    PROVE  /\ Loads(head.current, view) =>
                  load_memory(head.current, view) = load_memory(head.current, kv)
           /\ Loads(head.previous, view) => load_memory(head.previous, view) = prior
<1>1. view \in Storage /\ kv \in Storage
  BY DEF Views, Storage, Values, IInv, TypeOK
<1>2. Sound(head.current) /\ Sound(head.previous) /\ Loads(head.current, kv)
  BY DEF IInv, CurrentLoadable
<1>3. ASSUME Loads(head.current, view)
      PROVE  load_memory(head.current, view) = load_memory(head.current, kv)
  <2> DEFINE m == load_memory(head.current, kv)
  <2>1. /\ m \in Seq(Content) /\ Len(m) = Len(head.current.slots)
        /\ \A p \in Pages(head.current) : Hash(m[p]) = head.current.hashes[p]
    BY <1>1, <1>2, LoadType
  <2> HIDE DEF m
  <2>2. load_memory(head.current, view) = m
    BY <1>1, <1>2, <1>3, <2>1, LoadsOneMemory
  <2> QED
    BY <2>2 DEF m
<1>4. ASSUME Loads(head.previous, view)
      PROVE  load_memory(head.previous, view) = prior
  <2>1. /\ prior \in Seq(Content) /\ Len(prior) = Len(head.previous.slots)
        /\ \A p \in Pages(head.previous) : Hash(prior[p]) = head.previous.hashes[p]
    BY DEF IInv, TypeOK, PriorIsPrevious
  <2> QED
    BY <1>1, <1>2, <1>4, <2>1, LoadsOneMemory
<1> QED
  BY <1>3, <1>4

\* A writer changes its cache and marks what it changed.
LEMMA ChangeIInv ==
    ASSUME IInv, check_writable,
           memory' \in Seq(Content), Len(memory') <= MaxPages,
           Len(published'.slots) <= Len(memory'),
           published' = published, dirty' \subseteq 1 .. Len(memory'),
           \A p \in 1 .. Len(memory') \ dirty' :
              p \in 1 .. Len(memory) \ dirty /\ memory'[p] = memory[p],
           UNCHANGED <<mode, fallback, poisoned, store, manifest, queue>>
    PROVE  IInv'
<1>1. UNCHANGED <<kv, head, prior, overwritten>>
  BY DEF store
<1>2. /\ Sound(head.current)' /\ Sound(head.previous)'
      /\ CurrentLoadable' /\ PreviousLoadable' /\ PriorIsPrevious'
  BY StoreKept
<1>3. Sound(published)'
  BY DEF IInv, Sound
<1>4. dirty' \subseteq Page
  BY SizesAssumption DEF Page
<1>5. TypeOK'
  BY <1>1, <1>4 DEF IInv, TypeOK
<1>6. Writer /\ mode' = "open"
  BY DEF Writer, check_writable
<1>7. WriterIsCurrent'
  BY <1>1, <1>6 DEF WriterIsCurrent, Writer, IInv
<1>8. CleanPagesAreDurable'
  BY <1>1, <1>6 DEF CleanPagesAreDurable, Writer, IInv, Pages
<1>9. FlushIsExact'
  BY <1>6 DEF FlushIsExact
<1> QED
  BY <1>2, <1>3, <1>5, <1>7, <1>8, <1>9 DEF IInv

\* A batch, whole or in part, of a running flush.
LEMMA BatchIInv ==
    ASSUME IInv, mode = "flushing", NEW part, part \subseteq queue, WritePages(part),
           UNCHANGED <<memory, published, dirty, fallback, poisoned>>,
           \/ mode' = mode /\ manifest' = manifest /\ queue' \subseteq queue /\ queue \ queue' \subseteq part
           \/ mode' = "open" /\ manifest' = EmptyManifest /\ queue' = {}
    PROVE  IInv'
<1>1. /\ kv' \in Storage
      /\ Loads(head.current, kv')
      /\ ~overwritten' => Loads(head.previous, kv')
      /\ \A p \in 1 .. Len(memory) \ dirty :
            kv'[p][published.slots[p]] = kv[p][published.slots[p]]
      /\ \A p \in part : kv'[p][manifest.current.slots[p]] = memory[p]
      /\ \A p \in Page : p \notin part => kv'[p] = kv[p]
      /\ overwritten' \in BOOLEAN
  BY WritePagesKeeps
<1>2. head' = head /\ prior' = prior
  BY DEF WritePages
<1>3. EmptyManifest \in Manifest
  BY DEF EmptyManifest, EmptyCheckpoint, Manifest, Checkpoint
<1>4. TypeOK'
  BY <1>1, <1>2, <1>3 DEF IInv, TypeOK, Storage, Values
<1>5. Sound(head.current)' /\ Sound(head.previous)' /\ Sound(published)' /\ PriorIsPrevious'
  BY <1>2 DEF IInv, Sound, PriorIsPrevious, Pages
<1>6. CurrentLoadable' /\ PreviousLoadable'
  BY <1>1, <1>2 DEF CurrentLoadable, PreviousLoadable, Loads, Pages
<1>7. /\ Writer /\ Writer' /\ queue \subseteq dirty /\ dirty \subseteq Page
      /\ manifest = [current |-> Candidate, previous |-> published]
      /\ \A p \in dirty \ queue : kv[p][manifest.current.slots[p]] = memory[p]
  BY DEF IInv, FlushIsExact, Writer, TypeOK
<1>8. WriterIsCurrent'
  BY <1>2, <1>7 DEF WriterIsCurrent, IInv
<1>9. CleanPagesAreDurable'
  BY <1>1, <1>7 DEF CleanPagesAreDurable, Writer, IInv, Pages
<1>10. FlushIsExact'
  <2> SUFFICES ASSUME mode' = "flushing"
               PROVE  /\ manifest' = [current |-> Candidate', previous |-> published']
                      /\ queue' \subseteq dirty'
                      /\ \A p \in dirty' \ queue' : kv'[p][manifest'.current.slots[p]] = memory'[p]
    BY <1>7 DEF FlushIsExact
  <2>1. manifest' = manifest /\ queue' \subseteq queue /\ queue \ queue' \subseteq part
    OBVIOUS
  <2>2. Candidate' = Candidate
    BY DEF Candidate, CandidateSlot, Pages
  <2>3. ASSUME NEW p \in dirty \ queue'
        PROVE  kv'[p][manifest.current.slots[p]] = memory[p]
    <3>1. CASE p \in part
      BY <1>1, <3>1
    <3>2. CASE p \notin part
      BY <1>1, <1>7, <2>1, <3>2
    <3> QED
      BY <3>1, <3>2
  <2> QED
    BY <1>7, <2>1, <2>2, <2>3
<1> QED
  BY <1>4, <1>5, <1>6, <1>8, <1>9, <1>10 DEF IInv

\* The head is replaced after the last batch.
LEMMA HeadIInv ==
    ASSUME IInv, EndFlush, ReplaceHead, fallback' = fallback,
           \/ published' = manifest.current /\ dirty' = {} /\ poisoned' = poisoned
           \/ published' = published /\ dirty' = dirty /\ poisoned' = TRUE
    PROVE  IInv'
<1> DEFINE c == manifest.current
<1>1. /\ mode = "flushing" /\ queue = {} /\ mode' = "open" /\ manifest' = EmptyManifest
      /\ memory' = memory /\ queue' = queue
      /\ head' = manifest /\ prior' = load_memory(head.current, kv)
      /\ overwritten' = FALSE /\ kv' = kv
  BY DEF EndFlush, ReplaceHead
<1>2. /\ Sound(c) /\ manifest.previous = published /\ manifest \in Manifest
      /\ Loads(c, kv) /\ load_memory(c, kv) = memory /\ Len(c.slots) = Len(memory)
  BY <1>1, FlushedPages
<1>3. Writer /\ published = head.current
  BY <1>1 DEF IInv, FlushIsExact, WriterIsCurrent
<1>4. /\ load_memory(published, kv) \in Seq(Content)
      /\ Len(load_memory(published, kv)) = Len(published.slots)
      /\ \A p \in Pages(published) : Hash(load_memory(published, kv)[p]) = published.hashes[p]
      /\ Loads(published, kv) /\ Sound(published)
  <2>1. Sound(published) /\ Loads(published, kv) /\ kv \in Storage
    BY <1>3 DEF IInv, CurrentLoadable, TypeOK, Storage, Values
  <2> QED
    BY <2>1, LoadType
<1>5. EmptyManifest \in Manifest
  BY DEF EmptyManifest, EmptyCheckpoint, Manifest, Checkpoint
<1>6. c \in Checkpoint
  BY <1>2 DEF Sound
<1>7. TypeOK'
  <2>1. prior' \in Seq(Content)
    BY <1>1, <1>3, <1>4
  <2>2. /\ kv' \in [Page -> [Slot -> Content \union {Missing}]]
        /\ head' \in Manifest /\ manifest' \in Manifest
        /\ mode' \in {"closed", "open", "flushing"}
        /\ memory' \in Seq(Content) /\ Len(memory') <= MaxPages
        /\ queue' \subseteq Page
    BY <1>1, <1>2, <1>5 DEF IInv, TypeOK
  <2>3. published' \in Checkpoint /\ dirty' \subseteq Page
    BY <1>6 DEF IInv, TypeOK
  <2>4. fallback' \in BOOLEAN /\ poisoned' \in BOOLEAN /\ overwritten' \in BOOLEAN
    BY <1>1 DEF IInv, TypeOK
  <2> QED
    BY <2>1, <2>2, <2>3, <2>4 DEF TypeOK
<1>8. Sound(head.current)' /\ Sound(head.previous)' /\ Sound(published)'
  BY <1>1, <1>2, <1>4 DEF Sound
<1>9. CurrentLoadable' /\ PreviousLoadable'
  <2>1. Loads(c, kv') /\ Loads(published, kv')
    BY <1>1, <1>2, <1>4
  <2> QED
    BY <1>1, <1>2, <2>1 DEF CurrentLoadable, PreviousLoadable, Loads, Pages
<1>10. PriorIsPrevious'
  BY <1>1, <1>2, <1>3, <1>4 DEF PriorIsPrevious, Pages
<1> HIDE DEF c
<1>11. WriterIsCurrent'
  <2> SUFFICES ASSUME Writer'
               PROVE  /\ published' = head'.current
                      /\ Len(published'.slots) <= Len(memory')
                      /\ dirty' \subseteq 1 .. Len(memory')
    BY DEF WriterIsCurrent
  <2>1. published' = c /\ dirty' = {} /\ head'.current = c
    BY <1>1 DEF Writer, c
  <2>2. Len(memory) \in Nat
    BY DEF IInv, TypeOK
  <2> QED
    BY <1>1, <1>2, <2>1, <2>2
<1>12. CleanPagesAreDurable'
  <2> SUFFICES ASSUME ~poisoned', NEW p \in 1 .. Len(memory')
               PROVE  p \in Pages(published') /\ kv'[p][published'.slots[p]] = memory'[p]
    BY DEF CleanPagesAreDurable, Pages
  <2>1. published' = c /\ p \in Pages(c)
    BY <1>1, <1>2 DEF c, Pages
  <2>2. load_memory(c, kv)[p] = kv[p][c.slots[p]]
    BY <2>1 DEF load_memory
  <2> QED
    BY <1>1, <1>2, <2>1, <2>2
<1>13. FlushIsExact'
  BY <1>1 DEF FlushIsExact
<1> QED
  BY <1>7, <1>8, <1>9, <1>10, <1>11, <1>12, <1>13 DEF IInv

LEMMA NextIInv == IInv /\ [Next]_vars => IInv'
<1> SUFFICES ASSUME IInv, [Next]_vars PROVE IInv'
  OBVIOUS
<1>1. CASE OpenCurrent
  <2>1. PICK view \in Views : Loads(head.current, view) /\ OpenWith(head.current, view, FALSE)
    BY <1>1 DEF OpenCurrent
  <2>2. Sound(head.current) /\ load_memory(head.current, view) = load_memory(head.current, kv)
    BY <2>1, OpenedMemory DEF IInv
  <2> QED
    BY <2>1, <2>2, OpenIInv
<1>2. CASE OpenPrevious
  <2>1. PICK view \in Views : Loads(head.previous, view) /\ OpenWith(head.previous, view, TRUE)
    BY <1>2 DEF OpenPrevious
  <2>2. Sound(head.previous)
    BY DEF IInv
  <2> QED
    BY <2>1, <2>2, OpenIInv
<1>3. CASE Close
  <2>1. /\ mode' = "closed" /\ memory' = <<>> /\ published' = EmptyCheckpoint /\ dirty' = {}
        /\ fallback' = FALSE /\ poisoned' = FALSE /\ manifest' = EmptyManifest /\ queue' = {}
        /\ UNCHANGED store /\ UNCHANGED <<kv, head, prior, overwritten>>
    BY <1>3 DEF Close, store
  <2>2. EmptyCheckpoint \in Checkpoint /\ Sound(EmptyCheckpoint) /\ EmptyManifest \in Manifest
    BY SizesAssumption DEF EmptyCheckpoint, Checkpoint, Sound, EmptyManifest, Manifest
  <2>3. TypeOK'
    <3>1. <<>> \in Seq(Content) /\ Len(<<>>) <= MaxPages
      BY SizesAssumption
    <3> QED
      BY <2>1, <2>2, <3>1 DEF IInv, TypeOK
  <2>4. WriterIsCurrent' /\ CleanPagesAreDurable' /\ FlushIsExact'
    BY <2>1 DEF WriterIsCurrent, CleanPagesAreDurable, FlushIsExact, Writer
  <2>5. Sound(published)'
    BY <2>1, <2>2 DEF Sound
  <2> QED
    BY <2>1, <2>3, <2>4, <2>5, StoreKept DEF IInv
<1>4. CASE Grow
  <2>1. /\ check_writable /\ Len(memory) < MaxPages /\ memory' = Append(memory, Blank)
        /\ dirty' = dirty \union {Len(memory) + 1}
        /\ UNCHANGED <<mode, published, fallback, poisoned, store, manifest, queue>>
    BY <1>4 DEF Grow
  <2>2. /\ memory \in Seq(Content) /\ Len(memory) \in Nat /\ Blank \in Content
        /\ Len(published.slots) <= Len(memory) /\ dirty \subseteq 1 .. Len(memory)
        /\ Len(published.slots) \in Nat
    BY <2>1, ContentAssumption
    DEF IInv, TypeOK, check_writable, WriterIsCurrent, Writer, Sound, Checkpoint
  <2>3. /\ memory' \in Seq(Content) /\ Len(memory') = Len(memory) + 1
        /\ \A p \in 1 .. Len(memory) : memory'[p] = memory[p]
    BY <2>1, <2>2
  <2>4. /\ Len(memory') <= MaxPages /\ Len(published'.slots) <= Len(memory')
        /\ dirty' \subseteq 1 .. Len(memory')
    <3>1. Len(memory') <= MaxPages
      BY <2>1, <2>2, <2>3, SizesAssumption
    <3>2. Len(published'.slots) <= Len(memory')
      <4>1. Len(published'.slots) = Len(published.slots) /\ Len(memory') = Len(memory) + 1
        BY <2>1, <2>3
      <4> QED
        BY <2>2, <4>1
    <3>3. ASSUME NEW p \in dirty'
          PROVE  p \in 1 .. Len(memory')
      <4>1. Len(memory') = Len(memory) + 1 /\ p \in dirty \union {Len(memory) + 1}
        BY <2>1, <2>3
      <4>2. p \in 1 .. Len(memory) \/ p = Len(memory) + 1
        BY <2>2, <4>1
      <4> QED
        BY <2>2, <4>1, <4>2
    <3> QED
      BY <3>1, <3>2, <3>3
  <2>5. \A p \in 1 .. Len(memory') \ dirty' :
           p \in 1 .. Len(memory) \ dirty /\ memory'[p] = memory[p]
    BY <2>1, <2>2, <2>3
  <2> QED
    BY <2>1, <2>3, <2>4, <2>5, ChangeIInv
<1>5. CASE \E first, last \in Page, x \in Content : Write(first, last, x)
  <2>1. PICK first \in Page, last \in Page, x \in Content : Write(first, last, x)
    BY <1>5
  <2>2. /\ check_writable /\ first <= last /\ last <= Len(memory)
        /\ memory' = [p \in 1 .. Len(memory) |-> IF p \in first .. last THEN x ELSE memory[p]]
        /\ dirty' = dirty \union (first .. last)
        /\ UNCHANGED <<mode, published, fallback, poisoned, store, manifest, queue>>
    BY <2>1 DEF Write
  <2>3. /\ memory \in Seq(Content) /\ Len(memory) \in Nat /\ Len(memory) <= MaxPages
        /\ Len(published.slots) <= Len(memory) /\ dirty \subseteq 1 .. Len(memory)
    BY <2>2 DEF IInv, TypeOK, check_writable, WriterIsCurrent, Writer
  <2>4. memory' \in Seq(Content) /\ Len(memory') = Len(memory)
    BY <2>2, <2>3
  <2>5. dirty' \subseteq 1 .. Len(memory')
    BY <2>2, <2>3, <2>4 DEF Page
  <2>6. \A p \in 1 .. Len(memory') \ dirty' :
           p \in 1 .. Len(memory) \ dirty /\ memory'[p] = memory[p]
    BY <2>2, <2>3, <2>4
  <2> QED
    BY <2>2, <2>3, <2>4, <2>5, <2>6, ChangeIInv
<1>6. CASE \E n \in Page : \E bytes \in [1 .. n -> Content] : import_snapshot(bytes)
  <2>1. PICK n \in Page : \E bytes \in [1 .. n -> Content] : import_snapshot(bytes)
    BY <1>6
  <2>2. PICK bytes \in [1 .. n -> Content] : import_snapshot(bytes)
    BY <2>1
  <2>3. /\ check_writable /\ memory = <<>> /\ memory' = bytes
        /\ published' = EmptyCheckpoint /\ dirty' = 1 .. Len(bytes)
        /\ UNCHANGED <<mode, fallback, poisoned, store, manifest, queue>>
    BY <2>2 DEF import_snapshot
  <2>4. n \in Nat /\ n <= MaxPages /\ bytes \in Seq(Content) /\ Len(bytes) = n
    BY <2>2, SizesAssumption DEF Page
  <2>5. published = EmptyCheckpoint
    <3>1. /\ published \in Checkpoint /\ Len(published.slots) = Len(published.hashes)
          /\ Len(published.slots) <= Len(memory)
      BY <2>3 DEF IInv, Sound, WriterIsCurrent, Writer, check_writable
    <3>2. published.slots = <<>> /\ published.hashes = <<>>
      BY <2>3, <3>1 DEF Checkpoint
    <3> QED
      BY <3>1, <3>2 DEF Checkpoint, EmptyCheckpoint
  <2>6. Len(published'.slots) <= Len(memory')
    BY <2>3, <2>4 DEF EmptyCheckpoint
  <2>7. 1 .. Len(memory') \ dirty' = {}
    BY <2>3
  <2> QED
    BY <2>3, <2>4, <2>5, <2>6, <2>7, ChangeIInv
<1>7. CASE FlushStart
  <2>1. /\ check_writable /\ mode' = "flushing"
        /\ manifest' = [current |-> Candidate, previous |-> published] /\ queue' = dirty
        /\ UNCHANGED <<memory, published, dirty, fallback, poisoned>> /\ UNCHANGED store
        /\ UNCHANGED <<kv, head, prior, overwritten>>
    BY <1>7 DEF FlushStart, store
  <2>2. Writer /\ Writer'
    BY <2>1 DEF Writer, check_writable
  <2>3. manifest' \in Manifest
    BY <2>1, <2>2, CandidateIsFree DEF Manifest, Sound, IInv, TypeOK
  <2>4. TypeOK'
    BY <2>1, <2>3 DEF IInv, TypeOK
  <2>5. Sound(published)' /\ WriterIsCurrent' /\ CleanPagesAreDurable'
    BY <2>1, <2>2 DEF IInv, Sound, WriterIsCurrent, CleanPagesAreDurable, Writer, Pages
  <2>6. Candidate' = Candidate
    BY <2>1 DEF Candidate, CandidateSlot, Pages
  <2>7. FlushIsExact'
    BY <2>1, <2>2, <2>6 DEF FlushIsExact
  <2> QED
    BY <2>1, <2>4, <2>5, <2>7, StoreKept DEF IInv
<1>8. CASE WriteBatch
  <2>1. /\ mode = "flushing" /\ WritePages(Batch) /\ queue' = queue \ Batch
        /\ UNCHANGED <<mode, memory, published, dirty, fallback, poisoned, manifest>>
    BY <1>8 DEF WriteBatch, provider
  <2>2. Batch \subseteq queue
    BY DEF Batch
  <2> QED
    BY <2>1, <2>2, BatchIInv
<1>9. CASE BatchFails
  <2>1. PICK part \in SUBSET Batch : WritePages(part)
    BY <1>9 DEF BatchFails
  <2>2. part \subseteq queue
    BY DEF Batch
  <2>3. /\ mode = "flushing" /\ mode' = "open" /\ manifest' = EmptyManifest /\ queue' = {}
        /\ UNCHANGED <<memory, published, dirty, fallback, poisoned>>
    BY <1>9 DEF BatchFails
  <2> QED
    BY <2>1, <2>2, <2>3, BatchIInv
<1>10. CASE SetHead
  <2>1. fallback' = fallback
    BY <1>10 DEF SetHead, EndFlush, IInv, FlushIsExact, Writer, TypeOK
  <2> QED
    BY <1>10, <2>1, HeadIInv DEF SetHead
<1>11. CASE SetHeadFails
  <2>1. CASE ReplaceHead
    BY <1>11, <2>1, HeadIInv DEF SetHeadFails
  <2>2. CASE UNCHANGED store
    <3>1. /\ mode' = "open" /\ manifest' = EmptyManifest /\ poisoned' = TRUE
          /\ UNCHANGED <<memory, queue, published, dirty, fallback>>
          /\ UNCHANGED <<kv, head, prior, overwritten>>
      BY <1>11, <2>2 DEF SetHeadFails, EndFlush, store
    <3>2. EmptyManifest \in Manifest
      BY DEF EmptyManifest, EmptyCheckpoint, Manifest, Checkpoint
    <3>3. TypeOK'
      BY <3>1, <3>2 DEF IInv, TypeOK
    <3>4. Sound(published)' /\ WriterIsCurrent' /\ CleanPagesAreDurable' /\ FlushIsExact'
      BY <3>1 DEF IInv, Sound, WriterIsCurrent, CleanPagesAreDurable, FlushIsExact, Writer
    <3> QED
      BY <2>2, <3>3, <3>4, StoreKept DEF IInv
  <2> QED
    BY <1>11, <2>1, <2>2 DEF SetHeadFails
<1>12. CASE UNCHANGED vars
  <2>1. /\ UNCHANGED <<mode, memory, published, dirty, fallback, poisoned, manifest, queue>>
        /\ UNCHANGED store /\ UNCHANGED <<kv, head, prior, overwritten>>
    BY <1>12 DEF vars, provider, store
  <2>2. TypeOK' /\ Sound(published)'
    BY <2>1 DEF IInv, TypeOK, Sound
  <2>3. WriterIsCurrent' /\ CleanPagesAreDurable'
    BY <2>1 DEF IInv, WriterIsCurrent, CleanPagesAreDurable, Writer, Pages
  <2>4. Candidate' = Candidate
    BY <2>1 DEF Candidate, CandidateSlot, Pages
  <2>5. FlushIsExact'
    BY <2>1, <2>4 DEF IInv, FlushIsExact, Writer
  <2> QED
    BY <2>1, <2>2, <2>3, <2>5, StoreKept DEF IInv
<1> QED
  BY <1>1, <1>2, <1>3, <1>4, <1>5, <1>6, <1>7, <1>8, <1>9, <1>10, <1>11, <1>12 DEF Next

\* The provider, the store and the locals of flush_inner agree as IInv says in
\* every reachable state.
THEOREM InvariantHolds == Spec => []IInv
BY InitIInv, NextIInv, PTL DEF Spec

-----------------------------------------------------------------------------
(* Results                                                                 *)

\* Whatever the store lost, delayed or half wrote and wherever the process
\* stopped, the pages the head names are in the store with their hashes, and
\* those of the checkpoint before it until a flush reuses its slots.
THEOREM HeadsLoadable == Spec => []HeadsAreLoadable
<1>1. IInv => HeadsAreLoadable
  BY DEF IInv, HeadsAreLoadable
<1> QED
  BY <1>1, InvariantHolds, PTL

\* A page without a dirty flag is in the store, in the slot the next manifest
\* names for it, so a flush that skips it loses nothing.
THEOREM CleanPagesDurable == Spec => []CleanPagesAreDurable
<1>1. IInv => CleanPagesAreDurable
  BY DEF IInv
<1> QED
  BY <1>1, InvariantHolds, PTL

\* The initial states of the provider are initial states of the promise.
LEMMA PromiseInit == Init => Promise!Init
<1> SUFFICES ASSUME Init PROVE Promise!Init
  OBVIOUS
<1>1. load_memory(head.current, kv) = <<>>
  BY DEF Init, EmptyManifest, EmptyCheckpoint, load_memory, Pages
<1>2. Role = "closed"
  BY DEF Init, Role
<1> QED
  BY <1>1, <1>2 DEF Init, Promise!Init

\* The roles, by the flags that decide them.
LEMMA Roles ==
    /\ mode = "closed" => Role = "closed"
    /\ mode # "closed" /\ poisoned => Role = "poisoned"
    /\ mode # "closed" /\ ~poisoned /\ fallback => Role = "reader"
    /\ Writer => Role = "writer"
BY DEF Role, Writer

\* The same after a step.
LEMMA NextRoles ==
    /\ mode' = "closed" => Role' = "closed"
    /\ mode' # "closed" /\ poisoned' => Role' = "poisoned"
    /\ mode' # "closed" /\ ~poisoned' /\ fallback' => Role' = "reader"
    /\ Writer' => Role' = "writer"
BY DEF Role, Writer

\* Every step of the provider is a step of the promise, or none.
LEMMA PromiseNext == IInv /\ [Next]_vars => [Promise!Next]_(Promise!vars)
<1> SUFFICES ASSUME IInv, [Next]_vars PROVE [Promise!Next]_(Promise!vars)
  OBVIOUS
<1> DEFINE durable == load_memory(head.current, kv)
<1>1. ASSUME UNCHANGED store
      PROVE  durable' = durable /\ prior' = prior
  BY <1>1 DEF store, load_memory, Pages
<1>2. ASSUME check_writable
      PROVE  Writer /\ Role = "writer"
  BY <1>2, Roles DEF check_writable, Writer
<1>3. ASSUME mode = "flushing"
      PROVE  Writer /\ Role = "writer"
  BY <1>3, Roles DEF IInv, FlushIsExact
<1> HIDE DEF durable
<1>4. CASE OpenCurrent
  <2>1. PICK view \in Views : Loads(head.current, view) /\ OpenWith(head.current, view, FALSE)
    BY <1>4 DEF OpenCurrent
  <2>2. mode = "closed" /\ memory' = durable /\ Writer' /\ UNCHANGED store
    BY <2>1, OpenedMemory DEF OpenWith, Writer, durable
  <2>3. Promise!Open
    BY <1>1, <2>2, Roles, NextRoles DEF Promise!Open, durable
  <2> QED
    BY <2>3 DEF Promise!Next
<1>5. CASE OpenPrevious
  <2>1. PICK view \in Views : /\ Loads(head.previous, view) /\ OpenWith(head.previous, view, TRUE)
                              /\ head.previous.slots # <<>>
    BY <1>5 DEF OpenPrevious
  <2>2. /\ mode = "closed" /\ memory' = prior /\ UNCHANGED store
        /\ mode' # "closed" /\ ~poisoned' /\ fallback'
    BY <2>1, OpenedMemory DEF OpenWith
  <2>3. prior # <<>>
    <3>1. head.previous.slots \in Seq(Slot) /\ Len(prior) = Len(head.previous.slots)
      BY DEF IInv, Sound, Checkpoint, PriorIsPrevious
    <3>2. Len(head.previous.slots) # 0
      BY <2>1, <3>1
    <3> QED
      BY <3>1, <3>2
  <2>4. Promise!OpenFallback
    BY <1>1, <2>2, <2>3, Roles, NextRoles DEF Promise!OpenFallback, durable
  <2> QED
    BY <2>4 DEF Promise!Next
<1>6. CASE Close
  <2>1. mode # "closed" /\ mode' = "closed" /\ memory' = <<>> /\ UNCHANGED store
    BY <1>6 DEF Close
  <2>2. Role # "closed"
    BY <2>1 DEF Role
  <2>3. Promise!Close
    BY <1>1, <2>1, <2>2, NextRoles DEF Promise!Close, durable
  <2> QED
    BY <2>3 DEF Promise!Next
<1>7. ASSUME check_writable, UNCHANGED <<mode, fallback, poisoned, store>>
      PROVE  Promise!Next
  <2>1. Writer /\ Writer' /\ Role = "writer" /\ Role' = "writer"
    BY <1>2, <1>7, NextRoles DEF Writer
  <2>2. Promise!Change
    BY <1>1, <1>7, <2>1 DEF Promise!Change, durable
  <2> QED
    BY <2>2 DEF Promise!Next
<1>8. CASE Grow
  BY <1>7, <1>8 DEF Grow
<1>9. CASE \E first, last \in Page, x \in Content : Write(first, last, x)
  BY <1>7, <1>9 DEF Write
<1>10. CASE \E n \in Page : \E bytes \in [1 .. n -> Content] : import_snapshot(bytes)
  BY <1>7, <1>10 DEF import_snapshot
<1>11. CASE FlushStart
  <2>1. Writer' /\ UNCHANGED store /\ memory' = memory /\ check_writable
    BY <1>11 DEF FlushStart, Writer, check_writable
  <2> QED
    BY <1>1, <1>2, <2>1, NextRoles DEF Promise!vars, durable
<1>12. ASSUME mode = "flushing", NEW part, part \subseteq queue, WritePages(part),
              mode' # "closed", UNCHANGED <<memory, fallback, poisoned>>
       PROVE  UNCHANGED Promise!vars
  <2>1. durable' = durable /\ prior' = prior
    <3>1. load_memory(head.current, kv') = load_memory(head.current, kv)
      BY <1>12, WritePagesKeeps
    <3>2. head' = head /\ prior' = prior
      BY <1>12 DEF WritePages
    <3> QED
      BY <3>1, <3>2 DEF durable, load_memory, Pages
  <2>2. Writer'
    BY <1>3, <1>12 DEF Writer
  <2> QED
    BY <1>3, <1>12, <2>1, <2>2, NextRoles DEF Promise!vars, durable
<1>13. CASE WriteBatch
  <2>1. /\ mode = "flushing" /\ Batch \subseteq queue /\ WritePages(Batch)
        /\ mode' # "closed" /\ UNCHANGED <<memory, fallback, poisoned>>
    BY <1>13 DEF WriteBatch, provider, Batch
  <2> QED
    BY <1>12, <2>1
<1>14. CASE BatchFails
  <2>1. PICK part \in SUBSET Batch : WritePages(part)
    BY <1>14 DEF BatchFails
  <2>2. /\ mode = "flushing" /\ part \subseteq queue
        /\ mode' # "closed" /\ UNCHANGED <<memory, fallback, poisoned>>
    BY <1>14 DEF BatchFails, Batch
  <2> QED
    BY <1>12, <2>1, <2>2
<1>15. ASSUME EndFlush, ReplaceHead, Role' \in {"writer", "poisoned"}
       PROVE  Promise!Next
  <2>1. /\ mode = "flushing" /\ queue = {} /\ memory' = memory
        /\ head' = manifest /\ prior' = durable /\ kv' = kv
    BY <1>15 DEF EndFlush, ReplaceHead, durable
  <2>2. load_memory(manifest.current, kv) = memory
    BY <2>1, FlushedPages
  <2>3. durable' = memory
    BY <2>1, <2>2 DEF durable, load_memory, Pages
  <2>4. Promise!Publish
    BY <1>3, <1>15, <2>1, <2>3 DEF Promise!Publish, durable
  <2> QED
    BY <2>4 DEF Promise!Next
<1>16. CASE SetHead
  <2>1. Writer'
    BY <1>3, <1>16 DEF SetHead, EndFlush, Writer
  <2> QED
    BY <1>15, <1>16, <2>1, NextRoles DEF SetHead
<1>17. CASE SetHeadFails
  <2>1. Role' = "poisoned"
    BY <1>17, NextRoles DEF SetHeadFails, EndFlush
  <2>2. CASE ReplaceHead
    BY <1>15, <1>17, <2>1, <2>2 DEF SetHeadFails
  <2>3. CASE UNCHANGED store
    <3>1. mode = "flushing" /\ memory' = memory
      BY <1>17 DEF SetHeadFails, EndFlush
    <3>2. Promise!Poison
      BY <1>1, <1>3, <2>1, <2>3, <3>1 DEF Promise!Poison, durable
    <3> QED
      BY <3>2 DEF Promise!Next
  <2> QED
    BY <1>17, <2>2, <2>3 DEF SetHeadFails
<1>18. CASE UNCHANGED vars
  <2>1. UNCHANGED <<mode, fallback, poisoned, memory>> /\ UNCHANGED store
    BY <1>18 DEF vars, provider
  <2>2. Role' = Role
    BY <2>1 DEF Role
  <2> QED
    BY <1>1, <2>1, <2>2 DEF Promise!vars, durable
<1> QED
  BY <1>4, <1>5, <1>6, <1>8, <1>9, <1>10, <1>11, <1>13, <1>14, <1>16, <1>17, <1>18 DEF Next

\* The provider implements CheckpointedMemory: the durable memory changes only
\* when the head is replaced, then is the whole cache, every writer starts from
\* it, and a fallback reader sees exactly the memory published before.
THEOREM Refinement == Spec => ImplementsCheckpointedMemory
BY PromiseInit, PromiseNext, InvariantHolds, PTL
   DEF Spec, ImplementsCheckpointedMemory, Promise!Spec
=============================================================================
