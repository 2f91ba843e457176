SPECIFICATION Spec
CONSTANTS
    MaxPages = 4
    PageCells = 4
    Records <- MCRecords
    Slots = {0, 1}
    MaxLinked = 2
    MaxEntries = 4
    MaxDepth = 2
INVARIANTS
    UndoComplete
    PagesHaveOneOwner
PROPERTIES
    RollbackRestores
    ClaimedPagesAreBlank
    ImplementsAtomicMemory
