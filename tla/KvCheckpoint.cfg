SPECIFICATION Spec
CONSTANTS
    c0 = c0
    c1 = c1
    c2 = c2
    Content = {c0, c1, c2}
    Blank = c0
    Missing = Missing
    Hash <- MCHash
    MaxPages = 2
    MAX_BATCH_PAGES = 1
SYMMETRY Symmetry
INVARIANTS
    HeadsAreLoadable
    CleanPagesAreDurable
PROPERTIES
    ImplementsCheckpointedMemory
