SPECIFICATION Spec
CONSTANTS
    Byte = 4
    MaxRows = 2
    TableOrder <- MCTableOrder
    RenamedFrom <- MCRenamedFrom
    DefaultHook <- MCDefaultHook
    TransformHook <- MCTransformHook
    Samples <- MCSamples
    Linked <- MCLinked
    Releases <- AllReleases
INVARIANTS
    RowsAreKept
    RegistryIsCurrent
    GateIsClosed
    IndexesFollowRows
    ConstraintsHold
    CountersCoverIssued
PROPERTIES
    MigrationClearsDrift
    NothingDroppedUnasked
