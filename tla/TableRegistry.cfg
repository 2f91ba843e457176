SPECIFICATION Spec
CONSTANTS
    PageSize = 9
    Alignment = 3
    SnapshotAlignment = 3
    PagePool <- ThreePages
    TableCapacity = 2
    Lengths = {1, 3, 6}
    Fills = {1}
    Growths <- ColumnChanges
INVARIANTS
    ScansAreExact
    CellsHaveOneUse
