SPECIFICATION Spec
CONSTANTS
    Byte = 16
    DEFAULT_ALIGNMENT = 32
    INITIAL_READ_SIZE = 4
    Schemas <- MCSchemas
    Neighbours <- MCNeighbours
    Tables <- MCTables
    PageTables <- MCPageTables
    SegmentPages <- MCSegmentPages
    SegmentLists <- MCSegmentLists
    IndexKeys <- MCIndexKeys
    RootPages <- MCRootPages
    CounterColumns <- MCCounterColumns
    Nodes <- MCNodes
    Declarations <- MCDeclarations
    Requests <- MCRequests
    IssuedNumbers <- MCIssuedNumbers
    Orders <- MCOrders
INVARIANTS
    SnapshotReadsBack
    DriftIsVisible
    LedgersReadBack
    ReadersAgree
    RowsAreAsAsked
    SchemasAreCoherent
