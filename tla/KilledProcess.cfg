SPECIFICATION SpecFile
CONSTANTS
    MaxPages = 4
    PageCells = 4
    Records <- MCRecords
    Slots = {0}
    MaxLinked = 2
    MaxEntries = 4
    MaxDepth = 1
PROPERTIES
    RestartKeepsWholeBlocks
