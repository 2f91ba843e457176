SPECIFICATION Spec
CONSTANTS
    MAX_CONDITION_TERMS = 7
    MAX_ALTERNATIVES = 2
    SCAN_BUDGET = 2
    TOTAL_BUDGET = 3
    SMALL_CANDIDATE_SET = 1
    Table = {"items", "owners"}
    Columns <- MCColumns
    Indexes <- MCIndexes
    Output <- MCOutput
    Fits <- MCFits
    Reads <- MCReads
    Patterns <- MCPatterns
    MaxRowCount = 4
    Contents <- MCContents
    Statements <- MCStatements
    MaxOps = 2
    MaxRows = 4
    All = All
    NoLimit = NoLimit
    NoTransaction = NoTransaction
    Idle = Idle
INVARIANTS
    SelectsMeanWhatTheySay
    
