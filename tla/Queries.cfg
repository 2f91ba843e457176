SPECIFICATION Spec
CONSTANTS
    MAX_ALTERNATIVES = 2
    SCAN_BUDGET = 2
    TOTAL_BUDGET = 3
    SMALL_CANDIDATE_SET = 1
    Table = {"items", "owners"}
    Columns <- MCColumns
    Indexes <- MCIndexes
    Contents <- MCContents
    Inserts <- MCInserts
    Updates <- MCUpdates
    Deletes <- MCDeletes
    MaxOps = 2
    Queries <- MCQueriesSet
    JoinQueries <- MCJoinQueries
    AggregateQueries <- MCAggregateQueries
    Output <- MCOutput
    All = All
    NoLimit = NoLimit
    NoTransaction = NoTransaction
INVARIANTS
    SelectsAreExact
    MutationsFindTheirRecords
    RelationsLoad
    JoinIsExact
    AcceptedFiltersEvaluate
    AggregatesAreExact
