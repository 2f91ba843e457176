SPECIFICATION Spec
CONSTANTS
    users = users
    posts = posts
    x1 = x1
    x2 = x2
    Table = {users}
    Tx = {x1, x2}
    Null = Null
    None = None
    Row <- AllRows
    Target <- UsersTarget
    Unique = {}
    Sanitize <- NoSanitizer
    Inserts <- UsersInserts
    Updates <- UsersUpdates
    Deletes <- UsersDeletes
    MaxRows = 2
    MaxOps = 2
    MaxStack = 3
SYMMETRY Symmetry
PROPERTIES
    CommitAppliesView
    ConflictMeansForeignWrite
