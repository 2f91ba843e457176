SPECIFICATION Spec
CONSTANTS
    users = users
    posts = posts
    x1 = x1
    x2 = x2
    Table = {users, posts}
    Tx = {x1}
    Null = Null
    None = None
    Row <- AllRows
    Target <- PostsTarget
    Unique = {users}
    Sanitize <- NoSanitizer
    Inserts <- PostsInserts
    Updates <- PostsUpdates
    Deletes <- PostsDeletes
    MaxRows = 2
    MaxOps = 2
    MaxStack = 6
INVARIANTS
    IntegrityHolds
PROPERTIES
    CascadeRemovesNoMore
    ReferencesFollowRename
    EveryCallReturns
