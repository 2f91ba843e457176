SPECIFICATION Spec
CONSTANTS
    Keys = {1, 2, 3}
    Pointers = {1, 2, 3}
    KeySize <- UniformSize
    LeafCapacity = 2
    InternalCapacity = 2
    MaxPages = 7
INVARIANTS
    LookupsAreExact
    ReleaseIsComplete
