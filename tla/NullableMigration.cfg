\* A column that may be null in one release and not in the next.
SPECIFICATION Spec
CONSTANTS
    Byte = 4
    MaxRows = 2
    TableOrder <- MCTableOrder
    RenamedFrom <- MCRenamedFrom
    DefaultHook <- MCDefaultHook
    TransformHook <- MCTransformHook
    Samples <- MCSamples
    Linked <- MCLinked
    Releases <- NullableReleases
PROPERTY TighteningRefusesNulls
