\* A cap of 12 bytes, bodies of up to four chunks around it, a disconnect at any point.
SPECIFICATION FairSpec
CONSTANTS
    Cap = 12
    Declared <- SomeFields
    ChunkSizes = {0, 4, 8, 9, 13}
    MaxEvents = 4
INVARIANTS
    ParserSeesWholeBody
    BufferBoundedAndReleased
    TooLargeHasCause
PROPERTIES
    EndsOnceClientIsDone
