CONSTANTS
    BlockLen = 2
    ChunkLen = 8
    Threads = {"worker", "other"}
    Settings <- MCSettings
    BufferLen = 2
    MaxDepth = 4
SPECIFICATION Spec
INVARIANT DigestOfInput
INVARIANT WithinArrays
INVARIANT FileOutcome
