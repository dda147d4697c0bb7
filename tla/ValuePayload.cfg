CONSTANTS
    Texts = {"a", "b"}
    Places = {"here", "there"}
    NoId = NoId
    Chunk = 3
    Batch = 2
    MaxValues = 4
SPECIFICATION Spec
INVARIANTS
    BufferHolds
    ArraysHold
    PublishedUnderItsId
CHECK_DEADLOCK FALSE
