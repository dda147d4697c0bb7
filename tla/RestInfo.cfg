CONSTANTS
    Times = {5, 130}
    Lengths = {0, 2}
    IntMax = 127
    MaxReads = 3
    MaxFrees = 2
SPECIFICATION Spec
INVARIANTS
    TypeOK
    InfoIsOfThisAnswer
    FreedOnce
    NothingLeaks
CHECK_DEADLOCK FALSE
