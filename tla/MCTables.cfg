SPECIFICATION Spec
CONSTANTS
    Word = 8
    MaxSize = 5
    Key = {0, 1, 2, 3, 4, 5, 6}
INVARIANTS AcceptedIsUsable ReadsInside SearchIsExact
PROPERTIES SearchEnds
CHECK_DEADLOCK FALSE
