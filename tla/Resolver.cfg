SPECIFICATION WalkSpec
CONSTANTS
    Device = {1, 2, 3}
    MaxShortID = 3
    Name = {"p"}
    Content = {1, 2}
    MTime = {1, 2}
    Second = 2
    MaxCopyDepth = 1
    Absent = Absent
    Key <- ThePath
    MaxCounter = 2
CHECK_DEADLOCK FALSE
INVARIANT SameVerdict
INVARIANT NothingDropped
INVARIANT WalksArePointwise
INVARIANT CodecIsExact
