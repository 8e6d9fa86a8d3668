SPECIFICATION Spec
CONSTANTS
    Device = {1, 2}
    MaxShortID = 2
    Name = {"p"}
    Content = {1, 2}
    MTime = {1}
    Second = 1
    MaxCopyDepth = 1
    Absent = Absent
    FetchQueueDepth = 2
    MaxInq = 3
    Budgets <- JustEdits
PROPERTY OverwritesOnlyWhatWasSeen
