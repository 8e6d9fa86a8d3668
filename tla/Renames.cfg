SPECIFICATION Spec
CONSTANTS
    Device = {1, 2}
    MaxShortID = 2
    Name = {"p", "q"}
    Content = {1, 2}
    MTime = {1, 2}
    Second = 1
    MaxCopyDepth = 0
    Absent = Absent
    FetchQueueDepth = 1
    MaxInq = 3
    Budgets <- Reuse
INVARIANT TypeOK
INVARIANT RenameReusesBytes
PROPERTY NoSilentOverwrite
