SPECIFICATION FairSpec
CONSTANTS
    Device = {1, 2}
    MaxShortID = 2
    Name = {"p", "q"}
    Content = {1}
    MTime = {1}
    Second = 1
    MaxCopyDepth = 1
    Absent = Absent
    FetchQueueDepth = 1
    MaxInq = 3
    Budgets <- Outages
PROPERTY NoEcho
PROPERTY ForgetsOnlyAcked
PROPERTY Converges
 
