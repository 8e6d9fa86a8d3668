SPECIFICATION Spec
CONSTANTS
    Device = {1, 2}
    Name = {"a", "b", "x", "y"}
    Path <- Paths
    Content = {1, 2}
    Absent = Absent
INVARIANT SameTreeInAnyOrder
INVARIANT UpdateIsRebuild
INVARIANT DiffIsExact
INVARIANT RootIsOracle
INVARIANT InstallsKeepTree
