SPECIFICATION FairSpec
CONSTANTS
    Path = {"p", "d/q"}
    Dir = {"root", "d"}
    Root = "root"
    DirOf <- Directories
    ChanDepth = 1
    KernelBuffer = 1
    Window = 1
    Budget <- TwoChanges
    None = None
CHECK_DEADLOCK FALSE
INVARIANT TypeOK
INVARIANT NoLostHint
PROPERTY HintsSuffice
PROPERTY Stops
