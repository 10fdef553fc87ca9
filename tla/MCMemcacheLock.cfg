CONSTANTS
    Procs = {p1, p2}
    NoProc = NoProc
    Keys = {a, b}
    NoKey = NoKey
    LockTime = 2
    Timeouts = {0, 2}
    Patience = 2
    AllowNone = TRUE
    MaxDepth = 2
SPECIFICATION FairSpec
INVARIANTS MutualExclusion OutermostOwns NoLeak
PROPERTIES TimeoutOnlyAfterHandover WaiterResolves ImplementsAdvisory
