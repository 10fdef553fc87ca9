CONSTANTS
    liked = liked
    disliked = disliked
    Procs = {p1, p2}
    NoProc = NoProc
    Items = {1, 2}
    MaxItems = 1
    PruneSize = 1
    Queries = {liked, disliked}
    Places <- Likes
    MaxDate = 1
    MaxBatches = 2
    MaxFaults = 1
SPECIFICATION Spec
SYMMETRY Alike
INVARIANTS TypeOK TopIsKept PlacedWhereMoved
CHECK_DEADLOCK FALSE
