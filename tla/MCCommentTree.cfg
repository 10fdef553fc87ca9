SPECIFICATION Spec
CONSTANTS
    N = 3
    Parent <- ReplyTo
    Consumers = {c1, c2}
    Viewers = {v}
    Versions = {1, 3}
    BatchSize = 2
    MaxPosts <- Posts
    MaxOpen = 1
    MaxDeletes = 1
    MaxMishaps = 1
INVARIANTS
    TypeOK
    TreeIsComplete
    TreeIsReadable
    CountIsRight
CONSTRAINT NoOverrun
SYMMETRY Alike
CHECK_DEADLOCK FALSE
