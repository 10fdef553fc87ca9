SPECIFICATION Spec
CONSTANTS
    N = 3
    Parent <- ReplyTo
    Consumers = {c1}
    Viewers = {v}
    Versions = {1}
    BatchSize = 2
    MaxPosts <- Posts
    MaxOpen = 1
    MaxDeletes = 0
    MaxMishaps = 0
INVARIANT ParentsAgree
CHECK_DEADLOCK FALSE
