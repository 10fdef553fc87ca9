CONSTANTS
    vote = vote
    change = change
    web = web
    voter = voter
    uploader = uploader
    deduper = deduper
    votes = votes
    changes = changes
    Webs = {web}
    Consumers = {voter}
    Batchers = {uploader}
    Dedupers = {deduper}
    Bodies = {vote, change}
    Queues = {votes, changes}
    QueueOf <- TheQueue
    Serves <- TheReaders
    Out <- TheOutput
    OutOfBatch <- OfBatches
    Prefetch = 2
    Limit = 2
    MinSize = 2
    MaxAsks = 2
    MaxFaults = 2
SPECIFICATION FairSpec
INVARIANTS TypeOK NotForgotten
PROPERTY OwedIsPaid
CHECK_DEADLOCK FALSE
