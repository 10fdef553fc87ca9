CONSTANTS
    Voters = {author, other}
    Author = author
    Consumers = {c1, c2}
    Floor = 1
    SelfLink = FALSE
    MaxRels = 3
    MaxCasts = 2
    MaxMishaps = 2
SPECIFICATION Spec
SYMMETRY AlikeConsumers
CONSTRAINT Explored
INVARIANTS TypeOK OneRowEach ScoreIsVotes KarmaIsVotes LastVoteShows
CHECK_DEADLOCK FALSE
