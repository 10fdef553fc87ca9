CONSTANTS
    Callers = {p1, p2}
    Things = {a, b, c}
    Values = {1, 2}
    Limit = 2
    BatchSize = 1
    Replicas = {r1, r2, r3}
    Quorums <- Majorities
    Missing = Missing
    MaxMutations = 4
SPECIFICATION ListingSpec
SYMMETRY Alike
CONSTRAINT NoSlip
INVARIANTS ListingTypeOK ListingIsSound ListingIsComplete
CHECK_DEADLOCK FALSE
