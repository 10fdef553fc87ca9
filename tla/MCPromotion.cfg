CONSTANTS
    Workers = {p1, p2}
    Campaigns = {c1, c2}
    NoCampaign = nil
    MaxTrans = 3
    MaxOps = 2
    MaxFailures = 1
SPECIFICATION PromoSpec
SYMMETRY Alike
CHECK_DEADLOCK FALSE
INVARIANTS
    PromoTypeOK
    LiveIsApproved
    BooksMatch
