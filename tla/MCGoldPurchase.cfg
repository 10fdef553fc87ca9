CONSTANTS
    Procs = {w1, w2, w3}
    Purchases = {x1, x2}
    Subscription = subscription
    Deals <- MCDeals
    Buyer = buyer
    Friend = friend
    Nil = nil
    StartCreds = {1}
    MaxRequests = 4
    MaxDeaths = 1
SPECIFICATION Spec
SYMMETRY Alike
CHECK_DEADLOCK FALSE
INVARIANTS
    TypeOK
    AtMostOnce
    RecordTells
    AccountsAddUp
