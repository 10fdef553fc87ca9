CONSTANTS
    Procs = {p1, p2}
    Lines = {l1, l2}
    Words = {blank, x, y}
    Blank = blank
    MaxRevs = 3
    MaxOps = 3
    MaxDeaths = 1
SPECIFICATION Spec
SYMMETRY Alike
CHECK_DEADLOCK FALSE
INVARIANTS
    TypeOK
    PageIsItsRevision
    SiteShowsPage
PROPERTY
    SeenIfReplaced
