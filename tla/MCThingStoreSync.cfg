CONSTANTS
    Procs = {p1, p2}
    BaseProps = {ups}
    DataProps = {title, num_comments}
    Settable = {title}
    Counters = {ups, num_comments}
    Defaulted = {num_comments}
    Values = {0, 1}
    Amounts <- UpDown
    Nil = Nil
    NoThing = NoThing
    MaxIncrs = 2
    Faults = {}
SPECIFICATION Spec
PROPERTY DirtiesReapplied
