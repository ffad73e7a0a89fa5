\* Two customers that may each hold both circles, two months.
CONSTANTS
    Customers = {k1, k2}
    A = A
    B = B
    Circles = {A, B}
    Nobody = Nobody
    Duration <- MCDuration
    Contribution <- MCContribution
    Start <- MCStart
    Limit = 3
    Closable = {A}
    MaxSigned = 2
    MaxMonth = 2
SPECIFICATION Spec
SYMMETRY Symmetry
INVARIANTS TypeOK OffersHold NextDueAgrees RoundsMakeOverview ReportsAddUp
CHECK_DEADLOCK FALSE
