CONSTANTS
    p1 = p1
    p2 = p2
    c1 = c1
    m1 = m1
    m2 = m2
    w1 = w1
    w2 = w2
    NoPolicy = NoPolicy
    Policies = {p1, p2}
    Positions = {1, 2}
    Circles = {c1}
    Members = {m1, m2}
    Calls = {w1, w2}
    Percent <- MCPercent
    Amounts <- MCAmounts
    CircleOf <- MCCircleOf
    PositionOf <- MCPositionOf

SPECIFICATION Spec

INVARIANTS
    TypeOK
    PolicyRemains
    SnapshotWasActive
    MembersAfterDraft
    FeesAsCreated
    EntriesBalanceToACent

PROPERTIES PlanSpec
