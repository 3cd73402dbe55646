CONSTANTS
    c1 = c1
    c2 = c2
    c3 = c3
    c4 = c4
    u1 = u1
    u2 = u2
    Crons = {c1, c2, c3, c4}
    Owner <- CronOwner
    System = sys
    Times = {1, 2}
    PageSizes <- AskedSizes
    MaxLimit = 2
    MaxPages = 3
    None = None
SPECIFICATION Spec
INVARIANTS
    RepeatsNeedInsertions
    ListingInv
CHECK_DEADLOCK FALSE
