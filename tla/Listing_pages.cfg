CONSTANTS
    i1 = i1  i2 = i2  i3 = i3  i4 = i4
    None = None
    Id <- Ids4
    MaxKey = 4
    Limit = 2
    MaxChanges = 3
SPECIFICATION Spec
SYMMETRY Symmetry
INVARIANTS TypeOK NothingMissed NothingTwice
CHECK_DEADLOCK FALSE
