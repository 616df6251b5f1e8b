CONSTANTS
    u1 = u1
    u2 = u2
    Users = {u1, u2}
    MaxRequests = 4
    MaxActive = 3
SPECIFICATION Spec
SYMMETRY Symmetry
INVARIANTS TypeOK MembersBelong PendingHasMail OwnedUnlessCut
PROPERTIES DestroyedFromStash RowsAreStashed
CHECK_DEADLOCK FALSE
