CONSTANTS
    u1 = u1
    u2 = u2
    w1 = w1
    w2 = w2
    Users = {u1, u2}
    Workspaces = {w1, w2}
    MaxRequests = 4
    MaxActive = 2
SPECIFICATION Spec
SYMMETRY Symmetry
INVARIANTS TypeOK ReferencesHold AuthorsWereMembers RootedUnlessLooped ObjectsAgree OneSessionInTurn CopiesGoWithOriginal
PROPERTIES PostDestroyedFromStash RowsAreStashed
CONSTRAINT OneTable
CHECK_DEADLOCK FALSE
