CONSTANTS
    MaxRequests = 4
    MaxActive = 3
SPECIFICATION Spec
INVARIANTS TypeOK TokensOpenOne HeldAccounted SequentialAccess
CHECK_DEADLOCK FALSE
