CONSTANTS
    MaxRequests = 2
    MaxActive = 1
SPECIFICATION Spec
INVARIANTS VerifyEmailTokenUsable
CHECK_DEADLOCK FALSE
