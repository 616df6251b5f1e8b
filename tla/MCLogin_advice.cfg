CONSTANTS
    u1 = u1
    c1 = c1
    NoOtp = NoOtp
    Users = {u1}
    Codes = {c1}
    LockTime = 3
    LockAttempt = 2
    MaxRequests = 2
    MaxActive = 1
SPECIFICATION Spec
INVARIANTS RetryAdviceHolds
