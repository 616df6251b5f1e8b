CONSTANTS
    u1 = u1
    c1 = c1
    NoOtp = NoOtp
    Users = {u1}
    Codes = {c1}
    LockTime = 1
    LockAttempt = 2
    MaxRequests = 3
    MaxActive = 2
SPECIFICATION FairSpec
PROPERTIES FailuresAccumulate
