CONSTANTS
    u1 = u1
    c1 = c1
    c2 = c2
    NoOtp = NoOtp
    Users = {u1}
    Codes = {c1, c2}
    LockTime = 1
    LockAttempt = 2
    MaxRequests = 4
    MaxActive = 3
SPECIFICATION FairSpec
INVARIANTS TypeOK LockIsFounded SessionAuthenticated OtpIsRedeemed
PROPERTIES LockEnds
