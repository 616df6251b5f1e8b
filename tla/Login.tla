-------------------------------- MODULE Login --------------------------------
(***************************************************************************)
(* The three handlers that open a session, and the account lock that the   *)
(* first two share:                                                        *)
(*   - LoginService.login        (src/src/auth/login/login.service.ts)     *)
(*   - OtpLoginService.verifyOtp (src/src/auth/otp/otp-login.service.ts)   *)
(*   - VerifyEmailService.verifyEmail                                      *)
(*                  (src/src/auth/verify-email/verify-email.service.ts)    *)
(*                                                                         *)
(* A handler is a sequence of awaited database calls with no transaction   *)
(* around them.  Between two awaits any other request may run, and the     *)
(* handler may die (an exception, a lost connection, a stopped process).   *)
(* A request in flight is a record of "active" that carries what it has    *)
(* read; each action below is the code from one await to the next.         *)
(*                                                                         *)
(* A request that is refused by an early return before its first write     *)
(* (unknown email or token, unverified account, locked account) changes    *)
(* nothing and is a stuttering step.                                       *)
(***************************************************************************)
EXTENDS Integers, FiniteSets

CONSTANTS
    Users,          \* rows of the User table
    Codes,          \* the values codeGenerator may return
    NoOtp,          \* twoFactorOtp = null
    LockTime,       \* ACCOUNT_LOCK_TIME, in minutes
    LockAttempt,    \* ACCOUNT_LOCK_ATTEMPT
    MaxRequests,    \* bound: requests that ever get past the lock check
    MaxActive       \* bound: requests in flight at the same time

\* loginAttemptTime = null.
NoAttempt == -1

\* Ages beyond this one are indistinguishable to the code: the lock is over.
MaxAge == 2 * LockTime + 1

\* A stored code, with the request that issued it (which the code does not keep).
Otp == [code: Codes, login: Nat]

ASSUME LockAssumption ==
    /\ LockTime \in Nat
    /\ LockAttempt \in Nat \ {0}
    /\ MaxRequests \in Nat
    /\ MaxActive \in Nat
    /\ NoOtp \notin Otp

VARIABLES
    otpFeature,         \* OTP_FEATURE: set when the program starts
    isVerified,         \* User.isVerified; while it is not, the row has the
                        \* verificationToken that signup stored
    failedLoginCount,   \* User.failedLoginCount
    attemptAge,         \* half minutes since User.loginAttemptTime
    twoFactorOtp,       \* User.twoFactorOtp
    sessions,           \* rows of the Session table
    active,             \* requests in flight
    \* Observed only by the properties:
    serial,             \* requests started so far
    failures,           \* wrong credentials counted so far, per user
    passed,             \* <<user, request>>: logins whose password was right
    linked,             \* <<user, request>>: verifications whose token was found
    spent               \* logins whose code was redeemed to the end, each with the
                        \* number of requests started by then

userVars == <<isVerified, failedLoginCount, attemptAge, twoFactorOtp>>
ghostVars == <<serial, failures, passed, linked, spent>>
vars == <<otpFeature, isVerified, failedLoginCount, attemptAge, twoFactorOtp,
          sessions, active, serial, failures, passed, linked, spent>>

Phases == {"compare", "countFailure", "storeOtp", "verify", "session", "cleanup", "reset"}

Handlers == {"login", "verifyOtp", "verifyEmail"}

\* What a handler holds in its local variables.  "count" is the
\* failedLoginCount it read, "right" whether the password it was given is the
\* stored one, "via" the request whose password or token check it relies on.
Request == [id: Nat, op: Handlers, user: Users, phase: Phases,
            right: BOOLEAN, count: Nat, via: Nat]

Session == [id: Nat, user: Users, via: Nat, factor: Handlers, expired: BOOLEAN]

TypeOK ==
    /\ otpFeature \in BOOLEAN
    /\ isVerified \in [Users -> BOOLEAN]
    /\ failedLoginCount \in [Users -> Nat]
    /\ attemptAge \in [Users -> NoAttempt..MaxAge]
    /\ twoFactorOtp \in [Users -> Otp \cup {NoOtp}]
    /\ sessions \subseteq Session
    /\ active \subseteq Request
    /\ serial \in Nat
    /\ failures \in [Users -> Nat]
    /\ passed \subseteq Users \X Nat
    /\ linked \subseteq Users \X Nat
    /\ spent \subseteq [login: Nat, at: Nat]

-----------------------------------------------------------------------------
(* The account lock                                                        *)

\* Math.round of an age given in half minutes.
TimeDifference(age) == (age + 1) \div 2

\* Mutant: the age of the last attempt is not looked at.
AccountLockForever(age) == age # NoAttempt

\* A null loginAttemptTime makes the difference NaN, and NaN <= n is false.
AccountLock(age) == age # NoAttempt /\ TimeDifference(age) <= LockTime

Locked(u) == failedLoginCount[u] >= LockAttempt /\ AccountLock(attemptAge[u])

\* The minutes the rejection asks the user to wait.
RetryAfter(age) ==
    IF LockTime - TimeDifference(age) # 0 THEN LockTime - TimeDifference(age) ELSE 1

-----------------------------------------------------------------------------
Init ==
    /\ otpFeature \in BOOLEAN
    /\ isVerified \in [Users -> BOOLEAN]
    /\ failedLoginCount = [u \in Users |-> 0]
    /\ attemptAge = [u \in Users |-> NoAttempt]
    /\ twoFactorOtp = [u \in Users |-> NoOtp]
    /\ sessions = {}
    /\ active = {}
    /\ serial = 0
    /\ failures = [u \in Users |-> 0]
    /\ passed = {}
    /\ linked = {}
    /\ spent = {}

\* A request gets its number, within the bounds.
Number ==
    /\ serial < MaxRequests
    /\ Cardinality(active) < MaxActive
    /\ serial' = serial + 1

\* A login or verifyOtp gets past the checks that follow user.findFirst.
Admit(u) == Number /\ isVerified[u] /\ ~Locked(u)

MoveTo(q, phase) == active' = (active \ {q}) \cup {[q EXCEPT !.phase = phase]}
Leave(q) == active' = active \ {q}

\* login, up to the await of bcrypt.compare.
BeginLogin(u, right) ==
    /\ Admit(u)
    /\ active' = active \cup
         {[id |-> serial + 1, op |-> "login", user |-> u, phase |-> "compare",
           right |-> right, count |-> failedLoginCount[u], via |-> serial + 1]}
    /\ UNCHANGED <<userVars, sessions, failures, passed, linked, spent>>

\* Mutant: the OTP_FEATURE branch is skipped.
AfterPasswordNoOtp(q) == "session"

\* Where a login goes once the password is right.
AfterPassword(q) == IF otpFeature THEN "storeOtp" ELSE "session"

\* bcrypt.compare returns; the branch taken is decided.
ComparePassword(q) ==
    /\ q.phase = "compare"
    /\ \/ /\ q.right
          /\ passed' = passed \cup {<<q.user, q.id>>}
          /\ MoveTo(q, AfterPassword(q))
       \/ /\ ~q.right
          /\ MoveTo(q, "countFailure")
          /\ UNCHANGED passed
    /\ UNCHANGED <<userVars, sessions, serial, failures, linked, spent>>

\* verifyOtp, up to its first write.  A null twoFactorOtp equals no input.
BeginVerifyOtp(u, code) ==
    LET stored == twoFactorOtp[u]
        matches == stored # NoOtp /\ stored.code = code
    IN
    /\ Admit(u)
    /\ active' = active \cup
         {[id |-> serial + 1, op |-> "verifyOtp", user |-> u,
           phase |-> IF matches THEN "session" ELSE "countFailure",
           right |-> matches, count |-> failedLoginCount[u],
           via |-> IF matches THEN stored.login ELSE 0]}
    /\ UNCHANGED <<userVars, sessions, failures, passed, linked, spent>>

\* Mutants: the failure is counted twice; the account counts down.
FailedCountTwice(q) == q.count + 2
FailedCountDown(q) == q.count - 1

\* The count written after a failure: the one READ plus one, whatever the row
\* holds by now.
FailedCount(q) == q.count + 1

\* loginAttemptTime: new Date() in the update of a failure.
StampFailure(q) == attemptAge' = [attemptAge EXCEPT ![q.user] = 0]

\* The update after a wrong password or code.
CountFailure(q) ==
    /\ q.phase = "countFailure"
    /\ failedLoginCount' = [failedLoginCount EXCEPT ![q.user] = FailedCount(q)]
    /\ StampFailure(q)
    /\ failures' = [failures EXCEPT ![q.user] = @ + 1]
    /\ Leave(q)
    /\ UNCHANGED <<isVerified, twoFactorOtp, sessions, serial, passed, linked, spent>>

\* updateOtp.  The mail that follows changes no row: whether it is sent or
\* fails, the code stays stored.
StoreOtp(q, code) ==
    /\ q.phase = "storeOtp"
    /\ twoFactorOtp' =
         [twoFactorOtp EXCEPT ![q.user] = [code |-> code, login |-> q.id]]
    /\ Leave(q)
    /\ UNCHANGED <<isVerified, failedLoginCount, attemptAge, sessions, ghostVars>>

\* verifyEmail, up to its first write: the token it is given is in the row.
BeginVerifyEmail(u) ==
    /\ Number
    /\ ~isVerified[u]
    /\ active' = active \cup
         {[id |-> serial + 1, op |-> "verifyEmail", user |-> u, phase |-> "verify",
           right |-> TRUE, count |-> failedLoginCount[u], via |-> serial + 1]}
    /\ linked' = linked \cup {<<u, serial + 1>>}
    /\ UNCHANGED <<userVars, sessions, failures, passed, spent>>

\* The update of verifyEmail, by id: the account is usable, its token gone.
VerifyAccount(q) ==
    /\ q.phase = "verify"
    /\ isVerified' = [isVerified EXCEPT ![q.user] = TRUE]
    /\ MoveTo(q, "session")
    /\ UNCHANGED <<failedLoginCount, attemptAge, twoFactorOtp, sessions, ghostVars>>

\* session.create, after which verifyEmail answers and the others clean up.
CreateSession(q) ==
    /\ q.phase = "session"
    /\ sessions' = sessions \cup
         {[id |-> q.id, user |-> q.user, via |-> q.via, factor |-> q.op,
           expired |-> FALSE]}
    /\ IF q.op = "verifyEmail" THEN Leave(q) ELSE MoveTo(q, "cleanup")
    /\ UNCHANGED <<userVars, ghostVars>>

\* session.deleteMany of the expired sessions of every user.
DeleteExpired(q) ==
    /\ q.phase = "cleanup"
    /\ sessions' = {s \in sessions : ~s.expired}
    /\ MoveTo(q, "reset")
    /\ UNCHANGED <<userVars, ghostVars>>

\* Mutant: the code stays in the row.
ClearOtpNever(q) == UNCHANGED twoFactorOtp

\* twoFactorOtp: null in the closing update.
ClearOtp(q) == twoFactorOtp' = [twoFactorOtp EXCEPT ![q.user] = NoOtp]

\* The closing update of both handlers.
ResetUser(q) ==
    /\ q.phase = "reset"
    /\ failedLoginCount' = [failedLoginCount EXCEPT ![q.user] = 0]
    /\ attemptAge' = [attemptAge EXCEPT ![q.user] = 0]
    /\ ClearOtp(q)
    /\ spent' = IF q.op = "verifyOtp" THEN spent \cup {[login |-> q.via, at |-> serial]}
                                      ELSE spent
    /\ Leave(q)
    /\ UNCHANGED <<isVerified, sessions, serial, failures, passed, linked>>

\* The handler dies between two awaits.
Abort(q) ==
    /\ Leave(q)
    /\ UNCHANGED <<userVars, sessions, ghostVars>>

\* Half a minute passes.
Older(age) == IF age = NoAttempt \/ age = MaxAge THEN age ELSE age + 1

Tick ==
    /\ attemptAge' = [u \in Users |-> Older(attemptAge[u])]
    /\ UNCHANGED <<isVerified, failedLoginCount, twoFactorOtp, sessions, active,
                   ghostVars>>

\* The refreshTokenExpiry of a session goes by.
Expire(s) ==
    /\ ~s.expired
    /\ sessions' = (sessions \ {s}) \cup {[s EXCEPT !.expired = TRUE]}
    /\ UNCHANGED <<userVars, active, ghostVars>>

\* One await of one request is answered.
Advance(q) ==
    \/ ComparePassword(q)
    \/ CountFailure(q)
    \/ \E code \in Codes : StoreOtp(q, code)
    \/ VerifyAccount(q)
    \/ CreateSession(q)
    \/ DeleteExpired(q)
    \/ ResetUser(q)

Next ==
    /\ UNCHANGED otpFeature
    /\ \/ \E u \in Users, right \in BOOLEAN : BeginLogin(u, right)
       \/ \E u \in Users, code \in Codes : BeginVerifyOtp(u, code)
       \/ \E u \in Users : BeginVerifyEmail(u)
       \/ \E q \in active : Advance(q)
       \/ \E q \in active : Abort(q)
       \/ Tick
       \/ \E s \in sessions : Expire(s)

Spec == Init /\ [][Next]_vars

\* Time passes; clients owe the server nothing.
FairSpec == Spec /\ WF_vars(Tick /\ UNCHANGED otpFeature)

-----------------------------------------------------------------------------
(* Properties                                                              *)

\* An account is not locked by anything but wrong credentials: the stored
\* count never exceeds the number of wrong passwords and codes really
\* presented, however the read-then-write updates of failedLoginCount
\* interleave with one another and with the resets of successful logins.
CountBacked == \A u \in Users : failedLoginCount[u] <= failures[u]

\* The NaN comparison never opens a lock: an account whose count has reached
\* the limit has a loginAttemptTime, so "timeDifference <= ACCOUNT_LOCK_TIME"
\* compares numbers.
LockIsTimed ==
    \A u \in Users : failedLoginCount[u] > 0 => attemptAge[u] # NoAttempt

\* What the lock is computed from is sound: the count is backed by failures and
\* never apart from the time of the last one.
LockIsFounded == CountBacked /\ LockIsTimed

\* Every session in the table is one of a verified account, and was opened for
\* the user whose password an earlier login of that same user was checked for,
\* with OTP_FEATURE on by verifyOtp and not by login itself; or by verifyEmail,
\* which asks for neither, for the user whose own token it was given.
SessionAuthenticated ==
    \A s \in sessions :
        /\ isVerified[s.user]
        /\ IF s.factor = "verifyEmail"
           THEN <<s.user, s.via>> \in linked
           ELSE /\ <<s.user, s.via>> \in passed
                /\ otpFeature => s.factor = "verifyOtp"

\* A code redeemed by a verifyOtp that has returned is never again the stored
\* code of any account, even when other logins and verifications of the same
\* user were under way.
SpentOtpGone ==
    \A u \in Users :
        twoFactorOtp[u] # NoOtp =>
            \A x \in spent : x.login # twoFactorOtp[u].login

\* The check of a code and its removal are apart, so that verifications under
\* way together may all redeem it; but whoever comes after one of them has
\* returned opens no session with it, whatever those still under way do.
RedeemedBefore ==
    \A s \in sessions, x \in spent :
        s.factor = "verifyOtp" /\ s.via = x.login => s.id <= x.at

\* Both: a code is good for the verifications it was presented to in time.
OtpIsRedeemed == SpentOtpGone /\ RedeemedBefore

\* A lock ends by the passing of time alone: refused requests do not renew it,
\* and those admitted before the lock renew it a bounded number of times.
LockEnds == \A u \in Users : Locked(u) ~> ~Locked(u)

\* What the rejection tells the user: "Maximum retry count reached. Please
\* try after N minutes!".  Once N minutes have gone by the account is open.
RetryAdviceHolds ==
    \A u \in Users :
        Locked(u) => ~AccountLock(attemptAge[u] + 2 * RetryAfter(attemptAge[u]))

\* What the changelog says of the lock: wrong passwords and codes count
\* towards it, so one more wrong credential never lowers the count.
FailuresAccumulate ==
    [][\A u \in Users :
         failures'[u] > failures[u] => failedLoginCount'[u] > failedLoginCount[u]]_vars
=============================================================================
