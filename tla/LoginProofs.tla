----------------------------- MODULE LoginProofs -----------------------------
(***************************************************************************)
(* Proofs about Login, for every set of users and codes, every lock        *)
(* setting and any number of concurrent requests.                          *)
(***************************************************************************)
EXTENDS Login, TLAPS

\* The ages of an attempt include that of one made just now, and not that of none.
LEMMA AgeRange ==
    /\ MaxAge \in Nat
    /\ 0 \in NoAttempt..MaxAge
    /\ 0 # NoAttempt
BY LockAssumption DEF MaxAge, NoAttempt

\* TypeOK: every table and every request in flight keeps its shape.
LEMMA TypeInit == Init => TypeOK
BY AgeRange DEF Init, TypeOK, NoAttempt

\* A login that is admitted is a well-typed request.
LEMMA TypeBeginLogin ==
    ASSUME TypeOK, NEW u \in Users, NEW right \in BOOLEAN, BeginLogin(u, right),
           UNCHANGED otpFeature
    PROVE  TypeOK'
BY DEF TypeOK, BeginLogin, Admit, Number, userVars, Request, Phases, Handlers

\* So is a verification, with the login of the code it presents, if it matches.
LEMMA TypeBeginVerifyOtp ==
    ASSUME TypeOK, NEW u \in Users, NEW code \in Codes, BeginVerifyOtp(u, code),
           UNCHANGED otpFeature
    PROVE  TypeOK'
<1> DEFINE matches == twoFactorOtp[u] # NoOtp /\ twoFactorOtp[u].code = code
           new == [id |-> serial + 1, op |-> "verifyOtp", user |-> u,
                   phase |-> IF matches THEN "session" ELSE "countFailure",
                   right |-> matches, count |-> failedLoginCount[u],
                   via |-> IF matches THEN twoFactorOtp[u].login ELSE 0]
<1>1. matches \in BOOLEAN
  OBVIOUS
<1>2. (IF matches THEN twoFactorOtp[u].login ELSE 0) \in Nat
  BY DEF TypeOK, Otp
<1>3. (IF matches THEN "session" ELSE "countFailure") \in Phases
  BY DEF Phases
<1>4. failedLoginCount[u] \in Nat /\ serial + 1 \in Nat
  BY DEF TypeOK
<1>5. new \in Request
  <2> HIDE DEF matches
  <2> QED BY <1>1, <1>2, <1>3, <1>4 DEF Request, Handlers
<1>6. active' = active \cup {new}
  BY DEF BeginVerifyOtp
<1>7. /\ serial' \in Nat
      /\ UNCHANGED <<isVerified, failedLoginCount, attemptAge, twoFactorOtp,
                     sessions, failures, passed, linked, spent>>
  BY <1>4 DEF BeginVerifyOtp, Admit, Number, userVars
<1>8. QED
  <2> HIDE DEF new
  <2> QED BY <1>5, <1>6, <1>7 DEF TypeOK

\* And so is a verification of an account.
LEMMA TypeBeginVerifyEmail ==
    ASSUME TypeOK, NEW u \in Users, BeginVerifyEmail(u), UNCHANGED otpFeature
    PROVE  TypeOK'
<1> DEFINE new == [id |-> serial + 1, op |-> "verifyEmail", user |-> u,
                   phase |-> "verify", right |-> TRUE,
                   count |-> failedLoginCount[u], via |-> serial + 1]
<1>1. new \in Request /\ serial + 1 \in Nat
  BY DEF TypeOK, Request, Phases, Handlers
<1>2. /\ active' = active \cup {new} /\ serial' = serial + 1
      /\ linked' = linked \cup {<<u, serial + 1>>}
      /\ UNCHANGED <<userVars, sessions, failures, passed, spent>>
  BY DEF BeginVerifyEmail, Number
<1> HIDE DEF new
<1>3. QED
  BY <1>1, <1>2 DEF TypeOK, userVars

\* A request that goes on to another phase stays a request.
LEMMA TypeMoveTo ==
    ASSUME active \subseteq Request, NEW q \in active, NEW phase \in Phases,
           MoveTo(q, phase)
    PROVE  active' \subseteq Request
BY DEF MoveTo, Request

\* The steps of a request keep the types.
LEMMA TypeAdvance ==
    ASSUME TypeOK, NEW q \in active, Advance(q),
           UNCHANGED otpFeature
    PROVE  TypeOK'
<1>1. CASE ComparePassword(q)
  <2>1. q \in Request BY DEF TypeOK
  <2>2. AfterPassword(q) \in Phases /\ "countFailure" \in Phases
    BY DEF AfterPassword, Phases
  <2>3. active' \subseteq Request
    BY <1>1, <2>2, TypeMoveTo DEF ComparePassword, TypeOK
  <2>4. passed' \subseteq Users \X Nat
    BY <1>1, <2>1 DEF ComparePassword, TypeOK, Request
  <2>5. QED
    BY <1>1, <2>3, <2>4 DEF ComparePassword, TypeOK, userVars
<1>2. CASE CountFailure(q)
  <2>1. q \in Request BY DEF TypeOK
  <2>2. failedLoginCount' \in [Users -> Nat] /\ failures' \in [Users -> Nat]
    BY <1>2, <2>1 DEF CountFailure, FailedCount, TypeOK, Request
  <2>3. attemptAge' \in [Users -> NoAttempt..MaxAge]
    BY <1>2, AgeRange DEF CountFailure, StampFailure, TypeOK
  <2>4. QED
    BY <1>2, <2>2, <2>3 DEF CountFailure, Leave, TypeOK
<1>3. CASE \E code \in Codes : StoreOtp(q, code)
  <2>1. q \in Request BY DEF TypeOK
  <2>2. twoFactorOtp' \in [Users -> Otp \cup {NoOtp}]
    BY <1>3, <2>1 DEF StoreOtp, TypeOK, Otp, Request
  <2>3. QED
    BY <1>3, <2>2 DEF StoreOtp, Leave, TypeOK, ghostVars
<1>4. CASE CreateSession(q)
  <2>1. q \in Request BY DEF TypeOK
  <2>2. [id |-> q.id, user |-> q.user, via |-> q.via, factor |-> q.op,
         expired |-> FALSE] \in Session
    BY <2>1 DEF Session, Request
  <2>3. active' \subseteq Request
    BY <1>4, TypeMoveTo DEF CreateSession, Leave, TypeOK, Phases
  <2>4. QED
    BY <1>4, <2>2, <2>3 DEF CreateSession, TypeOK, ghostVars, userVars
<1>5. CASE DeleteExpired(q)
  <2>1. active' \subseteq Request
    BY <1>5, TypeMoveTo DEF DeleteExpired, TypeOK, Phases
  <2>2. QED
    BY <1>5, <2>1 DEF DeleteExpired, TypeOK, ghostVars, userVars
<1>6. CASE ResetUser(q)
  <2>1. q \in Request BY DEF TypeOK
  <2>2. attemptAge' \in [Users -> NoAttempt..MaxAge]
    BY <1>6, AgeRange DEF ResetUser, TypeOK
  <2>3. spent' \subseteq [login: Nat, at: Nat]
    BY <1>6, <2>1 DEF ResetUser, TypeOK, Request
  <2>4. QED
    BY <1>6, <2>2, <2>3 DEF ResetUser, ClearOtp, Leave, TypeOK
<1>7. CASE VerifyAccount(q)
  <2>1. q \in Request BY DEF TypeOK
  <2>2. active' \subseteq Request
    BY <1>7, TypeMoveTo DEF VerifyAccount, TypeOK, Phases
  <2>3. QED
    BY <1>7, <2>1, <2>2 DEF VerifyAccount, TypeOK, Request, ghostVars
<1>8. QED
  BY <1>1, <1>2, <1>3, <1>4, <1>5, <1>6, <1>7 DEF Advance

\* So do lost requests and the clock.
LEMMA TypeEnvironment ==
    ASSUME TypeOK, UNCHANGED otpFeature,
           \/ \E q \in active : Abort(q)
           \/ Tick
           \/ \E s \in sessions : Expire(s)
    PROVE  TypeOK'
<1>1. CASE \E q \in active : Abort(q)
  BY <1>1 DEF Abort, Leave, TypeOK, userVars, ghostVars
<1>2. CASE Tick
  <2>1. \A u \in Users : Older(attemptAge[u]) \in NoAttempt..MaxAge
    BY AgeRange DEF Older, TypeOK, NoAttempt
  <2>2. QED
    BY <1>2, <2>1 DEF Tick, TypeOK, ghostVars
<1>3. CASE \E s \in sessions : Expire(s)
  BY <1>3 DEF Expire, TypeOK, Session, userVars, ghostVars
<1>4. QED
  BY <1>1, <1>2, <1>3

\* Every step keeps the types.
LEMMA TypeStep == TypeOK /\ [Next]_vars => TypeOK'
<1>1. ASSUME TypeOK, Next PROVE TypeOK'
  BY <1>1, TypeBeginLogin, TypeBeginVerifyOtp, TypeBeginVerifyEmail, TypeAdvance,
     TypeEnvironment
     DEF Next
<1>2. TypeOK /\ UNCHANGED vars => TypeOK'
  BY DEF TypeOK, vars
<1>3. QED
  BY <1>1, <1>2

\* The tables and the requests in flight keep their types in every reachable
\* state of login, verifyOtp and verifyEmail.
THEOREM TypeCorrect == Spec => []TypeOK
BY TypeInit, TypeStep, PTL DEF Spec

-----------------------------------------------------------------------------
(* CountBacked and LockIsTimed                                             *)

\* CountBacked is not inductive alone: CountFailure writes the count a request
\* read, so that count must be backed by failures too.
CountInv ==
    /\ \A u \in Users : failedLoginCount[u] <= failures[u]
    /\ \A q \in active : q.count <= failures[q.user]
    /\ LockIsTimed

\* Moving a request to its next phase changes nothing else of it.
LEMMA MovedRequest ==
    ASSUME active \subseteq Request, NEW q \in active, NEW phase,
           MoveTo(q, phase), NEW p \in active'
    PROVE  \/ p \in active
           \/ /\ p = [q EXCEPT !.phase = phase]
              /\ p.id = q.id /\ p.op = q.op /\ p.user = q.user
              /\ p.phase = phase /\ p.right = q.right /\ p.count = q.count
              /\ p.via = q.via
BY DEF MoveTo, Request

\* No failure has been counted at the start.
LEMMA CountInit == Init => CountInv
BY DEF Init, CountInv, LockIsTimed

\* Every step keeps the counts backed and timed.
LEMMA CountStep == TypeOK /\ CountInv /\ [Next]_vars => CountInv'
<1> SUFFICES ASSUME TypeOK, CountInv, [Next]_vars
             PROVE  CountInv'
  OBVIOUS
<1> USE DEF CountInv, LockIsTimed
<1>0. active \subseteq Request
  BY DEF TypeOK
<1>1. ASSUME NEW u \in Users, NEW right \in BOOLEAN, BeginLogin(u, right)
      PROVE  CountInv'
  BY <1>1 DEF BeginLogin, userVars
<1>2. ASSUME NEW u \in Users, NEW code \in Codes, BeginVerifyOtp(u, code)
      PROVE  CountInv'
  <2> DEFINE matches == twoFactorOtp[u] # NoOtp /\ twoFactorOtp[u].code = code
  <2>1. \A q \in active' : q \in active \/ (q.count = failedLoginCount[u] /\ q.user = u)
    BY <1>2 DEF BeginVerifyOtp
  <2>2. UNCHANGED <<failures, failedLoginCount, attemptAge>>
    BY <1>2 DEF BeginVerifyOtp, userVars
  <2>3. QED
    BY <2>1, <2>2
<1>3. ASSUME NEW q \in active, ComparePassword(q)
      PROVE  CountInv'
  <2>1. PICK phase : MoveTo(q, phase)
    BY <1>3 DEF ComparePassword
  <2>2. UNCHANGED <<failures, failedLoginCount, attemptAge>>
    BY <1>3 DEF ComparePassword, userVars
  <2>3. QED
    BY <1>0, <2>1, <2>2, MovedRequest
<1>4. ASSUME NEW q \in active, CountFailure(q)
      PROVE  CountInv'
  <2>1. q.user \in Users /\ q.count \in Nat
    BY <1>0 DEF Request
  <2>2. \A u \in Users : failures[u] \in Nat /\ failedLoginCount[u] \in Nat
    BY DEF TypeOK
  <2>3. \A u \in Users :
          /\ failedLoginCount'[u] = IF u = q.user THEN q.count + 1
                                                  ELSE failedLoginCount[u]
          /\ failures'[u] = IF u = q.user THEN failures[u] + 1 ELSE failures[u]
          /\ attemptAge'[u] = IF u = q.user THEN 0 ELSE attemptAge[u]
    BY <1>4, <2>1 DEF CountFailure, FailedCount, StampFailure, TypeOK
  <2>4. active' \subseteq active
    BY <1>4 DEF CountFailure, Leave
  <2>5. \A p \in active' : p.count \in Nat /\ p.user \in Users
    BY <1>0, <2>4 DEF Request
  <2>6. QED
    BY <2>1, <2>2, <2>3, <2>4, <2>5, AgeRange
<1>5. ASSUME NEW q \in active, NEW code \in Codes, StoreOtp(q, code)
      PROVE  CountInv'
  BY <1>5 DEF StoreOtp, Leave, ghostVars
<1>6. ASSUME NEW q \in active, CreateSession(q)
      PROVE  CountInv'
  <2>1. active' \subseteq active \/ MoveTo(q, "cleanup")
    BY <1>6 DEF CreateSession, Leave
  <2>2. QED
    BY <1>0, <1>6, <2>1, MovedRequest DEF CreateSession, ghostVars, userVars
<1>7. ASSUME NEW q \in active, DeleteExpired(q)
      PROVE  CountInv'
  BY <1>0, <1>7, MovedRequest DEF DeleteExpired, ghostVars, userVars
<1>8. ASSUME NEW q \in active, ResetUser(q)
      PROVE  CountInv'
  <2>1. \A u \in Users :
          /\ failedLoginCount'[u] = IF u = q.user THEN 0 ELSE failedLoginCount[u]
          /\ attemptAge'[u] = IF u = q.user THEN 0 ELSE attemptAge[u]
          /\ failures[u] \in Nat
    BY <1>8 DEF ResetUser, TypeOK
  <2>2. active' \subseteq active /\ failures' = failures
    BY <1>8 DEF ResetUser, Leave
  <2>3. QED
    BY <2>1, <2>2, AgeRange
<1>9. ASSUME NEW q \in active, Abort(q)
      PROVE  CountInv'
  BY <1>9 DEF Abort, Leave, ghostVars, userVars
<1>10. ASSUME NEW q \in active, VerifyAccount(q)
       PROVE  CountInv'
  BY <1>0, <1>10, MovedRequest DEF VerifyAccount, ghostVars
<1>11. CASE Tick
  <2>1. \A u \in Users : attemptAge[u] # NoAttempt => attemptAge'[u] # NoAttempt
    BY <1>11, AgeRange DEF Tick, Older, TypeOK, NoAttempt
  <2>2. QED
    BY <1>11, <2>1 DEF Tick, ghostVars
<1>12. ASSUME NEW s \in sessions, Expire(s)
       PROVE  CountInv'
  BY <1>12 DEF Expire, ghostVars, userVars
<1>13. ASSUME NEW u \in Users, BeginVerifyEmail(u)
       PROVE  CountInv'
  BY <1>13 DEF BeginVerifyEmail, userVars
<1>14. CASE UNCHANGED vars
  BY <1>14 DEF vars
<1>15. QED
  BY <1>1, <1>2, <1>3, <1>4, <1>5, <1>6, <1>7, <1>8, <1>9, <1>10, <1>11,
     <1>12, <1>13, <1>14 DEF Next, Advance

\* No interleaving of stale increments and resets makes failedLoginCount exceed
\* the wrong credentials presented for the account.
THEOREM CountsAreBacked == Spec => []CountBacked
<1>1. CountInv => CountBacked
  BY DEF CountInv, CountBacked
<1>2. QED
  BY <1>1, TypeInit, TypeStep, CountInit, CountStep, PTL DEF Spec

\* What the lock is computed from is sound: besides, an account with failures
\* counted has an attempt time to compare with.
THEOREM LocksAreFounded == Spec => []LockIsFounded
<1>1. CountInv => LockIsFounded
  BY DEF CountInv, LockIsFounded, CountBacked
<1>2. QED
  BY <1>1, TypeInit, TypeStep, CountInit, CountStep, PTL DEF Spec

-----------------------------------------------------------------------------
(* SessionAuthenticated                                                    *)

\* Phases a request reaches only after a right password or code.
Trusted == {"storeOtp", "session", "cleanup", "reset"}

\* SessionAuthenticated speaks of rows; what makes it inductive is what the
\* requests on their way to create a row, and the stored codes, rest on.
AuthInv ==
    /\ SessionAuthenticated
    /\ \A q \in active :
         /\ q.phase = "verify" => q.op = "verifyEmail"
         /\ q.phase # "verify" => isVerified[q.user]
         /\ q.op = "verifyEmail" =>
              <<q.user, q.via>> \in linked /\ q.phase \in {"verify", "session"}
         /\ q.op # "verifyEmail" /\ q.phase \in Trusted =>
              <<q.user, q.via>> \in passed
         /\ q.op = "login" => q.via = q.id
         /\ q.phase \in {"compare", "storeOtp"} => q.op = "login"
         /\ otpFeature /\ q.op = "login" =>
              q.phase \notin {"session", "cleanup", "reset"}
    /\ \A u \in Users :
         twoFactorOtp[u] # NoOtp => <<u, twoFactorOtp[u].login>> \in passed

\* Nothing relies on a password check at the start.
LEMMA AuthInit == Init => AuthInv
BY DEF Init, AuthInv, SessionAuthenticated

\* A verification relies on the login of the code it has found.
LEMMA AuthBeginVerifyOtp ==
    ASSUME TypeOK, AuthInv, NEW u \in Users, NEW code \in Codes,
           BeginVerifyOtp(u, code), UNCHANGED otpFeature
    PROVE  AuthInv'
<1> USE DEF AuthInv, SessionAuthenticated
<1>1. UNCHANGED <<isVerified, twoFactorOtp, sessions, passed, linked>> /\ isVerified[u]
  BY DEF BeginVerifyOtp, Admit, userVars
<1>2. \A q \in active' \ active :
        /\ q.user = u /\ q.op = "verifyOtp"
        /\ \/ q.phase = "countFailure"
           \/ /\ q.phase = "session"
              /\ twoFactorOtp[u] # NoOtp /\ q.via = twoFactorOtp[u].login
  BY DEF BeginVerifyOtp
<1>3. QED
  BY <1>1, <1>2 DEF Trusted

\* A login relies on its own check once that has passed.
LEMMA AuthComparePassword ==
    ASSUME TypeOK, AuthInv, NEW q \in active, ComparePassword(q),
           UNCHANGED otpFeature
    PROVE  AuthInv'
<1> USE DEF AuthInv, SessionAuthenticated
<1>1. q \in Request /\ active \subseteq Request
  BY DEF TypeOK
<1>2. UNCHANGED <<isVerified, twoFactorOtp, sessions, linked>> /\ passed \subseteq passed'
  BY DEF ComparePassword, userVars
<1>3. q.op = "login" /\ q.via = q.id
  BY DEF ComparePassword
<1>4. CASE q.right
  <2>1. MoveTo(q, AfterPassword(q)) /\ <<q.user, q.via>> \in passed'
    BY <1>3, <1>4 DEF ComparePassword
  <2>2. AfterPassword(q) = IF otpFeature THEN "storeOtp" ELSE "session"
    BY DEF AfterPassword
  <2>3. QED
    BY <1>1, <1>2, <1>3, <2>1, <2>2, MovedRequest DEF Trusted
<1>5. CASE ~q.right
  <2>1. MoveTo(q, "countFailure")
    BY <1>5 DEF ComparePassword
  <2>2. QED
    BY <1>1, <1>2, <1>3, <2>1, MovedRequest DEF Trusted
<1>6. QED
  BY <1>4, <1>5

\* Every step keeps what requests, codes and sessions rely on.
LEMMA AuthStep == TypeOK /\ AuthInv /\ [Next]_vars => AuthInv'
<1> SUFFICES ASSUME TypeOK, AuthInv, [Next]_vars
             PROVE  AuthInv'
  OBVIOUS
<1>u. UNCHANGED otpFeature
  BY DEF Next, vars
<1> USE <1>u DEF AuthInv, SessionAuthenticated
<1>0. active \subseteq Request
  BY DEF TypeOK
<1>1. ASSUME NEW u \in Users, NEW right \in BOOLEAN, BeginLogin(u, right)
      PROVE  AuthInv'
  <2>1. UNCHANGED <<isVerified, twoFactorOtp, sessions, passed, linked>> /\ isVerified[u]
    BY <1>1 DEF BeginLogin, Admit, userVars
  <2>2. \A q \in active' \ active :
          q.user = u /\ q.op = "login" /\ q.phase = "compare" /\ q.via = q.id
    BY <1>1 DEF BeginLogin
  <2>3. QED
    BY <2>1, <2>2 DEF Trusted
<1>2. ASSUME NEW q \in active, CountFailure(q)
      PROVE  AuthInv'
  BY <1>2 DEF CountFailure, Leave
<1>3. ASSUME NEW q \in active, NEW code \in Codes, StoreOtp(q, code)
      PROVE  AuthInv'
  <2>1. q.user \in Users /\ q.via = q.id /\ <<q.user, q.id>> \in passed
    BY <1>0, <1>3 DEF StoreOtp, Request, Trusted
  <2>2. \A u \in Users :
          twoFactorOtp'[u] = IF u = q.user THEN [code |-> code, login |-> q.id]
                                          ELSE twoFactorOtp[u]
    BY <1>3 DEF StoreOtp, TypeOK
  <2>3. UNCHANGED <<isVerified, sessions, passed, linked>> /\ active' \subseteq active
    BY <1>3 DEF StoreOtp, Leave, ghostVars
  <2>4. QED
    BY <2>1, <2>2, <2>3
<1>4. ASSUME NEW q \in active, CreateSession(q)
      PROVE  AuthInv'
  <2>1. /\ q \in Request /\ q.op \in Handlers /\ isVerified[q.user]
        /\ IF q.op = "verifyEmail"
           THEN <<q.user, q.via>> \in linked
           ELSE /\ <<q.user, q.via>> \in passed
                /\ otpFeature => q.op = "verifyOtp"
    BY <1>0, <1>4 DEF CreateSession, Trusted, Request, Handlers
  <2>2. /\ UNCHANGED <<isVerified, twoFactorOtp, passed, linked>>
        /\ IF q.op = "verifyEmail" THEN active' \subseteq active ELSE MoveTo(q, "cleanup")
    BY <1>4 DEF CreateSession, Leave, userVars, ghostVars
  <2>3. \A s \in sessions' \ sessions :
          s.user = q.user /\ s.via = q.via /\ s.factor = q.op
    BY <1>4 DEF CreateSession
  <2>4. SessionAuthenticated'
    BY <2>1, <2>2, <2>3
  <2>5. CASE q.op = "verifyEmail"
    BY <2>2, <2>4, <2>5
  <2>6. CASE q.op # "verifyEmail"
    BY <1>0, <2>1, <2>2, <2>4, <2>6, MovedRequest DEF Trusted, Handlers
  <2>7. QED
    BY <2>5, <2>6
<1>5. ASSUME NEW q \in active, DeleteExpired(q)
      PROVE  AuthInv'
  <2>1. /\ <<q.user, q.via>> \in passed /\ q.op # "verifyEmail"
        /\ isVerified[q.user]
        /\ otpFeature => q.op # "login"
    BY <1>5 DEF DeleteExpired, Trusted
  <2>2. /\ UNCHANGED <<isVerified, twoFactorOtp, passed, linked>> /\ MoveTo(q, "reset")
        /\ sessions' \subseteq sessions
    BY <1>5 DEF DeleteExpired, userVars, ghostVars
  <2>3. QED
    BY <1>0, <2>1, <2>2, MovedRequest DEF Trusted
<1>6. ASSUME NEW q \in active, ResetUser(q)
      PROVE  AuthInv'
  <2>1. \A u \in Users :
          twoFactorOtp'[u] = IF u = q.user THEN NoOtp ELSE twoFactorOtp[u]
    BY <1>6 DEF ResetUser, ClearOtp, TypeOK
  <2>2. UNCHANGED <<isVerified, sessions, passed, linked>> /\ active' \subseteq active
    BY <1>6 DEF ResetUser, Leave
  <2>3. QED
    BY <2>1, <2>2
<1>7. ASSUME NEW q \in active, Abort(q)
      PROVE  AuthInv'
  BY <1>7 DEF Abort, Leave, ghostVars, userVars
<1>8. ASSUME NEW q \in active, VerifyAccount(q)
      PROVE  AuthInv'
  <2>1. \A v \in Users : isVerified[v] \/ v = q.user => isVerified'[v]
    BY <1>8 DEF VerifyAccount, TypeOK
  <2>2. /\ \A p \in active : p.user \in Users
        /\ \A s \in sessions : s.user \in Users
    BY DEF TypeOK, Request, Session
  <2>3. UNCHANGED <<twoFactorOtp, sessions, passed, linked>> /\ MoveTo(q, "session")
    BY <1>8 DEF VerifyAccount, ghostVars
  <2>4. q.op = "verifyEmail" /\ <<q.user, q.via>> \in linked
    BY <1>8 DEF VerifyAccount
  <2>5. SessionAuthenticated'
    BY <2>1, <2>2, <2>3
  <2>6. QED
    BY <1>0, <2>1, <2>2, <2>3, <2>4, <2>5, MovedRequest DEF Trusted
<1>9. CASE Tick
  BY <1>9 DEF Tick, ghostVars
<1>10. ASSUME NEW s \in sessions, Expire(s)
       PROVE  AuthInv'
  <2>1. s \in Session
    BY DEF TypeOK
  <2>2. \A t \in sessions' \ sessions :
          t.user = s.user /\ t.via = s.via /\ t.factor = s.factor
    BY <1>10, <2>1 DEF Expire, Session
  <2>3. UNCHANGED <<isVerified, twoFactorOtp, active, passed, linked>>
    BY <1>10 DEF Expire, ghostVars, userVars
  <2>4. QED
    BY <2>2, <2>3
<1>11. ASSUME NEW u \in Users, BeginVerifyEmail(u)
       PROVE  AuthInv'
  <2>1. /\ UNCHANGED <<isVerified, twoFactorOtp, sessions, passed>>
        /\ linked \subseteq linked' /\ <<u, serial + 1>> \in linked'
    BY <1>11 DEF BeginVerifyEmail, userVars
  <2>2. \A q \in active' \ active :
          /\ q.user = u /\ q.op = "verifyEmail" /\ q.phase = "verify"
          /\ q.via = serial + 1
    BY <1>11 DEF BeginVerifyEmail
  <2>3. QED
    BY <2>1, <2>2 DEF Trusted
<1>12. CASE UNCHANGED vars
  BY <1>12 DEF vars
<1>13. QED
  BY <1>1, <1>2, <1>3, <1>4, <1>5, <1>6, <1>7, <1>8, <1>9, <1>10, <1>11, <1>12,
     AuthBeginVerifyOtp, AuthComparePassword DEF Next, Advance

\* Every session rests on a right password of its own user and, with
\* OTP_FEATURE on, on a code that such a login issued; or on the token of that
\* user's own welcome mail, found while the account was not verified.
THEOREM SessionsAreAuthenticated == Spec => []SessionAuthenticated
<1>1. AuthInv => SessionAuthenticated
  BY DEF AuthInv
<1>2. QED
  BY <1>1, TypeInit, TypeStep, AuthInit, AuthStep, PTL DEF Spec

-----------------------------------------------------------------------------
(* SpentOtpGone                                                            *)

\* A login whose code has been stored: it is in the row, in the hands of a
\* verifyOtp, or redeemed.
Used(i) ==
    \/ \E x \in spent : x.login = i
    \/ \E u \in Users : twoFactorOtp[u] # NoOtp /\ twoFactorOtp[u].login = i
    \/ \E q \in active : q.op = "verifyOtp" /\ q.phase \in Trusted /\ q.via = i

\* Requests have distinct numbers, a password check belongs to one user, and a
\* login that still has its code to store has not stored one before: so a
\* redeemed code cannot be written back by anyone.
SpentInv ==
    /\ \A q \in active : q.id <= serial
    /\ \A p, q \in active : p.id = q.id => p = q
    /\ \A u \in Users, i \in Nat : <<u, i>> \in passed => i <= serial
    /\ \A u, v \in Users, i \in Nat :
         <<u, i>> \in passed /\ <<v, i>> \in passed => u = v
    /\ \A q \in active : q.phase = "compare" =>
         \A u \in Users : <<u, q.id>> \notin passed
    /\ \A x \in spent : \E u \in Users : <<u, x.login>> \in passed
    /\ \A q \in active : q.phase = "storeOtp" => ~Used(q.id)
    /\ SpentOtpGone

\* No code is spent at the start.
LEMMA SpentInit == Init => SpentInv
BY DEF Init, SpentInv, SpentOtpGone

\* Everything used was passed, so its number belongs to a request started.
LEMMA UsedPassed ==
    ASSUME TypeOK, AuthInv, SpentInv, NEW i \in Nat, Used(i)
    PROVE  \E u \in Users : <<u, i>> \in passed
BY DEF TypeOK, Request, AuthInv, SpentInv, Used

\* Steps that only take requests away, or move them on within Trusted, and
\* leave the codes alone.
LEMMA SpentFrame ==
    ASSUME TypeOK, SpentInv, NEW q \in active,
           \A p \in active' :
             \/ p \in active
             \/ /\ p.id = q.id /\ p.op = q.op /\ p.via = q.via
                /\ p.phase \notin {"compare", "storeOtp"}
                /\ q.op = "verifyOtp" /\ p.phase \in Trusted => q.phase \in Trusted,
           \A p, r \in active' : p.id = r.id => p = r,
           UNCHANGED <<twoFactorOtp, serial, passed, spent>>
    PROVE  SpentInv'
<1>1. \A i : Used(i)' => Used(i)
  BY DEF Used
<1>2. QED
  BY <1>1 DEF SpentInv, SpentOtpGone

\* Moving a request keeps the numbers distinct.
LEMMA MovedDistinct ==
    ASSUME active \subseteq Request, SpentInv, NEW q \in active, NEW phase,
           MoveTo(q, phase)
    PROVE  \A p, r \in active' : p.id = r.id => p = r
BY DEF MoveTo, Request, SpentInv

\* A request that starts has a number of its own and spends nothing.
LEMMA SpentBegin ==
    ASSUME TypeOK, AuthInv, SpentInv, NEW new \in Request,
           new.id = serial + 1, serial' = serial + 1,
           active' = active \cup {new},
           new.phase # "storeOtp",
           new.op = "verifyOtp" /\ new.phase \in Trusted => Used(new.via),
           UNCHANGED <<twoFactorOtp, passed, spent>>
    PROVE  SpentInv'
<1>0. serial \in Nat /\ active \subseteq Request
  BY DEF TypeOK
<1>1. \A i : Used(i)' => Used(i)
  BY DEF Used
<1>2. \A q \in active : q.id <= serial /\ q.id \in Nat
  BY <1>0 DEF SpentInv, Request
<1>3. \A u \in Users : <<u, new.id>> \notin passed
  BY <1>0 DEF SpentInv
<1>4. /\ \A q \in active' : q.id <= serial'
      /\ \A p, q \in active' : p.id = q.id => p = q
      /\ \A u \in Users, i \in Nat : <<u, i>> \in passed => i <= serial'
  BY <1>0, <1>2 DEF SpentInv
<1>5. QED
  BY <1>1, <1>3, <1>4 DEF SpentInv, SpentOtpGone

\* A password check that passes has not been spent.
LEMMA SpentComparePassword ==
    ASSUME TypeOK, AuthInv, SpentInv, NEW q \in active, ComparePassword(q)
    PROVE  SpentInv'
<1>0. /\ active \subseteq Request /\ q \in Request /\ q.user \in Users
      /\ q.id \in Nat /\ q.op = "login" /\ q.phase = "compare"
      /\ UNCHANGED <<twoFactorOtp, serial, spent>>
  BY DEF TypeOK, Request, AuthInv, ComparePassword, userVars
<1>1. CASE ~q.right
  <2>1. MoveTo(q, "countFailure") /\ passed' = passed
    BY <1>1 DEF ComparePassword
  <2>2. QED
    BY <1>0, <2>1, MovedRequest, MovedDistinct, SpentFrame DEF Trusted
<1>2. CASE q.right
  <2>1. /\ MoveTo(q, AfterPassword(q))
        /\ passed' = passed \cup {<<q.user, q.id>>}
    BY <1>2 DEF ComparePassword
  <2>2. \A u \in Users : <<u, q.id>> \notin passed
    BY <1>0 DEF SpentInv
  <2>3. \A i : Used(i)' => Used(i)
    BY <1>0, <2>1, MovedRequest DEF Used
  <2>4. ~Used(q.id)
    BY <1>0, <2>2, UsedPassed
  <2>5. /\ \A p \in active' : p \in active \/ (p.id = q.id /\ p.phase # "compare")
        /\ \A p, r \in active' : p.id = r.id => p = r
    <3> DEFINE moved == [q EXCEPT !.phase = AfterPassword(q)]
    <3>1. moved.id = q.id /\ moved.phase # "compare"
      BY <1>0 DEF Request, AfterPassword
    <3>2. active' = (active \ {q}) \cup {moved}
      BY <2>1 DEF MoveTo
    <3> HIDE DEF moved
    <3>3. \A p, r \in active : p.id = r.id => p = r
      BY DEF SpentInv
    <3>4. \A p \in active' : p \in active \/ (p.id = q.id /\ p.phase # "compare")
      BY <3>1, <3>2
    <3>5. ASSUME NEW p \in active', NEW r \in active', p.id = r.id
          PROVE  p = r
      <4>1. \A x \in active \ {q} : x.id # q.id
        BY <3>3
      <4>2. QED
        BY <3>1, <3>2, <3>3, <3>5, <4>1
    <3>6. QED
      BY <3>4, <3>5
  <2>6. \A p \in active' : p \in active => p.id # q.id
    <3>1. AfterPassword(q) # "compare"
      BY DEF AfterPassword
    <3>2. [q EXCEPT !.phase = AfterPassword(q)].phase = AfterPassword(q)
      BY <1>0 DEF Request
    <3>3. q \notin active'
      BY <1>0, <2>1, <3>1, <3>2 DEF MoveTo
    <3>4. QED
      BY <3>3 DEF SpentInv
  <2>7. QED
    BY <1>0, <2>1, <2>2, <2>3, <2>4, <2>5, <2>6 DEF SpentInv, SpentOtpGone
<1>3. QED
  BY <1>1, <1>2

\* A code that is stored comes from a login that stores none again.
LEMMA SpentStoreOtp ==
    ASSUME TypeOK, AuthInv, SpentInv, NEW q \in active, NEW code \in Codes,
           StoreOtp(q, code)
    PROVE  SpentInv'
<1>0. q.phase = "storeOtp" /\ q.user \in Users /\ ~Used(q.id)
  BY DEF StoreOtp, TypeOK, Request, SpentInv
<1>1. /\ active' = active \ {q}
      /\ UNCHANGED <<serial, passed, spent>>
      /\ \A u \in Users :
           twoFactorOtp'[u] = IF u = q.user THEN [code |-> code, login |-> q.id]
                                           ELSE twoFactorOtp[u]
  BY DEF StoreOtp, TypeOK, Leave, ghostVars
<1>2. \A i : Used(i)' => Used(i) \/ i = q.id
  BY <1>1 DEF Used
<1>3. SpentOtpGone'
  <2>1. \A x \in spent : x.login # q.id
    BY <1>0 DEF Used
  <2>2. QED
    BY <1>1, <2>1 DEF SpentInv, SpentOtpGone
<1>4. \A p \in active' : p.id # q.id
  BY <1>1 DEF SpentInv
<1>5. QED
  BY <1>1, <1>2, <1>3, <1>4 DEF SpentInv

\* The reset of the user takes the code away, and spends it.
LEMMA SpentResetUser ==
    ASSUME TypeOK, AuthInv, SpentInv, NEW q \in active, ResetUser(q)
    PROVE  SpentInv'
<1>0. q \in Request /\ q.user \in Users /\ q.via \in Nat
  BY DEF TypeOK, Request
<1>1. /\ active' = active \ {q}
      /\ UNCHANGED <<serial, passed>>
      /\ \A u \in Users :
           twoFactorOtp'[u] = IF u = q.user THEN NoOtp ELSE twoFactorOtp[u]
      /\ spent' = IF q.op = "verifyOtp" THEN spent \cup {[login |-> q.via, at |-> serial]}
                                        ELSE spent
  BY <1>0 DEF ResetUser, ClearOtp, TypeOK, Leave
<1>2. <<q.user, q.via>> \in passed
  BY DEF ResetUser, AuthInv, Trusted
<1>3. \A i : Used(i)' => Used(i)
  BY <1>1 DEF Used, ResetUser, Trusted
<1>4. SpentOtpGone'
  <2>1. \A u \in Users : twoFactorOtp[u] # NoOtp =>
          twoFactorOtp[u].login \in Nat /\ <<u, twoFactorOtp[u].login>> \in passed
    BY DEF TypeOK, Otp, AuthInv
  <2>2. \A u \in Users : twoFactorOtp'[u] # NoOtp => twoFactorOtp[u].login # q.via
    BY <1>0, <1>1, <1>2, <2>1 DEF SpentInv
  <2>3. QED
    BY <1>1, <2>2 DEF SpentInv, SpentOtpGone
<1>5. QED
  BY <1>0, <1>1, <1>2, <1>3, <1>4 DEF SpentInv

\* Every step keeps spent codes away.
LEMMA SpentStep == TypeOK /\ AuthInv /\ SpentInv /\ [Next]_vars => SpentInv'
<1> SUFFICES ASSUME TypeOK, AuthInv, SpentInv, [Next]_vars
             PROVE  SpentInv'
  OBVIOUS
<1>0. active \subseteq Request /\ serial \in Nat
  BY DEF TypeOK
<1>1. ASSUME NEW u \in Users, NEW right \in BOOLEAN, BeginLogin(u, right)
      PROVE  SpentInv'
  <2> DEFINE new == [id |-> serial + 1, op |-> "login", user |-> u,
                     phase |-> "compare", right |-> right,
                     count |-> failedLoginCount[u], via |-> serial + 1]
  <2>1. new \in Request /\ new.id = serial + 1 /\ new.phase = "compare"
    BY <1>0 DEF Request, Phases, Handlers, TypeOK
  <2>2. /\ active' = active \cup {new} /\ serial' = serial + 1
        /\ UNCHANGED <<twoFactorOtp, passed, spent>>
    BY <1>1 DEF BeginLogin, Admit, Number, userVars
  <2>3. QED
    <3> HIDE DEF new
    <3> QED BY <2>1, <2>2, SpentBegin DEF Trusted
<1>2. ASSUME NEW u \in Users, NEW code \in Codes, BeginVerifyOtp(u, code)
      PROVE  SpentInv'
  <2>1. TypeOK'
    BY TypeStep
  <2> DEFINE matches == twoFactorOtp[u] # NoOtp /\ twoFactorOtp[u].code = code
             row == [id |-> serial + 1, op |-> "verifyOtp", user |-> u,
                     phase |-> IF matches THEN "session" ELSE "countFailure",
                     right |-> matches, count |-> failedLoginCount[u],
                     via |-> IF matches THEN twoFactorOtp[u].login ELSE 0]
  <2>2. PICK new : /\ active' = active \cup {new}
                   /\ new.id = serial + 1 /\ new.op = "verifyOtp"
                   /\ \/ new.phase = "countFailure"
                      \/ /\ new.phase = "session" /\ twoFactorOtp[u] # NoOtp
                         /\ new.via = twoFactorOtp[u].login
    <3>1. active' = active \cup {row}
      BY <1>2 DEF BeginVerifyOtp
    <3>2. /\ row.id = serial + 1 /\ row.op = "verifyOtp"
          /\ \/ row.phase = "countFailure"
             \/ /\ row.phase = "session" /\ twoFactorOtp[u] # NoOtp
                /\ row.via = twoFactorOtp[u].login
      OBVIOUS
    <3> HIDE DEF row
    <3>3. QED
      BY <3>1, <3>2
  <2>3. new \in Request
    BY <2>1, <2>2 DEF TypeOK
  <2>4. serial' = serial + 1 /\ UNCHANGED <<twoFactorOtp, passed, spent>>
    BY <1>2 DEF BeginVerifyOtp, Admit, Number, userVars
  <2>5. new.phase = "session" => Used(new.via)
    BY <2>2 DEF Used
  <2>6. QED
    BY <2>2, <2>3, <2>4, <2>5, SpentBegin DEF Trusted
<1>3. ASSUME NEW q \in active, CountFailure(q)
      PROVE  SpentInv'
  BY <1>3, SpentFrame DEF CountFailure, Leave, SpentInv
<1>4. ASSUME NEW q \in active, CreateSession(q)
      PROVE  SpentInv'
  <2>1. /\ IF q.op = "verifyEmail" THEN active' \subseteq active ELSE MoveTo(q, "cleanup")
        /\ q.phase \in Trusted
        /\ UNCHANGED <<twoFactorOtp, serial, passed, spent>>
    BY <1>4 DEF CreateSession, Leave, userVars, ghostVars, Trusted
  <2>2. CASE q.op = "verifyEmail"
    BY <2>1, <2>2, SpentFrame DEF SpentInv
  <2>3. CASE q.op # "verifyEmail"
    BY <1>0, <2>1, <2>3, MovedRequest, MovedDistinct, SpentFrame
  <2>4. QED
    BY <2>2, <2>3
<1>5. ASSUME NEW q \in active, DeleteExpired(q)
      PROVE  SpentInv'
  <2>1. MoveTo(q, "reset") /\ q.phase \in Trusted
        /\ UNCHANGED <<twoFactorOtp, serial, passed, spent>>
    BY <1>5 DEF DeleteExpired, userVars, ghostVars, Trusted
  <2>2. QED
    BY <1>0, <2>1, MovedRequest, MovedDistinct, SpentFrame
<1>6. ASSUME NEW q \in active, Abort(q)
      PROVE  SpentInv'
  BY <1>6, SpentFrame DEF Abort, Leave, SpentInv, userVars, ghostVars
<1>7. ASSUME NEW q \in active, VerifyAccount(q)
      PROVE  SpentInv'
  <2>1. /\ MoveTo(q, "session") /\ q.op = "verifyEmail"
        /\ UNCHANGED <<twoFactorOtp, serial, passed, spent>>
    BY <1>7 DEF VerifyAccount, ghostVars, AuthInv
  <2>2. QED
    BY <1>0, <2>1, MovedRequest, MovedDistinct, SpentFrame
<1>8. ASSUME NEW u \in Users, BeginVerifyEmail(u)
      PROVE  SpentInv'
  <2> DEFINE new == [id |-> serial + 1, op |-> "verifyEmail", user |-> u,
                     phase |-> "verify", right |-> TRUE,
                     count |-> failedLoginCount[u], via |-> serial + 1]
  <2>1. new \in Request /\ new.id = serial + 1 /\ new.phase = "verify"
        /\ new.op = "verifyEmail"
    BY <1>0 DEF Request, Phases, Handlers, TypeOK
  <2>2. /\ active' = active \cup {new} /\ serial' = serial + 1
        /\ UNCHANGED <<twoFactorOtp, passed, spent>>
    BY <1>8 DEF BeginVerifyEmail, Number, userVars
  <2>3. QED
    <3> HIDE DEF new
    <3> QED BY <2>1, <2>2, SpentBegin
<1>9. CASE UNCHANGED <<twoFactorOtp, active, serial, passed, spent>>
  BY <1>9 DEF SpentInv, SpentOtpGone, Used
<1>10. Tick \/ (\E s \in sessions : Expire(s)) \/ UNCHANGED vars
         => UNCHANGED <<twoFactorOtp, active, serial, passed, spent>>
  BY DEF Tick, Expire, vars, userVars, ghostVars
<1>11. QED
  BY <1>1, <1>2, <1>3, <1>4, <1>5, <1>6, <1>7, <1>8, <1>9, <1>10, SpentComparePassword,
     SpentStoreOtp, SpentResetUser DEF Next, Advance

-----------------------------------------------------------------------------
(* RedeemedBefore                                                          *)

\* RedeemedBefore speaks of sessions; what makes it inductive is that whoever is
\* on the way to one with a redeemed code began before the code was redeemed.
LateInv ==
    /\ \A s \in sessions : s.id <= serial
    /\ \A q \in active, x \in spent :
         q.op = "verifyOtp" /\ q.phase \in Trusted /\ q.via = x.login => q.id <= x.at
    /\ RedeemedBefore

\* There is no session at the start.
LEMMA LateInit == Init => LateInv
BY DEF Init, LateInv, RedeemedBefore

\* Every step keeps late verifications away.
LEMMA LateStep ==
    TypeOK /\ AuthInv /\ SpentInv /\ LateInv /\ [Next]_vars => LateInv'
<1> SUFFICES ASSUME TypeOK, AuthInv, SpentInv, LateInv, [Next]_vars
             PROVE  LateInv'
  OBVIOUS
<1>0. /\ active \subseteq Request /\ serial \in Nat
      /\ \A s \in sessions : s.id \in Nat /\ s.id <= serial
      /\ \A s \in sessions, x \in spent :
           s.factor = "verifyOtp" /\ s.via = x.login => s.id <= x.at
      /\ \A q \in active, x \in spent :
           q.op = "verifyOtp" /\ q.phase \in Trusted /\ q.via = x.login => q.id <= x.at
      /\ \A q \in active : q.id <= serial
  BY DEF TypeOK, Session, LateInv, RedeemedBefore, SpentInv
<1>1. ASSUME serial' = serial + 1, UNCHANGED <<sessions, spent>>,
             NEW new, active' = active \cup {new},
             new.op = "verifyOtp" /\ new.phase \in Trusted =>
               \A x \in spent : x.login # new.via
      PROVE  LateInv'
  <2>1. \A s \in sessions' : s.id <= serial'
    BY <1>0, <1>1
  <2>2. QED
    BY <1>0, <1>1, <2>1 DEF LateInv, RedeemedBefore
<1>2. ASSUME NEW u \in Users, NEW right \in BOOLEAN, BeginLogin(u, right)
      PROVE  LateInv'
  BY <1>1, <1>2 DEF BeginLogin, Admit, Number
<1>3. ASSUME NEW u \in Users, BeginVerifyEmail(u)
      PROVE  LateInv'
  BY <1>1, <1>3 DEF BeginVerifyEmail, Number
<1>4. ASSUME NEW u \in Users, NEW code \in Codes, BeginVerifyOtp(u, code)
      PROVE  LateInv'
  <2> DEFINE matches == twoFactorOtp[u] # NoOtp /\ twoFactorOtp[u].code = code
             new == [id |-> serial + 1, op |-> "verifyOtp", user |-> u,
                     phase |-> IF matches THEN "session" ELSE "countFailure",
                     right |-> matches, count |-> failedLoginCount[u],
                     via |-> IF matches THEN twoFactorOtp[u].login ELSE 0]
  <2>1. new.phase \in Trusted => twoFactorOtp[u] # NoOtp /\ new.via = twoFactorOtp[u].login
    BY DEF Trusted
  <2>2. active' = active \cup {new} /\ serial' = serial + 1 /\ UNCHANGED <<sessions, spent>>
    BY <1>4 DEF BeginVerifyOtp, Admit, Number
  <2> HIDE DEF new
  <2>3. QED
    BY <1>1, <2>1, <2>2 DEF SpentInv, SpentOtpGone
<1>5. ASSUME NEW q \in active, NEW phase, MoveTo(q, phase), UNCHANGED <<serial, spent>>,
             q.op = "verifyOtp" /\ phase \in Trusted => q.phase \in Trusted,
             \A s \in sessions' :
               \/ s \in sessions
               \/ /\ s.id = q.id /\ s.via = q.via /\ s.factor = q.op
                  /\ q.phase \in Trusted
      PROVE  LateInv'
  <2>1. \A p \in active', x \in spent :
          p.op = "verifyOtp" /\ p.phase \in Trusted /\ p.via = x.login => p.id <= x.at
    BY <1>0, <1>5, MovedRequest
  <2>2. QED
    BY <1>0, <1>5, <2>1 DEF LateInv, RedeemedBefore
<1>6. ASSUME NEW q \in active, active' \subseteq active, UNCHANGED <<serial, spent>>,
             \A s \in sessions' :
               \/ s \in sessions
               \/ /\ s.id = q.id /\ s.via = q.via /\ s.factor = q.op
                  /\ q.phase \in Trusted
      PROVE  LateInv'
  BY <1>0, <1>6 DEF LateInv, RedeemedBefore
<1>7. ASSUME NEW q \in active, ComparePassword(q)
      PROVE  LateInv'
  <2>1. q.op = "login" /\ UNCHANGED <<serial, spent, sessions>>
    BY <1>7 DEF ComparePassword, AuthInv
  <2>2. PICK phase : MoveTo(q, phase)
    BY <1>7 DEF ComparePassword
  <2>3. QED
    BY <1>5, <2>1, <2>2
<1>8. ASSUME NEW q \in active, VerifyAccount(q)
      PROVE  LateInv'
  <2>1. q.op = "verifyEmail" /\ MoveTo(q, "session") /\ UNCHANGED <<serial, spent, sessions>>
    BY <1>8 DEF VerifyAccount, AuthInv, ghostVars
  <2>2. QED
    BY <1>5, <2>1
<1>9. ASSUME NEW q \in active, CreateSession(q)
      PROVE  LateInv'
  <2>1. /\ q.phase \in Trusted /\ UNCHANGED <<serial, spent>>
        /\ active' \subseteq active \/ MoveTo(q, "cleanup")
    BY <1>9 DEF CreateSession, Leave, ghostVars, Trusted
  <2>2. \A s \in sessions' :
          s \in sessions \/ (s.id = q.id /\ s.via = q.via /\ s.factor = q.op)
    BY <1>9 DEF CreateSession
  <2>3. QED
    BY <1>5, <1>6, <2>1, <2>2
<1>10. ASSUME NEW q \in active, DeleteExpired(q)
       PROVE  LateInv'
  <2>1. /\ q.phase \in Trusted /\ UNCHANGED <<serial, spent>> /\ MoveTo(q, "reset")
        /\ sessions' \subseteq sessions
    BY <1>10 DEF DeleteExpired, ghostVars, Trusted
  <2>2. QED
    BY <1>5, <2>1
<1>11. ASSUME NEW q \in active,
              \/ CountFailure(q)
              \/ \E code \in Codes : StoreOtp(q, code)
              \/ Abort(q)
       PROVE  LateInv'
  <2>1. active' \subseteq active /\ UNCHANGED <<serial, spent, sessions>>
    BY <1>11 DEF CountFailure, StoreOtp, Abort, Leave, ghostVars
  <2>2. QED
    BY <1>6, <2>1
<1>12. ASSUME NEW q \in active, ResetUser(q)
       PROVE  LateInv'
  <2>1. /\ active' \subseteq active /\ UNCHANGED <<serial, sessions>>
        /\ \A x \in spent' : x \in spent \/ x.at = serial
    BY <1>12 DEF ResetUser, Leave
  <2>2. QED
    BY <1>0, <2>1 DEF LateInv, RedeemedBefore
<1>13. CASE Tick \/ UNCHANGED vars
  <2>1. UNCHANGED <<serial, spent, sessions, active>>
    BY <1>13 DEF Tick, vars, ghostVars
  <2>2. QED
    BY <2>1 DEF LateInv, RedeemedBefore
<1>14. ASSUME NEW s \in sessions, Expire(s)
       PROVE  LateInv'
  <2>1. s \in Session
    BY DEF TypeOK
  <2>2. \A t \in sessions' :
          t \in sessions \/ (t.id = s.id /\ t.via = s.via /\ t.factor = s.factor)
    BY <1>14, <2>1 DEF Expire, Session
  <2>3. UNCHANGED <<serial, spent, active>>
    BY <1>14 DEF Expire, ghostVars
  <2>4. QED
    BY <1>0, <2>2, <2>3 DEF LateInv, RedeemedBefore
<1>15. QED
  BY <1>2, <1>3, <1>4, <1>7, <1>8, <1>9, <1>10, <1>11, <1>12, <1>13, <1>14
     DEF Next, Advance

\* A code redeemed to the end never comes back into any row, and no verification
\* that begins thereafter opens a session with it.
THEOREM OtpsAreRedeemedOnce == Spec => []OtpIsRedeemed
<1>1. SpentInv /\ LateInv => OtpIsRedeemed
  BY DEF SpentInv, LateInv, OtpIsRedeemed
<1>2. QED
  BY <1>1, TypeInit, TypeStep, AuthInit, AuthStep, SpentInit, SpentStep, LateInit,
     LateStep, PTL DEF Spec
=============================================================================
