------------------------------- MODULE Account -------------------------------
(***************************************************************************)
(* The user row, from signup to password reset:                            *)
(*   - SignupService.signup                                                *)
(*   - VerifyEmailService.verifyEmail (its session row is in RefreshToken) *)
(*   - PasswordResetService.requestPasswordReset and resetPassword         *)
(*   - UpdateProfileService.updateProfile                                  *)
(* in src/src/auth and src/src/user.  None of them uses a transaction;     *)
(* each action is the code from one awaited database call to the next.     *)
(*                                                                         *)
(* signup and requestPasswordReset do not await sendMail.  "mails" is the  *)
(* set of mails handed to the mailer: a lost or late mail is one nobody    *)
(* acts on, or not yet.  Requests are numbered, and the number names what  *)
(* the request makes: a row, a verification token, a reset token, a hash.  *)
(***************************************************************************)
EXTENDS Integers, FiniteSets

CONSTANTS
    Emails,         \* addresses, after toLowerCase
    RoleSeeded,     \* a role of type USER exists
    MaxRequests,    \* bound: requests started
    MaxActive       \* bound: requests in flight at the same time

ASSUME AccountAssumption ==
    RoleSeeded \in BOOLEAN /\ MaxRequests \in Nat /\ MaxActive \in Nat

None == 0           \* null; requests are numbered from 1

VARIABLES
    users,          \* rows of the User table, with their USER role
    mails,          \* mails handed to the mailer
    active,         \* requests in flight
    serial,         \* requests started so far
    \* Observed only by the properties:
    stored,         \* <<user, request>>: reset requests stored in the row
    resets,         \* <<user, request>>: password resets done
    crowded         \* users two resets ran for at the same time

ghostVars == <<stored, resets, crowded>>
vars == <<users, mails, active, serial, stored, resets, crowded>>

User == [id: Nat, email: Emails, isVerified: BOOLEAN, verificationToken: Nat,
         role: BOOLEAN, password: Nat \ {None}, passwordResetToken: Nat]

Mail == [kind: {"welcome", "reset"}, user: Nat, token: Nat]

\* "user" is the row the request made or found.
Request == [id: Nat, user: Nat, email: Emails,
            phase: {"create", "role", "mail", "verify", "storeReset", "setPassword", "setProfile"}]

\* In particular a password is never null.
TypeOK ==
    /\ users \subseteq User
    /\ mails \subseteq Mail
    /\ active \subseteq Request
    /\ serial \in Nat
    /\ stored \subseteq Nat \X Nat
    /\ resets \subseteq Nat \X Nat
    /\ crowded \subseteq Nat

Init ==
    /\ users = {}
    /\ mails = {}
    /\ active = {}
    /\ serial = 0
    /\ stored = {}
    /\ resets = {}
    /\ crowded = {}

-----------------------------------------------------------------------------
Start(user, email, phase) ==
    /\ serial < MaxRequests
    /\ Cardinality(active) < MaxActive
    /\ serial' = serial + 1
    /\ active' = active \cup
         {[id |-> serial + 1, user |-> user, email |-> email, phase |-> phase]}

MoveTo(q, phase) == active' = (active \ {q}) \cup {[q EXCEPT !.phase = phase]}
Leave(q) == active' = active \ {q}

\* user.update where id: the row u becomes new.
Update(u, new) == users' = (users \ {u}) \cup {new}

\* signup, up to its first write: the address is free when it is looked up.
BeginSignup(email) ==
    /\ \A u \in users : u.email # email
    /\ Start(serial + 1, email, "create")
    /\ UNCHANGED <<users, mails, ghostVars>>

\* What follows user.create.
AfterCreate == "role"

\* user.create; the unique constraint on email refuses the loser of a race.
CreateUser(q) ==
    /\ q.phase = "create"
    /\ IF \E u \in users : u.email = q.email
       THEN Leave(q) /\ UNCHANGED users
       ELSE /\ MoveTo(q, AfterCreate)
            /\ users' = users \cup
                 {[id |-> q.id, email |-> q.email, isVerified |-> FALSE,
                   verificationToken |-> q.id, role |-> FALSE,
                   password |-> q.id, passwordResetToken |-> None]}
    /\ UNCHANGED <<mails, serial, ghostVars>>

\* role.findFirst of type USER and userRole.create.
AttachRole(q) ==
    /\ q.phase = "role"
    /\ \E u \in users : u.id = q.user /\ Update(u, [u EXCEPT !.role = RoleSeeded])
    /\ MoveTo(q, "mail")
    /\ UNCHANGED <<mails, serial, ghostVars>>

\* The welcome mail, not awaited; then signup returns.
SendWelcome(q) ==
    /\ q.phase = "mail"
    /\ mails' = mails \cup
         {[kind |-> "welcome", user |-> q.user, token |-> q.user]}
    /\ Leave(q)
    /\ UNCHANGED <<users, serial, ghostVars>>

\* Mutant: any account waiting for verification will do.
VerifiesAny(u, token) == u.verificationToken # None

\* user.findFirst by verificationToken.
Verifies(u, token) == u.verificationToken = token

\* verifyEmail, up to its update, with the token of a mail that was sent.
BeginVerify(m, u) ==
    /\ m.kind = "welcome"
    /\ Verifies(u, m.token)
    /\ Start(u.id, u.email, "verify")
    /\ UNCHANGED <<users, mails, ghostVars>>

\* The update of verifyEmail.
MarkVerified(q) ==
    /\ q.phase = "verify"
    /\ \E u \in users :
         /\ u.id = q.user
         /\ Update(u, [u EXCEPT !.verificationToken = None, !.isVerified = TRUE])
    /\ Leave(q)
    /\ UNCHANGED <<mails, serial, ghostVars>>

\* requestPasswordReset: the mail is handed over before the row is updated.
BeginResetRequest(u) ==
    /\ Start(u.id, u.email, "storeReset")
    /\ mails' = mails \cup
         {[kind |-> "reset", user |-> u.id, token |-> serial + 1]}
    /\ UNCHANGED <<users, ghostVars>>

StoreReset(q) ==
    /\ q.phase = "storeReset"
    /\ \E u \in users :
         u.id = q.user /\ Update(u, [u EXCEPT !.passwordResetToken = q.id])
    /\ stored' = stored \cup {<<q.user, q.id>>}
    /\ Leave(q)
    /\ UNCHANGED <<mails, serial, resets, crowded>>

\* JwtAuthGuard lets in any access token of the user: the one in a reset mail,
\* or one of a session, which only a verified account opens.
HasAccess(u) ==
    \/ u.isVerified
    \/ \E m \in mails : m.kind = "reset" /\ m.user = u.id

\* Mutant: resetPassword does not ask for a pending request.
ResetPendingAlways(u) == TRUE

\* The check resetPassword makes on the row the guard read.
ResetPending(u) == u.passwordResetToken # None

\* resetPassword, up to its update.
BeginReset(u) ==
    LET rivals == {q \in active : q.phase = "setPassword" /\ q.user = u.id} IN
    /\ HasAccess(u)
    /\ ResetPending(u)
    /\ Start(u.id, u.email, "setPassword")
    /\ crowded' = IF rivals = {} THEN crowded ELSE crowded \cup {u.id}
    /\ UNCHANGED <<users, mails, stored, resets>>

\* Mutant: the hash is never computed.
ResetRowNull(u, hash) == [u EXCEPT !.password = None, !.passwordResetToken = None]

\* The data of the update in resetPassword.
ResetRow(u, hash) == [u EXCEPT !.password = hash, !.passwordResetToken = None]

SetPassword(q) ==
    /\ q.phase = "setPassword"
    /\ \E u \in users : u.id = q.user /\ Update(u, ResetRow(u, q.id))
    /\ resets' = resets \cup {<<q.user, q.id>>}
    /\ Leave(q)
    /\ UNCHANGED <<mails, serial, stored, crowded>>

\* updateProfile of an account somebody has access to, with a new password; up
\* to its update.  (A change of the name alone is left out.)
BeginUpdateProfile(u) ==
    /\ HasAccess(u)
    /\ Start(u.id, u.email, "setProfile")
    /\ UNCHANGED <<users, mails, ghostVars>>

\* The row it leaves: a pending reset stays pending.
ProfileRow(u, hash) == [u EXCEPT !.password = hash]

SetProfile(q) ==
    /\ q.phase = "setProfile"
    /\ \E u \in users : u.id = q.user /\ Update(u, ProfileRow(u, q.id))
    /\ Leave(q)
    /\ UNCHANGED <<mails, serial, ghostVars>>

\* A handler dies between two awaits.  A mail that fails after signup or
\* requestPasswordReset went on is an unhandled rejection that may take the
\* other requests of the process with it.
Abort(q) ==
    /\ Leave(q)
    /\ UNCHANGED <<users, mails, serial, ghostVars>>

Advance(q) ==
    \/ CreateUser(q)
    \/ AttachRole(q)
    \/ SendWelcome(q)
    \/ MarkVerified(q)
    \/ StoreReset(q)
    \/ SetPassword(q)
    \/ SetProfile(q)

Next ==
    \/ \E email \in Emails : BeginSignup(email)
    \/ \E m \in mails, u \in users : BeginVerify(m, u)
    \/ \E u \in users : BeginResetRequest(u)
    \/ \E u \in users : BeginReset(u) \/ BeginUpdateProfile(u)
    \/ \E q \in active : Advance(q)
    \/ \E q \in active : Abort(q)

Spec == Init /\ [][Next]_vars

-----------------------------------------------------------------------------
(* Properties                                                              *)

\* Whoever gets a welcome mail can use it: the account it belongs to exists,
\* has its USER role, and is verified or still waits for the token mailed,
\* even when two signups of one address race and one of them fails.
WelcomeMailWorks ==
    \A m \in mails : m.kind = "welcome" =>
        \E u \in users :
            /\ u.id = m.user
            /\ u.role = RoleSeeded
            /\ u.isVerified \/ u.verificationToken = m.token

\* An account is verified only after a welcome mail for that very account.
VerifiedByMail ==
    \A u \in users : u.isVerified =>
        \E m \in mails : m.kind = "welcome" /\ m.user = u.id

\* The mails and the accounts agree: a mail works, and what it is for is not to
\* be had without it.
MailsMatchAccounts == WelcomeMailWorks /\ VerifiedByMail

\* One stored reset request lets the password change once, unless two resets
\* of the account were between their guard and their update together.
ResetConsumesRequest ==
    \A u \in users : u.id \notin crowded =>
        Cardinality({r \in resets : r[1] = u.id})
          <= Cardinality({r \in stored : r[1] = u.id})
=============================================================================
