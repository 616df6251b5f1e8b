---------------------------- MODULE AccountProofs ----------------------------
(* Proofs about module Account, for any addresses and bounds, seeded or not. *)
EXTENDS Account, FiniteSetTheorems, TLAPS

-----------------------------------------------------------------------------
(* Steps                                                                   *)

\* What an update makes of a row: u becomes v, and nobody else changes.
Updates(q, u, v) ==
    /\ u \in users /\ v \in User
    /\ u.id = q.user /\ v.id = u.id
    /\ users' = (users \ {u}) \cup {v}
    /\ v.role = IF q.phase = "role" THEN RoleSeeded ELSE u.role
    /\ IF q.phase = "verify" THEN v.verificationToken = None /\ v.isVerified
       ELSE v.verificationToken = u.verificationToken /\ v.isVerified = u.isVerified
    /\ v.passwordResetToken = CASE q.phase = "storeReset" -> q.id
                                [] q.phase = "setPassword" -> None
                                [] OTHER -> u.passwordResetToken
    /\ stored' = IF q.phase = "storeReset" THEN stored \cup {<<q.user, q.id>>} ELSE stored
    /\ resets' = IF q.phase = "setPassword" THEN resets \cup {<<q.user, q.id>>} ELSE resets

\* The row signup creates.
Creates(q, v) ==
    /\ q.phase = "create"
    /\ v \in User /\ v.id = q.id
    /\ users' = users \cup {v}
    /\ ~v.isVerified /\ v.verificationToken = q.id /\ v.passwordResetToken = None

\* r is what MoveTo makes of q.
Moves(q, r) ==
    /\ r \in Request /\ r.id = q.id /\ r.user = q.user
    /\ \/ q.phase = "create" /\ r.phase = "role"
       \/ q.phase = "role" /\ r.phase = "mail"
    /\ active' = (active \ {q}) \cup {r}

\* A request that is served writes its row, if it writes one, and moves on or
\* ends.
Served(q) ==
    /\ serial' = serial /\ crowded' = crowded
    /\ Leave(q) \/ \E r \in Request : Moves(q, r)
    /\ \/ UNCHANGED <<users, stored, resets>> /\ Leave(q)
       \/ /\ \E v \in User : Creates(q, v)
          /\ \E r \in Request : Moves(q, r)
          /\ UNCHANGED <<stored, resets>>
       \/ \E u, v \in User : Updates(q, u, v)
    /\ \/ mails' = mails
       \/ /\ q.phase = "mail"
          /\ mails' = mails \cup {[kind |-> "welcome", user |-> q.user, token |-> q.user]}

LEMMA MovedRequest ==
    ASSUME NEW q \in Request, NEW phase \in {"role", "mail"}, MoveTo(q, phase),
           \/ q.phase = "create" /\ phase = "role"
           \/ q.phase = "role" /\ phase = "mail"
    PROVE  \E r \in Request : Moves(q, r)
<1> DEFINE r == [q EXCEPT !.phase = phase]
<1>1. r \in Request /\ r.id = q.id /\ r.user = q.user /\ r.phase = phase
  BY DEF Request
<1>2. active' = (active \ {q}) \cup {r}
  BY DEF MoveTo
<1> HIDE DEF r
<1> QED
  BY <1>1, <1>2 DEF Moves

LEMMA RequestServed ==
    ASSUME TypeOK, NEW q \in active, q.id \in Nat \ {None}, Advance(q) \/ Abort(q)
    PROVE  Served(q)
<1>1. q \in Request /\ users \subseteq User
  BY DEF TypeOK
<1>2. CASE CreateUser(q)
  <2> DEFINE v == [id |-> q.id, email |-> q.email, isVerified |-> FALSE,
                   verificationToken |-> q.id, role |-> FALSE,
                   password |-> q.id, passwordResetToken |-> None]
  <2>1. /\ v \in User /\ v.id = q.id /\ ~v.isVerified
        /\ v.verificationToken = q.id /\ v.passwordResetToken = None
    BY <1>1 DEF User, Request, None
  <2>2. /\ q.phase = "create"
        /\ UNCHANGED <<mails, serial, stored, resets, crowded>>
        /\ \/ Leave(q) /\ UNCHANGED users
           \/ MoveTo(q, "role") /\ users' = users \cup {v}
    BY <1>2 DEF CreateUser, AfterCreate, ghostVars
  <2> HIDE DEF v
  <2> QED
    BY <1>1, <2>1, <2>2, MovedRequest DEF Served, Creates
<1>3. CASE AttachRole(q)
  <2>1. PICK u \in users : u.id = q.user /\ Update(u, [u EXCEPT !.role = RoleSeeded])
    BY <1>3 DEF AttachRole
  <2> DEFINE v == [u EXCEPT !.role = RoleSeeded]
  <2>2. /\ v \in User /\ v.id = u.id /\ v.role = RoleSeeded
        /\ v.verificationToken = u.verificationToken
        /\ v.isVerified = u.isVerified
        /\ v.passwordResetToken = u.passwordResetToken
    BY <1>1, AccountAssumption DEF User, None, ResetRow, ProfileRow
  <2>3. /\ q.phase = "role" /\ users' = (users \ {u}) \cup {v}
        /\ stored' = stored
        /\ resets' = resets
    BY <1>3, <2>1 DEF AttachRole, Update, ghostVars
  <2> HIDE DEF v
  <2>4. Updates(q, u, v)
    BY <2>1, <2>2, <2>3 DEF Updates
  <2> QED
    BY <1>1, <1>3, <2>2, <2>4, MovedRequest DEF AttachRole, ghostVars, Served
<1>4. CASE MarkVerified(q)
  <2>1. PICK u \in users :
          u.id = q.user /\ Update(u, [u EXCEPT !.verificationToken = None, !.isVerified = TRUE])
    BY <1>4 DEF MarkVerified
  <2> DEFINE v == [u EXCEPT !.verificationToken = None, !.isVerified = TRUE]
  <2>2. /\ v \in User /\ v.id = u.id /\ v.role = u.role
        /\ v.verificationToken = None /\ v.isVerified
        /\ v.passwordResetToken = u.passwordResetToken
    BY <1>1, AccountAssumption DEF User, None, ResetRow, ProfileRow
  <2>3. /\ q.phase = "verify" /\ users' = (users \ {u}) \cup {v}
        /\ stored' = stored
        /\ resets' = resets
    BY <1>4, <2>1 DEF MarkVerified, Update, ghostVars
  <2> HIDE DEF v
  <2>4. Updates(q, u, v)
    BY <2>1, <2>2, <2>3 DEF Updates
  <2> QED
    BY <1>1, <1>4, <2>2, <2>4 DEF MarkVerified, ghostVars, Served
<1>5. CASE StoreReset(q)
  <2>1. PICK u \in users : u.id = q.user /\ Update(u, [u EXCEPT !.passwordResetToken = q.id])
    BY <1>5 DEF StoreReset
  <2> DEFINE v == [u EXCEPT !.passwordResetToken = q.id]
  <2>2. /\ v \in User /\ v.id = u.id /\ v.role = u.role
        /\ v.verificationToken = u.verificationToken
        /\ v.isVerified = u.isVerified /\ v.passwordResetToken = q.id
    BY <1>1, AccountAssumption DEF User, None, ResetRow, ProfileRow
  <2>3. /\ q.phase = "storeReset" /\ users' = (users \ {u}) \cup {v}
        /\ stored' = stored \cup {<<q.user, q.id>>}
        /\ resets' = resets
    BY <1>5, <2>1 DEF StoreReset, Update, ghostVars
  <2> HIDE DEF v
  <2>4. Updates(q, u, v)
    BY <2>1, <2>2, <2>3 DEF Updates
  <2> QED
    BY <1>1, <1>5, <2>2, <2>4 DEF StoreReset, ghostVars, Served
<1>6. CASE SetPassword(q)
  <2>1. PICK u \in users : u.id = q.user /\ Update(u, ResetRow(u, q.id))
    BY <1>6 DEF SetPassword
  <2> DEFINE v == ResetRow(u, q.id)
  <2>2. /\ v \in User /\ v.id = u.id /\ v.role = u.role
        /\ v.verificationToken = u.verificationToken
        /\ v.isVerified = u.isVerified /\ v.passwordResetToken = None
    BY <1>1, AccountAssumption DEF User, None, ResetRow, ProfileRow
  <2>3. /\ q.phase = "setPassword" /\ users' = (users \ {u}) \cup {v}
        /\ stored' = stored
        /\ resets' = resets \cup {<<q.user, q.id>>}
    BY <1>6, <2>1 DEF SetPassword, Update, ghostVars
  <2> HIDE DEF v
  <2>4. Updates(q, u, v)
    BY <2>1, <2>2, <2>3 DEF Updates
  <2> QED
    BY <1>1, <1>6, <2>2, <2>4 DEF SetPassword, ghostVars, Served
<1>7. CASE SetProfile(q)
  <2>1. PICK u \in users : u.id = q.user /\ Update(u, ProfileRow(u, q.id))
    BY <1>7 DEF SetProfile
  <2> DEFINE v == ProfileRow(u, q.id)
  <2>2. /\ v \in User /\ v.id = u.id /\ v.role = u.role
        /\ v.verificationToken = u.verificationToken
        /\ v.isVerified = u.isVerified
        /\ v.passwordResetToken = u.passwordResetToken
    BY <1>1, AccountAssumption DEF User, None, ResetRow, ProfileRow
  <2>3. /\ q.phase = "setProfile" /\ users' = (users \ {u}) \cup {v}
        /\ stored' = stored
        /\ resets' = resets
    BY <1>7, <2>1 DEF SetProfile, Update, ghostVars
  <2> HIDE DEF v
  <2>4. Updates(q, u, v)
    BY <2>1, <2>2, <2>3 DEF Updates
  <2> QED
    BY <1>1, <1>7, <2>2, <2>4 DEF SetProfile, ghostVars, Served
<1>8. CASE SendWelcome(q) \/ Abort(q)
  BY <1>8 DEF SendWelcome, Abort, ghostVars, Served
<1> QED
  BY <1>2, <1>3, <1>4, <1>5, <1>6, <1>7, <1>8 DEF Advance

\* A request that starts: new, at the first await of its handler, and except
\* for a signup about a row that is there.
Starts(r) ==
    /\ r \in Request
    /\ r.id = serial + 1
    /\ r.phase \in {"create", "verify", "storeReset", "setPassword", "setProfile"}
    /\ r.phase = "create" => r.user = r.id
    /\ r.phase # "create" => \E u \in users : u.id = r.user
    /\ r.phase = "verify" =>
         \E m \in mails, u \in users : m.kind = "welcome" /\ u.id = r.user
                                       /\ u.verificationToken = m.token
    /\ r.phase = "setPassword" =>
         \E u \in users :
            /\ u.id = r.user /\ u.passwordResetToken # None
            /\ crowded' = IF \E q \in active : q.phase = "setPassword" /\ q.user = u.id
                          THEN crowded \cup {u.id} ELSE crowded
    /\ r.phase # "setPassword" => crowded' = crowded
    /\ mails' = mails \/ \E m \in Mail : m.kind = "reset" /\ mails' = mails \cup {m}

Begin ==
    \/ \E email \in Emails : BeginSignup(email)
    \/ \E m \in mails, u \in users : BeginVerify(m, u)
    \/ \E u \in users : BeginResetRequest(u) \/ BeginReset(u) \/ BeginUpdateProfile(u)

LEMMA RequestStarts ==
    ASSUME TypeOK, Begin
    PROVE  /\ serial' = serial + 1 /\ UNCHANGED <<users, stored, resets>>
           /\ \E r \in Request : Starts(r) /\ active' = active \cup {r}
<1>1. serial \in Nat /\ \A u \in users : u \in User /\ u.id \in Nat /\ u.email \in Emails
  BY DEF TypeOK, User
<1> DEFINE Row(user, email, phase) ==
             [id |-> serial + 1, user |-> user, email |-> email, phase |-> phase]
<1>2. ASSUME NEW user \in Nat, NEW email \in Emails,
             NEW phase \in {"create", "verify", "storeReset", "setPassword", "setProfile"},
             Start(user, email, phase)
      PROVE  /\ serial' = serial + 1 /\ active' = active \cup {Row(user, email, phase)}
             /\ Row(user, email, phase) \in Request
             /\ Row(user, email, phase).id = serial + 1
             /\ Row(user, email, phase).user = user
             /\ Row(user, email, phase).phase = phase
  BY <1>1, <1>2 DEF Start, Request
<1> HIDE DEF Row
<1>3. ASSUME NEW email \in Emails, BeginSignup(email)
      PROVE  /\ serial' = serial + 1 /\ UNCHANGED <<users, stored, resets>>
             /\ \E r \in Request : Starts(r) /\ active' = active \cup {r}
  <2>1. Start(serial + 1, email, "create") /\ UNCHANGED <<users, mails, stored, resets, crowded>>
    BY <1>3 DEF BeginSignup, ghostVars
  <2> QED
    BY <1>1, <1>2, <2>1 DEF Starts
<1>4. ASSUME NEW m \in mails, NEW u \in users, BeginVerify(m, u)
      PROVE  /\ serial' = serial + 1 /\ UNCHANGED <<users, stored, resets>>
             /\ \E r \in Request : Starts(r) /\ active' = active \cup {r}
  <2>1. /\ Start(u.id, u.email, "verify") /\ UNCHANGED <<users, mails, stored, resets, crowded>>
        /\ m.kind = "welcome" /\ u.verificationToken = m.token
    BY <1>4 DEF BeginVerify, Verifies, ghostVars
  <2> QED
    BY <1>1, <1>2, <2>1 DEF Starts
<1>5. ASSUME NEW u \in users, BeginResetRequest(u)
      PROVE  /\ serial' = serial + 1 /\ UNCHANGED <<users, stored, resets>>
             /\ \E r \in Request : Starts(r) /\ active' = active \cup {r}
  <2> DEFINE m == [kind |-> "reset", user |-> u.id, token |-> serial + 1]
  <2>1. /\ Start(u.id, u.email, "storeReset") /\ UNCHANGED <<users, stored, resets, crowded>>
        /\ mails' = mails \cup {m}
    BY <1>5 DEF BeginResetRequest, ghostVars
  <2>2. m \in Mail /\ m.kind = "reset"
    BY <1>1 DEF Mail
  <2> HIDE DEF m
  <2> QED
    BY <1>1, <1>2, <2>1, <2>2 DEF Starts
<1>6. ASSUME NEW u \in users, BeginReset(u)
      PROVE  /\ serial' = serial + 1 /\ UNCHANGED <<users, stored, resets>>
             /\ \E r \in Request : Starts(r) /\ active' = active \cup {r}
  <2>1. /\ Start(u.id, u.email, "setPassword") /\ UNCHANGED <<users, mails, stored, resets>>
        /\ u.passwordResetToken # None
        /\ crowded' = IF \E q \in active : q.phase = "setPassword" /\ q.user = u.id
                      THEN crowded \cup {u.id} ELSE crowded
    BY <1>6 DEF BeginReset, ResetPending
  <2>2. PICK r \in Request :
          /\ serial' = serial + 1 /\ active' = active \cup {r}
          /\ r.id = serial + 1 /\ r.user = u.id /\ r.phase = "setPassword"
    BY <1>1, <1>2, <2>1
  <2>3. Starts(r)
    BY <2>1, <2>2 DEF Starts
  <2> QED
    BY <2>1, <2>2, <2>3
<1>7. ASSUME NEW u \in users, BeginUpdateProfile(u)
      PROVE  /\ serial' = serial + 1 /\ UNCHANGED <<users, stored, resets>>
             /\ \E r \in Request : Starts(r) /\ active' = active \cup {r}
  <2>1. /\ Start(u.id, u.email, "setProfile")
        /\ UNCHANGED <<users, mails, stored, resets, crowded>>
    BY <1>7 DEF BeginUpdateProfile, ghostVars
  <2> QED
    BY <1>1, <1>2, <2>1 DEF Starts
<1> QED
  BY <1>3, <1>4, <1>5, <1>6, <1>7 DEF Begin

-----------------------------------------------------------------------------
(* Rows and requests                                                       *)

\* Numbers are used once: by a request, and by the row it creates.  Every
\* request but a signup about to create its row has its row.
RowInv ==
    /\ \A q \in active : q.id \in 1..serial
    /\ \A p, q \in active : p.id = q.id => p = q
    /\ \A u \in users : u.id \in 1..serial
    /\ \A u, v \in users : u.id = v.id => u = v
    /\ \A q \in active : q.phase = "create" => q.user = q.id /\ \A u \in users : u.id # q.id
    /\ \A q \in active : q.phase # "create" => \E u \in users : u.id = q.user

\* What the mails are about, and what the requests still have to do for that.
MailInv ==
    /\ \A u \in users : u.isVerified \/ u.verificationToken = u.id
    /\ \A u \in users : u.verificationToken \in {None, u.id}
    /\ \A q \in active : q.phase = "mail" => \E u \in users : u.id = q.user /\ u.role = RoleSeeded
    /\ \A m \in mails : m.kind = "welcome" =>
         m.token = m.user /\ \E u \in users : u.id = m.user /\ u.role = RoleSeeded
    /\ \A q \in active : q.phase = "verify" => \E m \in mails : m.kind = "welcome" /\ m.user = q.user
    /\ VerifiedByMail

Inv == TypeOK /\ RowInv /\ MailInv

LEMMA InvInit == Init => Inv
  BY DEF Init, Inv, TypeOK, RowInv, MailInv, VerifiedByMail

\* The rows before a step are there after it, and keep what was promised.
LEMMA RowsStay ==
    ASSUME Inv, NEW q \in active, Served(q)
    PROVE  /\ \A u \in users : \E v \in users' : v.id = u.id /\ (u.role = RoleSeeded => v.role = RoleSeeded)
           /\ \A v \in users' : \/ v \in users
                                 \/ Creates(q, v)
                                 \/ \E u \in users : Updates(q, u, v)
<1>1. CASE UNCHANGED users
  BY <1>1
<1>2. ASSUME NEW w \in User, Creates(q, w)
      PROVE  /\ \A u \in users : u \in users'
             /\ \A v \in users' : v \in users \/ Creates(q, v)
  BY <1>2 DEF Creates
<1>3. ASSUME NEW x \in User, NEW y \in User, Updates(q, x, y)
      PROVE  /\ \A u \in users : \E v \in users' : v.id = u.id /\ (u.role = RoleSeeded => v.role = RoleSeeded)
             /\ \A v \in users' : v \in users \/ \E u \in users : Updates(q, u, v)
  BY <1>3 DEF Updates
<1> QED
  BY <1>1, <1>2, <1>3 DEF Served

LEMMA InvStep ==
    ASSUME Inv, [Next]_vars
    PROVE  Inv'
<1>0. /\ serial \in Nat /\ active \subseteq Request /\ users \subseteq User
      /\ mails \subseteq Mail
  BY DEF Inv, TypeOK
<1>1. CASE UNCHANGED vars
  BY <1>1 DEF vars, ghostVars, Inv, TypeOK, RowInv, MailInv, VerifiedByMail
<1>2. CASE Begin
  <2>1. PICK r \in Request : Starts(r) /\ active' = active \cup {r}
    BY <1>2, RequestStarts DEF Inv
  <2>2. serial' = serial + 1 /\ UNCHANGED <<users, stored, resets>>
    BY <1>2, RequestStarts DEF Inv
  <2>3. /\ mails \subseteq mails' /\ mails' \subseteq Mail
        /\ \A m \in mails' : m.kind = "welcome" => m \in mails
    BY <1>0, <2>1 DEF Starts
  <2>4. TypeOK'
    <3>1. crowded' \subseteq Nat
      BY <1>0, <2>1 DEF Starts, Inv, TypeOK, User
    <3> QED
      BY <1>0, <2>1, <2>2, <2>3, <3>1 DEF Inv, TypeOK
  <2>5. RowInv'
    <3>1. r.id = serial + 1 /\ \A u \in users : u.id # r.id
      BY <1>0, <2>1 DEF Starts, Inv, RowInv
    <3>2. \A q \in active' : q.id \in 1..serial'
      BY <1>0, <2>1, <2>2, <3>1 DEF Inv, RowInv
    <3>3. \A p, q \in active' : p.id = q.id => p = q
      BY <1>0, <2>1, <3>1 DEF Inv, RowInv
    <3>4. \A u \in users' : u.id \in 1..serial'
      BY <1>0, <2>2 DEF Inv, RowInv
    <3> QED
      BY <2>1, <2>2, <3>1, <3>2, <3>3, <3>4 DEF Starts, Inv, RowInv
  <2>6. MailInv'
    <3>1. r.phase = "verify" => \E m \in mails : m.kind = "welcome" /\ m.user = r.user
      <4> SUFFICES ASSUME r.phase = "verify"
                   PROVE  \E m \in mails : m.kind = "welcome" /\ m.user = r.user
        OBVIOUS
      <4>1. PICK m \in mails, u \in users :
              m.kind = "welcome" /\ u.id = r.user /\ u.verificationToken = m.token
        BY <2>1 DEF Starts
      <4>2. m.token = m.user /\ \E v \in users : v.id = m.user
        BY <4>1 DEF Inv, MailInv
      <4>3. m.token # None
        BY <1>0, <4>2 DEF Inv, RowInv, None
      <4> QED
        BY <4>1, <4>2, <4>3 DEF Inv, MailInv
    <3>2. r.phase # "mail"
      BY <2>1 DEF Starts
    <3>3. \A q \in active' : q.phase = "verify" =>
             \E m \in mails' : m.kind = "welcome" /\ m.user = q.user
      BY <2>1, <2>3, <3>1 DEF Inv, MailInv
    <3>4. VerifiedByMail'
      BY <2>2, <2>3 DEF Inv, MailInv, VerifiedByMail
    <3> QED
      BY <2>1, <2>2, <2>3, <3>2, <3>3, <3>4 DEF Inv, MailInv
  <2> QED
    BY <2>4, <2>5, <2>6 DEF Inv
<1>3. ASSUME NEW q \in active, Advance(q) \/ Abort(q) PROVE Inv'
  <2>1. q \in Request /\ q.id \in 1..serial /\ q.id \in Nat \ {None}
    BY <1>0 DEF Inv, RowInv, None
  <2>2. Served(q)
    BY <1>3, <2>1, RequestServed DEF Inv
  <2>3. serial' = serial
    BY <2>2 DEF Served
  <2>4. \A p \in active' : \/ p \in active /\ p.id # q.id
                           \/ p.id = q.id /\ Moves(q, p)
    BY <2>2 DEF Served, Leave, Moves, Inv, RowInv
  <2>5. \A p, r \in active' : p.id = r.id => p = r
    <3>1. CASE Leave(q)
      BY <3>1 DEF Leave, Inv, RowInv
    <3>2. ASSUME NEW r \in Request, Moves(q, r)
          PROVE  \A p, s \in active' : p.id = s.id => p = s
      BY <3>2 DEF Moves, Inv, RowInv
    <3> QED
      BY <2>2, <3>1, <3>2 DEF Served
  <2>6. /\ mails \subseteq mails' /\ mails' \subseteq Mail
        /\ \A m \in mails' : m \in mails \/ (q.phase = "mail" /\ m.kind = "welcome"
                                               /\ m.user = q.user /\ m.token = q.user)
    BY <1>0, <2>1, <2>2 DEF Served, Mail, Request
  <2>7. TypeOK'
    <3>1. users' \subseteq User
      BY <1>0, <2>2, RowsStay DEF Creates, Updates
    <3>2. active' \subseteq Request
      BY <1>0, <2>4 DEF Moves
    <3>3. stored' \subseteq Nat \X Nat /\ resets' \subseteq Nat \X Nat
      BY <2>1, <2>2 DEF Served, Updates, Inv, TypeOK, Request
    <3>4. crowded' = crowded
      BY <2>2 DEF Served
    <3> QED
      BY <2>3, <2>6, <3>1, <3>2, <3>3, <3>4 DEF Inv, TypeOK
  <2>8. RowInv'
    <3>1. \A p \in active' : p.id \in 1..serial'
      BY <2>1, <2>3, <2>4 DEF Inv, RowInv
    <3>2. \A v \in users' : v.id \in 1..serial'
      BY <2>1, <2>2, <2>3, RowsStay DEF Creates, Updates, Inv, RowInv
    <3>3. \A u, v \in users' : u.id = v.id => u = v
      <4>1. CASE UNCHANGED users
        BY <4>1 DEF Inv, RowInv
      <4>2. ASSUME NEW w \in User, Creates(q, w)
            PROVE  \A u, v \in users' : u.id = v.id => u = v
        BY <4>2 DEF Creates, Inv, RowInv
      <4>3. ASSUME NEW x \in User, NEW y \in User, Updates(q, x, y)
            PROVE  \A u, v \in users' : u.id = v.id => u = v
        BY <4>3 DEF Updates, Inv, RowInv
      <4> QED
        BY <2>2, <4>1, <4>2, <4>3 DEF Served
    <3>4. \A p \in active' : p.phase = "create" =>
             p.user = p.id /\ \A v \in users' : v.id # p.id
      <4> SUFFICES ASSUME NEW p \in active', p.phase = "create", NEW v \in users'
                   PROVE  p.user = p.id /\ v.id # p.id
        BY <2>4 DEF Inv, RowInv, Moves
      <4>1. p \in active /\ p.id # q.id
        BY <2>4 DEF Moves
      <4> QED
        BY <2>2, <4>1, RowsStay DEF Creates, Updates, Inv, RowInv
    <3>5. \A p \in active' : p.phase # "create" => \E v \in users' : v.id = p.user
      <4> SUFFICES ASSUME NEW p \in active', p.phase # "create"
                   PROVE  \E v \in users' : v.id = p.user
        OBVIOUS
      <4>1. CASE p \in active
        BY <2>2, <4>1, RowsStay DEF Inv, RowInv
      <4>2. CASE Moves(q, p) /\ q.phase # "create"
        BY <2>2, <4>2, RowsStay DEF Moves, Inv, RowInv
      <4>3. CASE Moves(q, p) /\ q.phase = "create" /\ p \notin active
        <5>1. ~Leave(q)
          BY <4>3 DEF Leave
        <5>2. ~\E u, v \in User : Updates(q, u, v)
          BY <4>3 DEF Updates, Inv, RowInv
        <5>3. PICK v \in User : Creates(q, v)
          BY <2>2, <5>1, <5>2 DEF Served
        <5> QED
          BY <4>3, <5>3 DEF Creates, Moves, Inv, RowInv
      <4> QED
        BY <2>4, <4>1, <4>2, <4>3
    <3> QED
      BY <2>5, <3>1, <3>2, <3>3, <3>4, <3>5 DEF RowInv
  <2>9. MailInv'
    <3>1. \A v \in users' : v.isVerified \/ v.verificationToken = v.id
      BY <2>2, RowsStay DEF Creates, Updates, Inv, MailInv
    <3>2. \A v \in users' : v.verificationToken \in {None, v.id}
      BY <2>2, RowsStay DEF Creates, Updates, Inv, MailInv
    <3>3. \A p \in active' : p.phase = "mail" =>
             \E v \in users' : v.id = p.user /\ v.role = RoleSeeded
      <4> SUFFICES ASSUME NEW p \in active', p.phase = "mail"
                   PROVE  \E v \in users' : v.id = p.user /\ v.role = RoleSeeded
        OBVIOUS
      <4>1. CASE p \in active
        BY <2>2, <4>1, RowsStay DEF Inv, MailInv
      <4>2. CASE Moves(q, p) /\ p \notin active
        <5>1. ~Leave(q) /\ q.phase = "role" /\ p.user = q.user
          BY <4>2 DEF Leave, Moves
        <5>2. PICK u, v \in User : Updates(q, u, v)
          BY <2>2, <5>1 DEF Served, Creates
        <5> QED
          BY <5>1, <5>2 DEF Updates
      <4> QED
        BY <2>4, <4>1, <4>2
    <3>4. \A m \in mails' : m.kind = "welcome" =>
             m.token = m.user /\ \E v \in users' : v.id = m.user /\ v.role = RoleSeeded
      <4> SUFFICES ASSUME NEW m \in mails', m.kind = "welcome"
                   PROVE  /\ m.token = m.user
                          /\ \E u \in users : u.id = m.user /\ u.role = RoleSeeded
        BY <2>2, RowsStay
      <4> QED
        BY <2>6 DEF Inv, MailInv
    <3>5. \A p \in active' : p.phase = "verify" =>
             \E m \in mails' : m.kind = "welcome" /\ m.user = p.user
      BY <2>4, <2>6 DEF Moves, Inv, MailInv
    <3>6. VerifiedByMail'
      <4> SUFFICES ASSUME NEW v \in users', v.isVerified
                   PROVE  \E m \in mails : m.kind = "welcome" /\ m.user = v.id
        BY <2>6 DEF VerifiedByMail
      <4>1. CASE v \in users
        BY <4>1 DEF VerifiedByMail, Inv, MailInv
      <4>2. ASSUME NEW u \in users, Updates(q, u, v)
            PROVE  \E m \in mails : m.kind = "welcome" /\ m.user = v.id
        <5>1. v.id = u.id /\ u.id = q.user
          BY <4>2 DEF Updates
        <5>2. CASE q.phase = "verify"
          BY <5>1, <5>2 DEF Inv, MailInv
        <5>3. CASE q.phase # "verify"
          <6>1. u.isVerified
            BY <4>2, <5>3 DEF Updates
          <6> QED
            BY <5>1, <6>1, <4>2 DEF VerifiedByMail, Inv, MailInv
        <5> QED
          BY <5>2, <5>3
      <4> QED
        BY <2>2, <4>1, <4>2, RowsStay DEF Creates
    <3> QED
      BY <3>1, <3>2, <3>3, <3>4, <3>5, <3>6 DEF MailInv
  <2> QED
    BY <2>7, <2>8, <2>9 DEF Inv
<1> QED
  BY <1>1, <1>2, <1>3 DEF Next, Begin

\* Every variable keeps its type, for any addresses and bounds; in particular
\* no password is ever null.
THEOREM TypeCorrect == Spec => []TypeOK
<1>1. Inv => TypeOK
  BY DEF Inv
<1> QED
  BY InvInit, InvStep, <1>1, PTL DEF Spec

\* Whoever gets a welcome mail can use it, and nobody is verified without one,
\* whatever signups, verifications and resets overlap or die half way.
THEOREM MailsAlwaysMatch == Spec => []MailsMatchAccounts
<1>1. Inv => MailsMatchAccounts
  <2> SUFFICES ASSUME Inv PROVE WelcomeMailWorks
    BY DEF MailsMatchAccounts, Inv, MailInv
  <2> QED
    BY DEF WelcomeMailWorks, Inv, MailInv
<1> QED
  BY InvInit, InvStep, <1>1, PTL DEF Spec

LEMMA Rows == Spec => []Inv
  BY InvInit, InvStep, PTL DEF Spec

-----------------------------------------------------------------------------
(* Password resets                                                         *)

Of(S, i) == {r \in S : r[1] = i}

\* A reset may still come of what was stored: it is pending, or a request read
\* that it was.
Owed(u) ==
    \/ u.passwordResetToken # None
    \/ \E q \in active : q.phase = "setPassword" /\ q.user = u.id

Counted(u) ==
    /\ Cardinality(Of(resets, u.id)) <= Cardinality(Of(stored, u.id))
    /\ Owed(u) => Cardinality(Of(resets, u.id)) < Cardinality(Of(stored, u.id))

\* Of each account that two resets were not at together, fewer resets are done
\* than requests were stored while one is owed, and no more once none is.
ResetInv ==
    /\ IsFiniteSet(stored) /\ IsFiniteSet(resets)
    /\ \A s \in stored : s[2] \in 1..serial
    /\ \A s \in stored : \A q \in active : q.phase = "storeReset" => q.id # s[2]
    /\ \A r \in stored \cup resets : \E u \in users : u.id = r[1]
    /\ \A p, q \in active :
         p.phase = "setPassword" /\ q.phase = "setPassword" /\ p.user = q.user
           /\ p.user \notin crowded => p = q
    /\ \A u \in users : u.id \notin crowded => Counted(u)

LEMMA CountAdded ==
    ASSUME NEW S, IsFiniteSet(S), NEW i, NEW x
    PROVE  /\ IsFiniteSet(Of(S, i)) /\ Cardinality(Of(S, i)) \in Nat
           /\ Cardinality(Of(S \cup {<<i, x>>}, i)) =
                IF <<i, x>> \in S THEN Cardinality(Of(S, i)) ELSE Cardinality(Of(S, i)) + 1
           /\ \A j : j # i => Of(S \cup {<<i, x>>}, j) = Of(S, j)
<1>1. IsFiniteSet(Of(S, i)) /\ Cardinality(Of(S, i)) \in Nat
  BY FS_Subset, FS_CardinalityType DEF Of
<1>2. Of(S \cup {<<i, x>>}, i) = Of(S, i) \cup {<<i, x>>}
  BY DEF Of
<1>3. <<i, x>> \in Of(S, i) <=> <<i, x>> \in S
  BY DEF Of
<1>4. \A j : j # i => Of(S \cup {<<i, x>>}, j) = Of(S, j)
  BY DEF Of
<1> QED
  BY <1>1, <1>2, <1>3, <1>4, FS_AddElement

LEMMA ResetInit == Init => ResetInv
  BY FS_EmptySet DEF Init, ResetInv

LEMMA ResetBegins ==
    ASSUME Inv, ResetInv, Begin
    PROVE  ResetInv'
<1>1. PICK r \in Request : Starts(r) /\ active' = active \cup {r}
  BY RequestStarts DEF Inv
<1>2. serial' = serial + 1 /\ UNCHANGED <<users, stored, resets>>
  BY RequestStarts DEF Inv
<1>3. serial \in Nat /\ r.id = serial + 1
  BY <1>1 DEF Starts, Inv, TypeOK
<1>4. /\ \A s \in stored' : s[2] \in 1..serial'
      /\ \A s \in stored' : \A q \in active' : q.phase = "storeReset" => q.id # s[2]
  BY <1>1, <1>2, <1>3 DEF ResetInv
<1>5. crowded \subseteq crowded'
  BY <1>1 DEF Starts
<1>6. CASE r.phase # "setPassword"
  <2>1. \A u \in users : Owed(u)' => Owed(u)
    BY <1>1, <1>2, <1>6 DEF Owed
  <2>2. \A u \in users' : u.id \notin crowded' => Counted(u)'
    BY <1>2, <1>5, <2>1 DEF ResetInv, Counted
  <2>3. \A p, q \in active' :
          p.phase = "setPassword" /\ q.phase = "setPassword" /\ p.user = q.user
            /\ p.user \notin crowded' => p = q
    BY <1>1, <1>5, <1>6 DEF ResetInv
  <2> QED
    BY <1>2, <1>4, <2>2, <2>3 DEF ResetInv
<1>7. CASE r.phase = "setPassword"
  <2>1. PICK u \in users :
          /\ u.id = r.user /\ u.passwordResetToken # None
          /\ crowded' = IF \E q \in active : q.phase = "setPassword" /\ q.user = u.id
                        THEN crowded \cup {u.id} ELSE crowded
    BY <1>1, <1>7 DEF Starts
  <2>2. \A v \in users : Owed(v)' => Owed(v)
    BY <1>1, <1>2, <2>1 DEF Owed, Inv, RowInv
  <2>3. \A v \in users' : v.id \notin crowded' => Counted(v)'
    BY <1>2, <1>5, <2>2 DEF ResetInv, Counted
  <2>4. \A p, q \in active' :
          p.phase = "setPassword" /\ q.phase = "setPassword" /\ p.user = q.user
            /\ p.user \notin crowded' => p = q
    BY <1>1, <1>5, <2>1 DEF ResetInv
  <2> QED
    BY <1>2, <1>4, <2>3, <2>4 DEF ResetInv
<1> QED
  BY <1>6, <1>7

LEMMA ResetServed ==
    ASSUME Inv, ResetInv, NEW q \in active, Served(q)
    PROVE  ResetInv'
<1>1. crowded' = crowded /\ serial' = serial /\ q.id \in 1..serial
  BY DEF Served, Inv, RowInv
<1>2. \A p \in active' : p \in active \/ p.phase \in {"role", "mail"}
  BY DEF Served, Leave, Moves
<1>3. \A p, r \in active' :
        p.phase = "setPassword" /\ r.phase = "setPassword" /\ p.user = r.user
          /\ p.user \notin crowded' => p = r
  BY <1>1, <1>2 DEF ResetInv
<1>4. \A u \in users : \E v \in users' : v.id = u.id
  BY RowsStay
<1>5. ASSUME UNCHANGED <<stored, resets>>,
             \A v \in users' : v.id \notin crowded => Counted(v)'
      PROVE  ResetInv'
  BY <1>1, <1>2, <1>3, <1>4, <1>5 DEF ResetInv
<1>6. CASE UNCHANGED <<users, stored, resets>>
  <2>1. \A u \in users : Owed(u)' => Owed(u)
    BY <1>2, <1>6 DEF Owed
  <2> QED
    BY <1>5, <1>6, <2>1 DEF ResetInv, Counted
<1>7. ASSUME NEW w \in User, Creates(q, w), UNCHANGED <<stored, resets>> PROVE ResetInv'
  <2>1. \A u \in users : Owed(u)' => Owed(u)
    BY <1>2 DEF Owed
  <2>2. \A u \in users : u.id # w.id
    BY <1>7 DEF Creates, Inv, RowInv
  <2>3. Of(stored, w.id) = {} /\ Of(resets, w.id) = {}
    BY <2>2 DEF Of, ResetInv
  <2>4. ~Owed(w)'
    BY <1>2, <1>7, <2>2 DEF Owed, Creates, Inv, RowInv
  <2>5. Counted(w)'
    BY <1>7, <2>3, <2>4, FS_EmptySet DEF Counted
  <2> QED
    BY <1>5, <1>7, <2>1, <2>5 DEF ResetInv, Counted, Creates
<1>8. ASSUME NEW x \in User, NEW y \in User, Updates(q, x, y) PROVE ResetInv'
  <2>0. x \in users /\ x.id = q.user /\ y.id = x.id /\ users' = (users \ {x}) \cup {y}
    BY <1>8 DEF Updates
  <2>1. \A u \in users : u # x => u.id # q.user
    BY <2>0 DEF Inv, RowInv
  <2>2. \A u \in users : Owed(u)' => Owed(u)
    BY <1>2 DEF Owed
  <2>3. CASE q.phase \notin {"storeReset", "setPassword"}
    <3>1. UNCHANGED <<stored, resets>> /\ y.passwordResetToken = x.passwordResetToken
      BY <1>8, <2>3 DEF Updates
    <3>2. Owed(y)' => Owed(x)
      BY <1>2, <2>0, <3>1 DEF Owed
    <3>3. \A v \in users' : v.id \notin crowded => Counted(v)'
      BY <2>0, <2>2, <3>1, <3>2 DEF ResetInv, Counted
    <3> QED
      BY <1>5, <3>1, <3>3
  <2>4. CASE q.phase = "storeReset"
    <3>1. stored' = stored \cup {<<q.user, q.id>>} /\ resets' = resets
      BY <1>8, <2>4 DEF Updates
    <3>2. Leave(q)
      BY <2>4 DEF Served, Moves
    <3>3. <<q.user, q.id>> \notin stored
      BY <2>4 DEF ResetInv
    <3>4. /\ Cardinality(Of(stored', q.user)) = Cardinality(Of(stored, q.user)) + 1
          /\ Cardinality(Of(stored, q.user)) \in Nat
          /\ Cardinality(Of(resets, q.user)) \in Nat
          /\ \A j : j # q.user => Of(stored', j) = Of(stored, j)
      <4>1. IsFiniteSet(stored) /\ IsFiniteSet(resets)
        BY DEF ResetInv
      <4>2. /\ Cardinality(Of(stored, q.user)) \in Nat
            /\ Cardinality(Of(resets, q.user)) \in Nat
        BY <4>1, CountAdded
      <4>3. /\ Cardinality(Of(stored \cup {<<q.user, q.id>>}, q.user)) =
                 IF <<q.user, q.id>> \in stored THEN Cardinality(Of(stored, q.user))
                                               ELSE Cardinality(Of(stored, q.user)) + 1
            /\ \A j : j # q.user => Of(stored \cup {<<q.user, q.id>>}, j) = Of(stored, j)
        BY <4>1, CountAdded
      <4> QED
        BY <3>1, <3>3, <4>2, <4>3
    <3>5. x.id \notin crowded => Counted(y)'
      BY <2>0, <3>1, <3>4 DEF ResetInv, Counted
    <3>6. \A v \in users' : v.id \notin crowded => Counted(v)'
      BY <2>0, <2>1, <2>2, <3>1, <3>4, <3>5 DEF ResetInv, Counted
    <3>7. IsFiniteSet(stored')
      BY <3>1, FS_AddElement DEF ResetInv
    <3>8. \A s \in stored' : s[2] \in 1..serial'
      BY <1>1, <3>1 DEF ResetInv
    <3>9. \A s \in stored' : \A p \in active' : p.phase = "storeReset" => p.id # s[2]
      BY <3>1, <3>2 DEF Leave, ResetInv, Inv, RowInv
    <3>10. \A r \in stored' \cup resets' : \E u \in users' : u.id = r[1]
      BY <1>4, <2>0, <3>1 DEF ResetInv
    <3> QED
      BY <1>1, <1>3, <3>1, <3>6, <3>7, <3>8, <3>9, <3>10 DEF ResetInv
  <2>5. CASE q.phase = "setPassword"
    <3>1. /\ stored' = stored /\ resets' = resets \cup {<<q.user, q.id>>}
          /\ y.passwordResetToken = None
      BY <1>8, <2>5 DEF Updates
    <3>2. Leave(q)
      BY <2>5 DEF Served, Moves
    <3>3. /\ Cardinality(Of(resets', q.user)) <= Cardinality(Of(resets, q.user)) + 1
          /\ Cardinality(Of(stored, q.user)) \in Nat
          /\ Cardinality(Of(resets, q.user)) \in Nat
          /\ Cardinality(Of(resets', q.user)) \in Nat
          /\ \A j : j # q.user => Of(resets', j) = Of(resets, j)
      <4>1. IsFiniteSet(stored) /\ IsFiniteSet(resets)
        BY DEF ResetInv
      <4>2. /\ Cardinality(Of(stored, q.user)) \in Nat
            /\ Cardinality(Of(resets, q.user)) \in Nat
        BY <4>1, CountAdded
      <4>3. /\ Cardinality(Of(resets \cup {<<q.user, q.id>>}, q.user)) =
                 IF <<q.user, q.id>> \in resets THEN Cardinality(Of(resets, q.user))
                                               ELSE Cardinality(Of(resets, q.user)) + 1
            /\ \A j : j # q.user => Of(resets \cup {<<q.user, q.id>>}, j) = Of(resets, j)
        BY <4>1, CountAdded
      <4>4. \/ Cardinality(Of(resets', q.user)) = Cardinality(Of(resets, q.user))
            \/ Cardinality(Of(resets', q.user)) = Cardinality(Of(resets, q.user)) + 1
        BY <3>1, <4>3
      <4>5. \A j : j # q.user => Of(resets', j) = Of(resets, j)
        BY <3>1, <4>3
      <4> QED
        BY <4>2, <4>4, <4>5
    <3>4. x.id \notin crowded => Counted(y)'
      <4> SUFFICES ASSUME x.id \notin crowded PROVE Counted(y)'
        OBVIOUS
      <4>1. Cardinality(Of(resets, q.user)) < Cardinality(Of(stored, q.user))
        BY <2>0, <2>5 DEF ResetInv, Counted, Owed
      <4>2. ~Owed(y)'
        BY <2>0, <2>5, <3>1, <3>2 DEF Owed, Leave, ResetInv
      <4> QED
        BY <2>0, <3>1, <3>3, <4>1, <4>2 DEF Counted
    <3>5. \A v \in users' : v.id \notin crowded => Counted(v)'
      BY <2>0, <2>1, <2>2, <3>1, <3>3, <3>4 DEF ResetInv, Counted
    <3>6. IsFiniteSet(resets')
      BY <3>1, FS_AddElement DEF ResetInv
    <3>7. \A r \in stored' \cup resets' : \E u \in users' : u.id = r[1]
      BY <1>4, <2>0, <3>1 DEF ResetInv
    <3> QED
      BY <1>1, <1>2, <1>3, <3>1, <3>5, <3>6, <3>7 DEF ResetInv
  <2> QED
    BY <2>3, <2>4, <2>5
<1> QED
  BY <1>6, <1>7, <1>8 DEF Served

LEMMA ResetStep ==
    ASSUME Inv, ResetInv, [Next]_vars
    PROVE  ResetInv'
<1>1. CASE UNCHANGED vars
  BY <1>1 DEF vars, ghostVars, ResetInv, Counted, Owed
<1>2. CASE Begin
  BY <1>2, ResetBegins
<1>3. ASSUME NEW q \in active, Advance(q) \/ Abort(q) PROVE ResetInv'
  <2>1. q.id \in Nat \ {None}
    BY DEF Inv, TypeOK, RowInv, None
  <2> QED
    BY <1>3, <2>1, RequestServed, ResetServed DEF Inv
<1> QED
  BY <1>1, <1>2, <1>3 DEF Next, Begin

\* One stored request lets the password be reset once, however requests and
\* resets of the account overlap, unless two resets were under way together.
THEOREM ResetsConsumeRequests == Spec => []ResetConsumesRequest
<1>1. ResetInv => ResetConsumesRequest
  BY DEF ResetInv, Counted, Of, ResetConsumesRequest
<1> QED
  BY Rows, ResetInit, ResetStep, <1>1, PTL DEF Spec
=============================================================================
