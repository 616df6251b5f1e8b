---------------------------- MODULE RefreshToken ----------------------------
(***************************************************************************)
(* The life of a session row and of the refresh tokens handed to clients:  *)
(*   - RefreshTokenService.refreshAccessToken                              *)
(*       (src/src/auth/refresh-token/refresh-token.service.ts)             *)
(*   - the session rows opened by login and verifyOtp, with the cleanup    *)
(*     both run, and by verifyEmail                                        *)
(*       (src/src/auth/verify-email/verify-email.service.ts)               *)
(*                                                                         *)
(* refreshAccessToken finds the row by the token it is given, then updates *)
(* it by id: another refresh of the same row, or the cleanup that deletes  *)
(* it, may come between the two.  The credential checks before a session   *)
(* is opened are those of module Login, the user row of verifyEmail that   *)
(* of module Account.                                                      *)
(*                                                                         *)
(* Requests are numbered.  A request mints at most one refresh token, so   *)
(* its number names the token (bcrypt.hash of random bytes: two requests   *)
(* never mint the same one) and the row it creates.                        *)
(***************************************************************************)
EXTENDS Integers, FiniteSets

CONSTANTS
    MaxRequests,    \* bound: requests started
    MaxActive       \* bound: requests in flight at the same time

ASSUME BoundAssumption == MaxRequests \in Nat /\ MaxActive \in Nat

\* refreshToken = null.  Requests are numbered from 1.
NoToken == 0

VARIABLES
    sessions,       \* rows of the Session table
    active,         \* requests in flight
    serial,         \* requests started so far
    \* Observed only by the properties:
    held,           \* refresh tokens delivered to clients, with their origin
    rotated,        \* tokens that an update replaced
    deleted,        \* ids of rows the cleanup removed
    overlapped,     \* ids of rows two requests refreshed at the same time
    lost            \* ids of rows of which a request died before its answer

ghostVars == <<held, rotated, deleted, overlapped, lost>>
vars == <<sessions, active, serial, held, rotated, deleted, overlapped, lost>>

Operations == {"open", "verifyEmail", "refresh"}

Minted == 1..serial

Session == [id: Minted, token: Minted \cup {NoToken}, expired: BOOLEAN]

\* "session" is the row created or found, "old" the token found in it.
Request == [id: Minted, op: Operations, session: Minted,
            old: Minted \cup {NoToken},
            phase: {"create", "cleanup", "update", "respond"}]

Held == [session: Minted, token: Minted, op: Operations]

\* Every row, request and token is one that a request has minted.
TypeOK ==
    /\ serial \in Nat
    /\ sessions \subseteq Session
    /\ active \subseteq Request
    /\ held \subseteq Held
    /\ rotated \subseteq Minted \cup {NoToken}
    /\ deleted \subseteq Minted
    /\ overlapped \subseteq Minted
    /\ lost \subseteq Minted

Init ==
    /\ sessions = {}
    /\ active = {}
    /\ serial = 0
    /\ held = {}
    /\ rotated = {}
    /\ deleted = {}
    /\ overlapped = {}
    /\ lost = {}

-----------------------------------------------------------------------------
Start(op, session, old, phase) ==
    /\ serial < MaxRequests
    /\ Cardinality(active) < MaxActive
    /\ serial' = serial + 1
    /\ active' = active \cup {[id |-> serial + 1, op |-> op, session |-> session,
                               old |-> old, phase |-> phase]}

MoveTo(q, phase) == active' = (active \ {q}) \cup {[q EXCEPT !.phase = phase]}
Leave(q) == active' = active \ {q}

\* A login, a verifyOtp or a verifyEmail whose checks have succeeded.
BeginSession(op) ==
    /\ op \in {"open", "verifyEmail"}
    /\ Start(op, serial + 1, NoToken, "create")
    /\ UNCHANGED <<sessions, ghostVars>>

\* Mutant: the token is the one the next request will mint.
CreatedTokenNext(q) == IF q.op = "verifyEmail" THEN NoToken ELSE serial + 1

\* The refreshToken a new row is given: verifyEmail passes none.
CreatedToken(q) == IF q.op = "verifyEmail" THEN NoToken ELSE q.id

\* session.create
CreateSession(q) ==
    /\ q.phase = "create"
    /\ sessions' = sessions \cup
         {[id |-> q.session, token |-> CreatedToken(q), expired |-> FALSE]}
    /\ MoveTo(q, IF q.op = "open" THEN "cleanup" ELSE "respond")
    /\ UNCHANGED <<serial, ghostVars>>

\* refreshTokenExpiry: { lt: new Date() }
Stale(s) == s.expired

\* session.deleteMany in login and verifyOtp.
DeleteExpired(q) ==
    LET gone == {s \in sessions : Stale(s)} IN
    /\ q.phase = "cleanup"
    /\ sessions' = sessions \ gone
    /\ deleted' = deleted \cup {s.id : s \in gone}
    /\ MoveTo(q, "respond")
    /\ UNCHANGED <<serial, held, rotated, overlapped, lost>>

\* refreshAccessToken, up to its update: session.findFirst by the token a
\* client holds, and the expiry check.  Its read of the user changes nothing.
BeginRefresh(s) ==
    LET rivals == {q \in active : q.op = "refresh" /\ q.session = s.id} IN
    /\ \E h \in held : h.token = s.token
    /\ ~s.expired
    /\ Start("refresh", s.id, s.token, "update")
    /\ overlapped' = IF rivals = {} THEN overlapped ELSE overlapped \cup {s.id}
    /\ UNCHANGED <<sessions, held, rotated, deleted, lost>>

\* Mutants: the row keeps its token; a missing row is written anew.
RefreshedKeepToken(q) ==
    {[s EXCEPT !.expired = FALSE] : s \in {t \in sessions : t.id = q.session}}
RefreshedUpsert(q) ==
    {[id |-> q.session, token |-> q.id, expired |-> FALSE]}

\* The rows session.update leaves for the id: none if the row is gone.
Refreshed(q) ==
    {[id |-> s.id, token |-> q.id, expired |-> FALSE] :
        s \in {t \in sessions : t.id = q.session}}

\* session.update by id.  A row deleted since it was found makes it throw.
UpdateSession(q) ==
    LET found == {s \in sessions : s.id = q.session} IN
    /\ q.phase = "update"
    /\ sessions' = (sessions \ found) \cup Refreshed(q)
    /\ IF Refreshed(q) = {}
       THEN Leave(q) /\ UNCHANGED rotated
       ELSE MoveTo(q, "respond") /\ rotated' = rotated \cup {s.token : s \in found}
    /\ UNCHANGED <<serial, held, deleted, overlapped, lost>>

\* Mutant: the answer repeats the token that was presented.
AnsweredOld(q) == IF q.op = "refresh" THEN q.old ELSE q.id

\* The refreshToken of the answer: the one the request minted.
Answered(q) == q.id

\* The handler returns and the answer reaches the client.
Respond(q) ==
    /\ q.phase = "respond"
    /\ held' = held \cup
         {[session |-> q.session, token |-> Answered(q), op |-> q.op]}
    /\ Leave(q)
    /\ UNCHANGED <<sessions, serial, rotated, deleted, overlapped, lost>>

\* The handler dies, or its answer is lost.
Abort(q) ==
    /\ Leave(q)
    /\ lost' = lost \cup {q.session}
    /\ UNCHANGED <<sessions, serial, held, rotated, deleted, overlapped>>

\* The refreshTokenExpiry of a row goes by.
Expire(s) ==
    /\ ~s.expired
    /\ sessions' = (sessions \ {s}) \cup {[s EXCEPT !.expired = TRUE]}
    /\ UNCHANGED <<active, serial, ghostVars>>

Advance(q) ==
    \/ CreateSession(q)
    \/ DeleteExpired(q)
    \/ UpdateSession(q)
    \/ Respond(q)

Next ==
    \/ \E op \in Operations : BeginSession(op)
    \/ \E s \in sessions : BeginRefresh(s)
    \/ \E q \in active : Advance(q)
    \/ \E q \in active : Abort(q)
    \/ \E s \in sessions : Expire(s)

Spec == Init /\ [][Next]_vars

-----------------------------------------------------------------------------
(* Properties                                                              *)

\* A refresh token replaced by a refresh opens nothing any more: no row ever
\* carries it again, so each token authenticates its session for the requests
\* that found the row before it was rotated, and for no later one.
RotatedGone == \A s \in sessions : s.token \notin rotated

\* A session removed by the cleanup does not come back through a refresh that
\* had already found its row.
DeletedGone == \A s \in sessions : s.id \notin deleted

\* refreshToken has no unique constraint, and findFirst takes any match: no two
\* rows may share a token or an id.
TokensIdentify ==
    \A s, t \in sessions :
        s # t => s.id # t.id /\ (s.token = t.token => s.token = NoToken)

\* A token opens one session, until it is rotated or the session removed, and
\* nothing any more after that, whichever updates were under way.
TokensOpenOne == TokensIdentify /\ RotatedGone /\ DeletedGone

\* A token delivered by login, verifyOtp or refreshAccessToken is in its row,
\* unless a later update rotated it away or the row expired and was removed.
HeldAccounted ==
    \A h \in held : h.op # "verifyEmail" =>
        \/ [id |-> h.session, token |-> h.token, expired |-> FALSE] \in sessions
        \/ [id |-> h.session, token |-> h.token, expired |-> TRUE] \in sessions
        \/ h.token \in rotated
        \/ h.session \in deleted

\* A client that waits for each answer before it refreshes again keeps its
\* session: with no overlapping refresh, no lost answer and no request under
\* way, the newest token delivered for a row is the one stored in it.
SequentialAccess ==
    \A s \in sessions :
        (/\ s.token # NoToken
         /\ s.id \notin overlapped \cup lost
         /\ \A q \in active : q.session # s.id)
        => /\ \E h \in held : h.session = s.id /\ h.token = s.token
           /\ \A h \in held : h.session = s.id => h.token <= s.token

\* What signup.spec.ts expects of verifyEmail: its answer carries a refresh
\* token, which belongs to the session it opened as long as that row lives.
VerifyEmailTokenUsable ==
    \A h \in held : h.op = "verifyEmail" =>
        \A s \in sessions : s.id = h.session => s.token = h.token
=============================================================================
